--------------------------- MODULE ReplyContract ---------------------------
(***************************************************************************)
(* What the channel service promises the person on the other end of a chat *)
(* about the messages that start an agent run ("requests"): the agent is   *)
(* handed one request of a chat at a time, every request comes to exactly  *)
(* one close, at a close at most one text goes out, and the status         *)
(* reaction on the message is sealed once, to the mark that fits how the   *)
(* request ended.  How runs, sessions and sends interleave underneath is   *)
(* left to Conversation, which implements this module.                     *)
(***************************************************************************)
CONSTANTS Chats, Msgs, None

VARIABLES
  chat,       \* Msgs -> Chats or None: the chat a message belongs to
  phase,      \* Msgs -> the phase of the request, see Phases
  text        \* Msgs -> the text sent when the request closed

vars == <<chat, phase, text>>

Phases == {"idle", "open", "closing", "done", "error"}
Texts  == {"none", "reply", "runError", "callError"}

TypeOK == /\ chat \in [Msgs -> Chats \cup {None}]
          /\ phase \in [Msgs -> Phases]
          /\ text \in [Msgs -> Texts]

Init == /\ chat = [m \in Msgs |-> None]
        /\ phase = [m \in Msgs |-> "idle"]
        /\ text = [m \in Msgs |-> "none"]

\* A message arrives; it may never become a request (it can be observed or steered).
Arrive(m, c) == /\ chat[m] = None
                /\ chat' = [chat EXCEPT ![m] = c]
                /\ UNCHANGED <<phase, text>>

Open(m) == /\ chat[m] # None
           /\ phase[m] = "idle"
           /\ \A n \in Msgs : phase[n] = "open" => chat[n] # chat[m]
           /\ phase' = [phase EXCEPT ![m] = "open"]
           /\ UNCHANGED <<chat, text>>

\* The run ended well and there is nothing left to say.
CloseSilently(m) == /\ phase[m] = "open"
                    /\ phase' = [phase EXCEPT ![m] = "done"]
                    /\ UNCHANGED <<chat, text>>

\* The run ended and its answer, or its error, is on the way to the chat.
CloseWith(m, t) == /\ phase[m] = "open"
                   /\ t \in {"reply", "runError"}
                   /\ phase' = [phase EXCEPT ![m] = "closing"]
                   /\ text' = [text EXCEPT ![m] = t]
                   /\ UNCHANGED chat

\* The run never reported an end: the request is sealed before the apology is sent.
CloseFailed(m) == /\ phase[m] = "open"
                  /\ phase' = [phase EXCEPT ![m] = "error"]
                  /\ text' = [text EXCEPT ![m] = "callError"]
                  /\ UNCHANGED chat

Seal(m) == /\ phase[m] = "closing"
           /\ phase' = [phase EXCEPT ![m] = IF text[m] = "reply" THEN "done" ELSE "error"]
           /\ UNCHANGED <<chat, text>>

Next == \E m \in Msgs : \/ \E c \in Chats : Arrive(m, c)
                        \/ Open(m)
                        \/ CloseSilently(m)
                        \/ \E t \in {"reply", "runError"} : CloseWith(m, t)
                        \/ CloseFailed(m)
                        \/ Seal(m)

Spec == Init /\ [][Next]_vars
=============================================================================
