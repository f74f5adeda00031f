------------------------------ MODULE Delivery ------------------------------
(***************************************************************************)
(* deliverReply: a text is split into chunks, and the chunks are sent to   *)
(* the chat one after the other, each retried when its send fails, which   *)
(* it may do after it has reached the chat.                                *)
(***************************************************************************)
EXTENDS Naturals, Integers, Sequences, FiniteSetsExt

CONSTANTS Texts,      \* the texts: sequences over Characters
          MaxSize,    \* maxChunkSize (4000 in the code)
          MaxRetries  \* 3 in the code

Characters == {"w", ".", " ", "n", "t"}   \* "n" a line break, "t" any other white space

(* What a value for these has to satisfy.                                   *)
DeliveryAssumption ==
    /\ Texts \subseteq Seq(Characters)
    /\ MaxSize \in Nat \ {0} /\ MaxRetries \in Nat

VARIABLES
    text,   \* the text
    rest,   \* chunkText: how much of it is no longer in `remaining`
    chunks, \* chunkText: the chunks so far, each a section of the text
    at,     \* the next chunk to send
    tries,  \* failed attempts at that chunk
    ended,  \* "no", "resolved" or "rejected"
    chat,   \* what the chat shows of it: chunk numbers, in order
    unsure  \* history: chunks whose send failed after they had reached the chat

vars == <<text, rest, chunks, at, tries, ended, chat, unsure>>

Blank(c) == c \in {" ", "n", "t"}
Solid == {p \in DOMAIN text : ~Blank(text[p])}
Section == [from: DOMAIN text, to: DOMAIN text]

TypeOK ==
    /\ text \in Texts /\ rest \in 0..Len(text)
    /\ chunks \in Seq(Section)
    /\ at \in 1..Len(chunks) + 1 /\ tries \in 0..MaxRetries
    /\ ended \in {"no", "resolved", "rejected"}
    /\ chat \in Seq(1..Len(chunks))
    /\ unsure \subseteq {chat[i] : i \in DOMAIN chat}

Init ==
    /\ text \in Texts
    /\ rest = 0 /\ chunks = <<>>
    /\ at = 1 /\ tries = 0 /\ ended = "no" /\ chat = <<>> /\ unsure = {}

-----------------------------------------------------------------------------
(* chunkText *)

Remaining == SubSeq(text, rest + 1, Len(text))

(* s.lastIndexOf(p, MaxSize): how many characters stand before the last p   *)
(* that starts there or earlier; 0 if there is none past the start.         *)
Before(s, p) ==
    Max({0} \cup {k \in 1..MaxSize : k + Len(p) <= Len(s) /\ SubSeq(s, k + 1, k + Len(p)) = p})

(* At a blank line, a line break, after a sentence, or anywhere.            *)
SplitAt(s) ==
    LET blank == Before(s, <<"n", "n">>)
        line == Before(s, <<"n">>)
        sentence == Before(s, <<".", " ">>)
    IN  CASE blank > 0 -> blank
          [] blank = 0 /\ line > 0 -> line
          [] blank = 0 /\ line = 0 /\ sentence > 0 -> sentence + 1
          [] OTHER -> MaxSize

(* trimEnd of what goes up to a position, and trimStart of what follows it. *)
TrimmedEnd(cut) == Max({rest} \cup {p \in Solid : rest < p /\ p <= cut})
TrimmedStart(cut) == Min({Len(text)} \cup {p - 1 : p \in {q \in Solid : q > cut}})

(* An empty chunk is left out.                                              *)
Push(to) ==
    chunks' = IF to = rest THEN chunks ELSE Append(chunks, [from |-> rest + 1, to |-> to])

(* One round of the loop: what fits is the last chunk as it is.             *)
Split ==
    /\ rest < Len(text)
    /\ IF Len(Remaining) <= MaxSize
       THEN Push(Len(text)) /\ rest' = Len(text)
       ELSE LET cut == rest + SplitAt(Remaining)
            IN  Push(TrimmedEnd(cut)) /\ rest' = TrimmedStart(cut)
    /\ UNCHANGED <<text, at, tries, ended, chat, unsure>>

-----------------------------------------------------------------------------
(* deliverReply *)

More == rest = Len(text) /\ ended = "no" /\ at <= Len(chunks)

Sent ==
    /\ More
    /\ chat' = Append(chat, at) /\ at' = at + 1 /\ tries' = 0
    /\ UNCHANGED <<text, rest, chunks, ended, unsure>>

(* The chunk has reached the chat, though its send fails, or it has not.    *)
MayHaveArrived ==
    \/ UNCHANGED <<chat, unsure>>
    \/ chat' = Append(chat, at) /\ unsure' = unsure \cup {at}

(* Fault: a chunk that was given up is left out.                            *)
SendFailsGoingOn ==
    /\ More /\ MayHaveArrived
    /\ IF tries < MaxRetries THEN tries' = tries + 1 /\ UNCHANGED at
       ELSE at' = at + 1 /\ tries' = 0
    /\ UNCHANGED <<text, rest, chunks, ended>>

(* It is sent again after a backoff, up to MaxRetries times; then the       *)
(* delivery is given up, and what has been shown stays.                     *)
SendFails ==
    /\ More /\ MayHaveArrived
    /\ IF tries < MaxRetries THEN tries' = tries + 1 /\ UNCHANGED ended
       ELSE ended' = "rejected" /\ UNCHANGED tries
    /\ UNCHANGED <<text, rest, chunks, at>>

Returns ==
    /\ rest = Len(text) /\ ended = "no" /\ at > Len(chunks)
    /\ ended' = "resolved"
    /\ UNCHANGED <<text, rest, chunks, at, tries, chat, unsure>>

Next == Split \/ Sent \/ SendFails \/ Returns

Spec == Init /\ [][Next]_vars

-----------------------------------------------------------------------------
(* Properties *)

(* The chunks are sections of the text in its order; once it is split, all  *)
(* that is not blank is in one of them; none is longer than the limit and a *)
(* full stop.                                                               *)
ChunksHoldText ==
    /\ \A i \in DOMAIN chunks :
          LET c == chunks[i]
          IN  /\ c.from <= c.to
              /\ c.to < c.from + MaxSize + (IF text[c.to] = "." THEN 1 ELSE 0)
    /\ \A i \in 1..Len(chunks) - 1 : chunks[i].to < chunks[i + 1].from
    /\ rest = Len(text) =>
          \A p \in Solid : \E i \in DOMAIN chunks : p \in chunks[i].from..chunks[i].to

(* However sends fail, what the chat shows of a text is a beginning of it   *)
(* in order; a chunk shows twice only if a send failed after it had         *)
(* arrived; and a delivery that resolves has shown all of the text.         *)
DeliversText ==
    /\ ChunksHoldText
    /\ chat # <<>> => chat[1] = 1
    /\ \A i \in 1..Len(chat) - 1 :
          chat[i + 1] = chat[i] + 1 \/ (chat[i + 1] = chat[i] /\ chat[i] \in unsure)
    /\ ended = "resolved" => rest = Len(text) /\ {chat[i] : i \in DOMAIN chat} = 1..Len(chunks)
=============================================================================
