---------------------------- MODULE Conversation ----------------------------
(***************************************************************************)
(* One chat turn from end to end: the inbound pipeline's session slots     *)
(* (services/channel/pipeline.ts), the agent service's session cache and   *)
(* active-run set (services/agent/index.ts) and channel.send               *)
(* (services/channel/index.ts), above the Pi SDK and the chat transport,   *)
(* which are external.                                                     *)
(*                                                                         *)
(* One process, one JavaScript thread: a step runs from one I/O completion *)
(* to the next await that waits for I/O; a chain of already settled        *)
(* promises runs inside one step.  Everything between two awaits of one    *)
(* call interleaves with the steps of every other call.                    *)
(*                                                                         *)
(* A member of Msgs is one input to a chat.  It names the inbound message, *)
(* the agent call made for it, the PipelineSession it opened (if it opened *)
(* one) and the AgentSession object it created (if it created one).        *)
(***************************************************************************)
EXTENDS Naturals

CONSTANTS
  Chats,            \* session keys of channel chats
  Msgs,             \* inputs, each used once
  CrossSends,       \* the inputs that may be cross-session sends to the chat
  None,             \* no chat, no message, no AgentSession
  Nudge,            \* the driver of a run started by the compaction follow-up
  MaxCompactions    \* bound on the compactions of a behaviour

ASSUME ConversationAssumption == /\ CrossSends \subseteq Msgs
                                 /\ None \notin Chats \cup Msgs
                                 /\ Nudge \notin Msgs \cup {None}
                                 /\ MaxCompactions \in Nat

VARIABLES
  \* the call made for an input
  chat,         \* Msgs -> its session key
  stage,        \* Msgs -> how far the call got, see Stages
  on,           \* Msgs -> the AgentSession object the call was given
  \* InboundMessagePipeline
  slot,         \* Chats -> this.sessions: the open PipelineSession
  replied,      \* the PipelineSessions whose `replied` is set
  completed,    \* the PipelineSessions whose `completed` is set
  reaction,     \* Msgs -> the StatusReactionController's phase
  text,         \* Msgs -> what is sent at the session's close
  delivery,     \* Msgs -> the channel.send of that text
  typing,       \* the chats whose typing indicator is on
  \* AgentService and the AgentSession objects
  cached,       \* Chats -> this.sessions: the cached AgentSession
  active,       \* this.activeRuns
  run,          \* Msgs -> whose prompt drives the object's current run
  disposed,     \* the AgentSession objects disposed of
  compacting,   \* the AgentSession objects in the middle of a compaction
  notices,      \* Chats -> compaction notices on their way to the chat
  compactions,  \* compactions so far (bound)
  \* history
  toolSent,     \* the requests whose run delivered a text with channel.send
  lostEnds,     \* the chats where a run ended and nobody was told
  overtaken     \* the requests another run's end closed and whose own run goes on

callVars  == <<chat, stage, on>>
closeVars == <<slot, completed, reaction, text, delivery>>
agentVars == <<cached, active, run, disposed>>
noteVars  == <<compacting, notices, compactions>>
histVars  == <<toolSent, lostEnds, overtaken>>
vars == <<callVars, closeVars, replied, typing, agentVars, noteVars, histVars>>

Stages == {"new",        \* not received yet
           "expanding",  \* process() awaits expandLinks
           "creating",   \* agent.execute awaits getOrCreateSession, see also `on`
           "prompting",  \* agent.execute awaits withTimeout(session.prompt(...))
           "appending",  \* agent.appendMessage awaits getOrCreateSession
           "done"}

TypeOK == /\ chat \in [Msgs -> Chats \cup {None}]
          /\ stage \in [Msgs -> Stages]
          /\ on \in [Msgs -> Msgs \cup {None}]
          /\ slot \in [Chats -> Msgs \cup {None}]
          /\ replied \subseteq Msgs
          /\ completed \subseteq Msgs
          /\ reaction \in [Msgs -> {"none", "working", "done", "error"}]
          /\ text \in [Msgs -> {"none", "reply", "runError", "callError"}]
          /\ delivery \in [Msgs -> {"none", "sending", "media", "over"}]
          /\ typing \subseteq Chats
          /\ cached \in [Chats -> Msgs \cup {None}]
          /\ active \subseteq Chats
          /\ run \in [Msgs -> Msgs \cup {None, Nudge}]
          /\ disposed \subseteq Msgs
          /\ compacting \subseteq Msgs
          /\ notices \in [Chats -> Nat]
          /\ compactions \in 0 .. MaxCompactions
          /\ toolSent \subseteq Msgs
          /\ lostEnds \subseteq Chats
          /\ overtaken \subseteq Msgs

Init == /\ chat = [m \in Msgs |-> None]
        /\ stage = [m \in Msgs |-> "new"]
        /\ on = [m \in Msgs |-> None]
        /\ slot = [c \in Chats |-> None]
        /\ replied = {}
        /\ completed = {}
        /\ reaction = [m \in Msgs |-> "none"]
        /\ text = [m \in Msgs |-> "none"]
        /\ delivery = [m \in Msgs |-> "none"]
        /\ typing = {}
        /\ cached = [c \in Chats |-> None]
        /\ active = {}
        /\ run = [m \in Msgs |-> None]
        /\ disposed = {}
        /\ compacting = {}
        /\ notices = [c \in Chats |-> 0]
        /\ compactions = 0
        /\ toolSent = {}
        /\ lostEnds = {}
        /\ overtaken = {}

----------------------------------------------------------------------------
(* Pipeline helpers.                                                       *)

\* process() made a PipelineSession for m.
Opened(m) == reaction[m] # "none"

\* StatusReactionController.set: a terminal phase seals the controller.
Sealed(m) == reaction[m] \in {"done", "error"}

MarkReplied(c) ==
  replied' = replied \cup ({slot[c]} \ {None})

\* InboundMessagePipeline.finalize for PipelineSession m.
Finalize(m, success) ==
  /\ reaction' = IF Sealed(m) THEN reaction
                 ELSE [reaction EXCEPT ![m] = IF success THEN "done" ELSE "error"]
  /\ typing' = typing \ {chat[m]}

\* bus.call('channel.send') of the text that closes m.
StartSend(m, t) == /\ text' = [text EXCEPT ![m] = t]
                   /\ delivery' = [delivery EXCEPT ![m] = "sending"]

\* Fault: the catch does not take the session out of the map.
CatchKeepsSlot(m) ==
  IF Opened(m) /\ m \notin completed
  THEN /\ Finalize(m, FALSE)
       /\ StartSend(m, "callError")
       /\ UNCHANGED <<slot, completed>>
  ELSE UNCHANGED <<closeVars, typing>>

\* The catch process() puts on its own agent.execute; a steered call's only logs.
Catch(m) ==
  IF Opened(m) /\ m \notin completed
  THEN /\ Finalize(m, FALSE)
       /\ slot' = IF slot[chat[m]] = m THEN [slot EXCEPT ![chat[m]] = None] ELSE slot
       /\ StartSend(m, "callError")
       /\ UNCHANGED completed
  ELSE UNCHANGED <<closeVars, typing>>

\* Fault: onCompleted does not look at `replied`.
OnCompletedAlwaysSends(c, v) ==
  LET m == slot[c] IN
  IF m = None THEN UNCHANGED <<closeVars, typing>>
  ELSE /\ completed' = completed \cup {m}
       /\ slot' = [slot EXCEPT ![c] = None]
       /\ IF v # "empty"
          THEN /\ StartSend(m, IF v = "error" THEN "runError" ELSE "reply")
               /\ UNCHANGED <<reaction, typing>>
          ELSE /\ Finalize(m, TRUE)
               /\ UNCHANGED <<text, delivery>>

\* onCompleted for a chat: v is what the last assistant message amounts to.
OnCompleted(c, v) ==
  LET m == slot[c] IN
  IF m = None THEN UNCHANGED <<closeVars, typing>>
  ELSE /\ completed' = completed \cup {m}
       /\ slot' = [slot EXCEPT ![c] = None]
       /\ IF v = "error" \/ (v = "text" /\ m \notin replied)
          THEN /\ StartSend(m, IF v = "error" THEN "runError" ELSE "reply")
               /\ UNCHANGED <<reaction, typing>>
          ELSE /\ Finalize(m, TRUE)
               /\ UNCHANGED <<text, delivery>>

----------------------------------------------------------------------------
(* InboundMessagePipeline.process.                                         *)

\* A message reaches the pipeline; process() runs up to `await expandLinks`.
Receive(m, c) ==
  /\ stage[m] = "new"
  /\ stage' = [stage EXCEPT ![m] = "expanding"]
  /\ chat' = [chat EXCEPT ![m] = c]
  /\ UNCHANGED <<on, closeVars, replied, typing, agentVars, noteVars, histVars>>

\* agent.execute up to its first real wait: getOrCreateSession has read the cache,
\* and either holds the cached object (while setModel runs) or is creating one.
BeginExecute(m) ==
  /\ stage' = [stage EXCEPT ![m] = "creating"]
  /\ on' = [on EXCEPT ![m] = cached[chat[m]]]
  /\ typing' = typing \cup {chat[m]}
  /\ UNCHANGED <<chat, agentVars, noteVars, histVars>>

\* A run is in flight for the chat: the message is steered into it.
Steer(m) ==
  /\ stage[m] = "expanding"
  /\ slot[chat[m]] # None
  /\ BeginExecute(m)
  /\ UNCHANGED <<closeVars, replied>>

\* Fault: process() does not look whether a run is in flight.
OpenUnasked(m) ==
  /\ stage[m] = "expanding"
  /\ BeginExecute(m)
  /\ slot' = [slot EXCEPT ![chat[m]] = m]
  /\ reaction' = [reaction EXCEPT ![m] = "working"]
  /\ UNCHANGED <<replied, completed, text, delivery>>

\* Nothing is in flight: the message opens the chat's PipelineSession.
Open(m) ==
  /\ stage[m] = "expanding"
  /\ slot[chat[m]] = None
  /\ BeginExecute(m)
  /\ slot' = [slot EXCEPT ![chat[m]] = m]
  /\ reaction' = [reaction EXCEPT ![m] = "working"]
  /\ UNCHANGED <<replied, completed, text, delivery>>

----------------------------------------------------------------------------
(* agent.appendMessage.                                                    *)

\* The tail of appendMessage, the session object o in hand and put in the cache.
Append(c, o) ==
  \/ /\ c \notin active                       \* not executing: flush, dispose, evict
     /\ disposed' = disposed \cup {o}
     /\ cached' = [cached EXCEPT ![c] = None]
  \/ /\ cached' = [cached EXCEPT ![c] = o]    \* executing, or no session file
     /\ UNCHANGED disposed

\* appendMessage up to its first real wait, which a cached session does not have.
BeginAppend(m, c) ==
  /\ \/ /\ cached[c] = None
        /\ stage' = [stage EXCEPT ![m] = "appending"]
        /\ UNCHANGED <<cached, disposed>>
     \/ /\ cached[c] # None
        /\ stage' = [stage EXCEPT ![m] = "done"]
        /\ Append(c, cached[c])
  /\ UNCHANGED <<on, active, run>>

\* The message is not for the agent: it only goes to the history.
Observe(m) ==
  /\ stage[m] = "expanding"
  /\ BeginAppend(m, chat[m])
  /\ UNCHANGED <<chat, closeVars, replied, typing, noteVars, histVars>>

\* A channel.send with fromSessionKey (cron, webhook, another session) is delivered.
CrossSend(m, c) ==
  /\ m \in CrossSends
  /\ stage[m] = "new"
  /\ chat' = [chat EXCEPT ![m] = c]
  /\ MarkReplied(c)
  /\ BeginAppend(m, c)
  /\ UNCHANGED <<closeVars, typing, noteVars, histVars>>

\* getOrCreateSession has built object m for an append.
AppendCreated(m) ==
  /\ stage[m] = "appending"
  /\ stage' = [stage EXCEPT ![m] = "done"]
  /\ Append(chat[m], m)
  /\ UNCHANGED <<chat, on, closeVars, replied, typing, active, run, noteVars, histVars>>

AppendFails(m) ==
  /\ stage[m] = "appending"
  /\ stage' = [stage EXCEPT ![m] = "done"]
  /\ UNCHANGED <<chat, on, closeVars, replied, typing, agentVars, noteVars, histVars>>

----------------------------------------------------------------------------
(* agent.execute.                                                          *)

\* The object the call ends up with: the cached one it was given, or a new one, m.
SessionOf(m) == IF on[m] = None THEN m ELSE on[m]

\* getOrCreateSession returns: a new object is put in the cache, over whatever is there.
CacheSession(m) ==
  /\ on' = [on EXCEPT ![m] = SessionOf(m)]
  /\ cached' = IF on[m] = None THEN [cached EXCEPT ![chat[m]] = m] ELSE cached

\* The run of object o that the prompt of m starts; a request closed before is overtaken.
Starts(m, o) == /\ run' = [run EXCEPT ![o] = m]
                /\ overtaken' = overtaken \cup ({m} \cap completed)

\* The call prompts its session: an idle one starts a run, a streaming one is steered.
Prompt(m) ==
  /\ stage[m] = "creating"
  /\ stage' = [stage EXCEPT ![m] = "prompting"]
  /\ CacheSession(m)
  /\ active' = active \cup {chat[m]}
  /\ IF run[SessionOf(m)] = None THEN Starts(m, SessionOf(m)) ELSE UNCHANGED <<run, overtaken>>
  /\ UNCHANGED <<chat, closeVars, replied, typing, disposed, noteVars, toolSent, lostEnds>>

\* getOrCreateSession rejects (or agent.execute is not registered).
CreateFails(m) ==
  /\ stage[m] = "creating"
  /\ stage' = [stage EXCEPT ![m] = "done"]
  /\ Catch(m)
  /\ UNCHANGED <<chat, on, replied, agentVars, noteVars, histVars>>

\* Fault: the key is taken out of activeRuns only after a prompt that resolved.
ClearActiveNever(m) == UNCHANGED active

\* The `finally` of execute.
ClearActive(m) == active' = active \ {chat[m]}

\* session.prompt rejects before a run starts: no event is emitted.
PromptFails(m) ==
  /\ stage[m] = "creating"
  /\ run[SessionOf(m)] = None
  /\ stage' = [stage EXCEPT ![m] = "done"]
  /\ CacheSession(m)
  /\ ClearActive(m)
  /\ Catch(m)
  /\ UNCHANGED <<chat, replied, run, disposed, noteVars, histVars>>

\* withTimeout rejects; the run goes on.
TimesOut(m) ==
  /\ stage[m] = "prompting"
  /\ stage' = [stage EXCEPT ![m] = "done"]
  /\ ClearActive(m)
  /\ Catch(m)
  /\ UNCHANGED <<chat, on, replied, cached, run, disposed, noteVars, histVars>>

\* session.prompt resolves, after the run it drove or at once when it was steered,
\* and extractFinalAssistant finds an answer, or an error (ok = FALSE) to throw.
Settles(m, ok) ==
  /\ stage[m] = "prompting"
  /\ run[on[m]] # m
  /\ stage' = [stage EXCEPT ![m] = "done"]
  /\ ClearActive(m)
  /\ IF ok THEN UNCHANGED <<closeVars, typing>> ELSE Catch(m)
  /\ UNCHANGED <<chat, on, replied, cached, run, disposed, noteVars, histVars>>

----------------------------------------------------------------------------
(* A run of AgentSession object o (Pi SDK) and what the service does with its events. *)

ToolStarts(o) ==
  /\ run[o] # None
  /\ slot[chat[o]] # None
  /\ typing' = typing \cup {chat[o]}
  /\ UNCHANGED <<callVars, closeVars, replied, agentVars, noteVars, histVars>>

\* The agent's own channel.send to its chat is delivered; the run awaits it.  The step
\* stands for the answer to its last chunk, from which markReplied follows with no wait;
\* what another run's end does to the slot between two chunks is not followed.
ToolSends(o) ==
  /\ run[o] # None
  /\ MarkReplied(chat[o])
  /\ toolSent' = toolSent \cup ({slot[chat[o]]} \ {None})
  /\ UNCHANGED <<callVars, closeVars, typing, agentVars, noteVars, lostEnds, overtaken>>

\* The end of o's run closes a request whose own run is another one.
Overtakes(o) ==
  overtaken' = (overtaken \ {run[o]})
                 \cup {m \in Msgs : slot[chat[o]] = m /\ \E p \in Msgs \ {o} : run[p] = m}

\* Fault: onCompleted is published for turn_end too, after which the run goes on.
TurnOrRunEnds(o, v) ==
  /\ run[o] # None
  /\ \/ run' = [run EXCEPT ![o] = None]
     \/ UNCHANGED run
  /\ OnCompleted(chat[o], v)
  /\ Overtakes(o)
  /\ UNCHANGED <<callVars, replied, cached, active, disposed, noteVars, toolSent, lostEnds>>

\* agent_end: v is "error", "text" or "empty", the last assistant message.
RunEnds(o, v) ==
  /\ run[o] # None
  /\ run' = [run EXCEPT ![o] = None]
  /\ OnCompleted(chat[o], v)
  /\ Overtakes(o)
  /\ UNCHANGED <<callVars, replied, cached, active, disposed, noteVars, toolSent, lostEnds>>

\* A disposed session's run ends without the listener being called.
RunEndsUnheard(o) ==
  /\ o \in disposed
  /\ run[o] # None
  /\ run' = [run EXCEPT ![o] = None]
  /\ lostEnds' = lostEnds \cup {chat[o]}
  /\ overtaken' = overtaken \ {run[o]}
  /\ UNCHANGED <<callVars, closeVars, replied, typing, cached, active, disposed, noteVars, toolSent>>

\* compaction_start, during a run or after it: a notice goes to the chat, not awaited.
CompactionStarts(o) ==
  /\ \E m \in Msgs : on[m] = o /\ stage[m] \in {"prompting", "done"}
  /\ o \notin compacting
  /\ compactions < MaxCompactions
  /\ compactions' = compactions + 1
  /\ compacting' = compacting \cup {o}
  /\ notices' = [notices EXCEPT ![chat[o]] = @ + 1]
  /\ UNCHANGED <<callVars, closeVars, replied, typing, agentVars, histVars>>

\* compaction_end: unless it was aborted, the follow-up prompt joins the run in
\* flight, or starts one when the session has gone idle meanwhile.
CompactionEnds(o, aborted) ==
  /\ o \in compacting
  /\ compacting' = compacting \ {o}
  /\ run' = IF run[o] = None /\ ~aborted THEN [run EXCEPT ![o] = Nudge] ELSE run
  /\ UNCHANGED <<callVars, closeVars, replied, typing, cached, active, disposed,
                 notices, compactions, histVars>>

----------------------------------------------------------------------------
(* channel.send and the transport.                                         *)

\* deliverReply of m's closing text succeeds and channel.send marks the chat replied.
Delivered(m) ==
  /\ delivery[m] = "sending"
  /\ delivery' = [delivery EXCEPT ![m] = IF text[m] = "callError" THEN "over" ELSE "media"]
  /\ MarkReplied(chat[m])
  /\ UNCHANGED <<callVars, slot, completed, reaction, text, typing, agentVars, noteVars, histVars>>

\* Fault: finalize hangs on the send's success (.then) and not on its end (.finally).
SendSettlesUnsealed(m) ==
  /\ \/ delivery[m] = "sending"
     \/ delivery[m] = "media"
  /\ delivery' = [delivery EXCEPT ![m] = "over"]
  /\ IF text[m] = "callError" \/ delivery[m] = "sending"
     THEN UNCHANGED <<reaction, typing>>
     ELSE Finalize(m, text[m] = "reply")
  /\ UNCHANGED <<callVars, slot, replied, completed, text, agentVars, noteVars, histVars>>

\* The send settles: after its media files, or because deliverReply gave up.
SendSettles(m) ==
  /\ \/ delivery[m] = "sending"
     \/ delivery[m] = "media"
  /\ delivery' = [delivery EXCEPT ![m] = "over"]
  /\ IF text[m] = "callError" THEN UNCHANGED <<reaction, typing>>
                              ELSE Finalize(m, text[m] = "reply")
  /\ UNCHANGED <<callVars, slot, replied, completed, text, agentVars, noteVars, histVars>>

\* Fault: a notice that never left is counted as settled.
NoticeSettlesUnguarded(c, sent) ==
  /\ notices' = [notices EXCEPT ![c] = @ - 1]
  /\ IF sent THEN MarkReplied(c) ELSE UNCHANGED replied
  /\ UNCHANGED <<callVars, closeVars, typing, agentVars, compacting, compactions, histVars>>

\* A compaction notice is delivered, or deliverReply gives up on it.
NoticeSettles(c, sent) ==
  /\ notices[c] > 0
  /\ notices' = [notices EXCEPT ![c] = @ - 1]
  /\ IF sent THEN MarkReplied(c) ELSE UNCHANGED replied
  /\ UNCHANGED <<callVars, closeVars, typing, agentVars, compacting, compactions, histVars>>

\* The indicator's TTL runs out, or the platform refuses it three times.
TypingLapses(c) ==
  /\ c \in typing
  /\ typing' = typing \ {c}
  /\ UNCHANGED <<callVars, closeVars, replied, agentVars, noteVars, histVars>>

----------------------------------------------------------------------------
CallStep(m) == \/ \E c \in Chats : Receive(m, c) \/ CrossSend(m, c)
               \/ Steer(m) \/ Open(m) \/ Observe(m)
               \/ AppendCreated(m) \/ AppendFails(m)
               \/ Prompt(m) \/ CreateFails(m) \/ PromptFails(m) \/ TimesOut(m)
               \/ \E ok \in BOOLEAN : Settles(m, ok)
               \/ Delivered(m) \/ SendSettles(m)

RunStep(o) == \/ ToolStarts(o) \/ ToolSends(o)
              \/ \E v \in {"error", "text", "empty"} : RunEnds(o, v)
              \/ RunEndsUnheard(o)
              \/ CompactionStarts(o)
              \/ \E aborted \in BOOLEAN : CompactionEnds(o, aborted)

ChatStep(c) == \/ \E sent \in BOOLEAN : NoticeSettles(c, sent)
               \/ TypingLapses(c)

Next == \/ \E m \in Msgs : CallStep(m) \/ RunStep(m)
        \/ \E c \in Chats : ChatStep(c)

Spec == Init /\ [][Next]_vars

\* What the event loop owes: an awaited link fetch, session creation, prompt and send
\* settle (each has a timeout or a retry limit), and the Pi SDK ends every run.
Fairness ==
  /\ \A m \in Msgs : /\ WF_vars(Steer(m) \/ Open(m) \/ Observe(m))
                     /\ WF_vars(Prompt(m) \/ CreateFails(m) \/ PromptFails(m))
                     /\ WF_vars(TimesOut(m) \/ \E ok \in BOOLEAN : Settles(m, ok))
                     /\ WF_vars(Delivered(m) \/ SendSettles(m))
                     /\ WF_vars(RunEndsUnheard(m)
                                  \/ \E v \in {"error", "text", "empty"} : RunEnds(m, v))

FairSpec == Spec /\ Fairness

----------------------------------------------------------------------------
(* Properties.                                                             *)

\* A chat whose slot is taken has something under way that will free it: the call
\* of the message that took it, or a run of the chat - unless a run of the chat
\* ended without the pipeline being told (pipeline.ts: onCompleted and the catch in
\* process() are the only two ways out of a slot).
SlotBacked ==
  \A c \in Chats : slot[c] # None =>
    \/ stage[slot[c]] \in {"creating", "prompting"}
    \/ \E o \in Msgs : chat[o] = c /\ run[o] # None
    \/ c \in lostEnds

\* agent.status never shows a chat as running when no prompt of it is awaited: each
\* way out of execute takes the key out of activeRuns.
ActiveBacked ==
  \A c \in active : \E m \in Msgs : chat[m] = c /\ stage[m] = "prompting"

\* A typing indicator that is on has an owner that will turn it off: the chat's open
\* PipelineSession, or a closed one whose text is still being sent.
TypingOwned ==
  \A c \in typing : \/ slot[c] # None
                    \/ \E m \in Msgs : /\ chat[m] = c
                                       /\ delivery[m] \in {"sending", "media"}
                                       /\ text[m] # "callError"

\* The run that input m's own prompt started is going on.
Driving(m) == \E o \in Msgs : run[o] = m

\* A message shows its final mark only when its slot is given up, and the mark says how
\* it was closed: an error if the run failed or execute rejected, done otherwise.  The
\* run its own prompt started may go on behind the mark in two cases only: execute
\* rejected - withTimeout gave up, the mark is an error, and the run's answer will go to
\* whoever then holds the slot - or another run of the chat ended in its place, since
\* onCompleted names the chat and not the request.
SealedAfterClose ==
  \A m \in Msgs : Sealed(m) =>
    /\ slot[chat[m]] # m
    /\ reaction[m] = (IF text[m] \in {"runError", "callError"} THEN "error" ELSE "done")
    /\ Driving(m) => text[m] = "callError" \/ m \in overtaken

\* When the agent itself delivered a text to the chat during the request, onCompleted
\* does not send the final answer on top of it.
NoDoubleReply == \A m \in toolSent : text[m] # "reply"

(* The inductive invariant behind the safety properties.                   *)

\* Where a message stands between process() and its final mark; the flags of its
\* PipelineSession, the map and the send always agree on it.
Idle(m) == /\ reaction[m] = "none" /\ m \notin completed
           /\ text[m] = "none" /\ delivery[m] = "none"
InFlight(m) == /\ reaction[m] = "working" /\ m \notin completed
               /\ text[m] = "none" /\ delivery[m] = "none"
               /\ slot[chat[m]] = m
Answering(m) == /\ reaction[m] = "working" /\ m \in completed
                /\ text[m] \in {"reply", "runError"} /\ delivery[m] \in {"sending", "media"}
Answered(m) == /\ reaction[m] = (IF text[m] = "reply" THEN "done" ELSE "error") /\ m \in completed
               /\ text[m] \in {"reply", "runError"} /\ delivery[m] = "over"
Silent(m) == /\ reaction[m] = "done" /\ m \in completed
             /\ text[m] = "none" /\ delivery[m] = "none"
Failed(m) == /\ reaction[m] = "error" /\ m \notin completed
             /\ text[m] = "callError" /\ delivery[m] \in {"sending", "over"}
             /\ stage[m] = "done"

Lifecycle(m) == \/ Idle(m) \/ InFlight(m) \/ Answering(m)
                \/ Answered(m) \/ Silent(m) \/ Failed(m)

\* A call knows its chat from the moment it exists.
Received == \A m \in Msgs :
  /\ stage[m] = "new" <=> chat[m] = None
  /\ delivery[m] # "none" => chat[m] \in Chats

\* PipelineSessions and AgentSession objects stay within the chat they were made for.
Belonging ==
  /\ \A c \in Chats : slot[c] # None => chat[slot[c]] = c
  /\ \A m \in Msgs : on[m] # None => chat[m] \in Chats /\ chat[on[m]] = chat[m]
  /\ \A c \in Chats : cached[c] # None => chat[cached[c]] = c
  /\ \A o \in Msgs : run[o] # None \/ o \in compacting => chat[o] \in Chats

\* The map holds exactly the sessions in flight, and an opened message is past Open.
SlotsInv == /\ \A m \in Msgs : Lifecycle(m)
            /\ \A c \in Chats : slot[c] # None => InFlight(slot[c])
            /\ \A m \in Msgs : Opened(m) => /\ chat[m] \in Chats
                                            /\ stage[m] \in {"creating", "prompting", "done"}

\* The run a slot's owner prompted or joined is still there unless a run of the chat
\* ended unheard.
RunsInv ==
  /\ \A m \in Msgs : stage[m] = "prompting" => on[m] # None
  /\ \A c \in Chats : slot[c] # None /\ stage[slot[c]] = "prompting" =>
       run[on[slot[c]]] # None \/ c \in lostEnds

\* A call that has not prompted yet drives no run, one that has drives a run of the object
\* it was given, and a request closed by onCompleted drives none unless it was overtaken.
DrivesInv ==
  \A m \in Msgs :
    /\ \A o \in Msgs : run[o] = m => o = on[m] /\ stage[m] \in {"prompting", "done"}
    /\ m \in completed \ overtaken => ~Driving(m)

ToolSentInv == \A m \in toolSent : m \in replied /\ Opened(m) /\ text[m] # "reply"

IInv == /\ TypeOK
        /\ Received
        /\ Belonging
        /\ SlotsInv
        /\ RunsInv
        /\ SlotBacked
        /\ ActiveBacked
        /\ TypingOwned
        /\ ToolSentInv
        /\ DrivesInv

----------------------------------------------------------------------------
\* Every message that opened a PipelineSession gets its final mark, and with it the
\* slot and the typing indicator back, unless a run of the chat ended unheard.
EveryRequestSealed ==
  \A m \in Msgs : reaction[m] = "working" ~> (Sealed(m) \/ chat[m] \in lostEnds)

\* pipeline.ts:32 - PipelineSession.replied is true only if the agent called channel.send.
RepliedMeansToolSent == replied \subseteq toolSent

\* pipeline.ts:97-100 - a message that finds a run in flight is steered into the active
\* session: a chat never has two runs.
OneRunPerChat ==
  \A o, p \in Msgs : run[o] # None /\ run[p] # None /\ chat[o] = chat[p] => o = p

----------------------------------------------------------------------------
(* Refinement of the contract with the user.                               *)

Phase(m) == IF ~Opened(m) THEN "idle"
            ELSE IF slot[chat[m]] = m THEN "open"
            ELSE IF Sealed(m) THEN reaction[m]
            ELSE "closing"

Contract == INSTANCE ReplyContract WITH phase <- [m \in Msgs |-> Phase(m)]

\* The pipeline keeps the contract whatever the agent and the transport do.
KeepsContract == Contract!Spec
=============================================================================
