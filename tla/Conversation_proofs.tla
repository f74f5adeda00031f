------------------------ MODULE Conversation_proofs ------------------------
(***************************************************************************)
(* Proofs about Conversation, for any sets of chats and inputs and any     *)
(* bound on compactions: the inductive invariant IInv, the safety          *)
(* invariants the runs check, and the refinement of ReplyContract.         *)
(***************************************************************************)
EXTENDS Conversation, TLAPS

USE ConversationAssumption DEF callVars, closeVars, agentVars, noteVars, histVars

\* The part of the invariant that says where values come from.
Typed == TypeOK /\ Received /\ Belonging

\* The program starts typed: nothing received, cached, prompted or sent.
LEMMA TypeInit == Init => Typed
  BY DEF Init, Typed, TypeOK, Stages, Received, Belonging

\* No call, run event or send puts a value of another kind into the state.
LEMMA TypeStep == Typed /\ [Next]_vars => TypeOK'
<1> SUFFICES ASSUME TypeOK, Received, Belonging, [Next]_vars PROVE TypeOK'
  BY DEF Typed
<1> USE DEF TypeOK, Stages
<1>0. /\ \A m \in Msgs : stage[m] # "new" \/ delivery[m] # "none" => chat[m] \in Chats
      /\ \A o \in Msgs : run[o] # None \/ o \in compacting => chat[o] \in Chats
  BY DEF Received, Belonging
<1>1. ASSUME NEW m \in Msgs, NEW c \in Chats, Receive(m, c) PROVE TypeOK'
  BY <1>1 DEF Receive
<1>2. ASSUME NEW m \in Msgs, NEW c \in Chats, CrossSend(m, c) PROVE TypeOK'
  BY <1>2 DEF CrossSend, MarkReplied, BeginAppend, Append
<1>3. ASSUME NEW m \in Msgs, Steer(m) PROVE TypeOK'
  BY <1>0, <1>3 DEF Steer, BeginExecute
<1>4. ASSUME NEW m \in Msgs, Open(m) PROVE TypeOK'
  BY <1>0, <1>4 DEF Open, BeginExecute
<1>5. ASSUME NEW m \in Msgs, Observe(m) PROVE TypeOK'
  BY <1>0, <1>5 DEF Observe, BeginAppend, Append
<1>6. ASSUME NEW m \in Msgs, AppendCreated(m) PROVE TypeOK'
  BY <1>6 DEF AppendCreated, Append
<1>7. ASSUME NEW m \in Msgs, AppendFails(m) PROVE TypeOK'
  BY <1>7 DEF AppendFails
<1>8. ASSUME NEW m \in Msgs, Prompt(m) PROVE TypeOK'
  <2>1. SessionOf(m) \in Msgs
    BY <1>8 DEF SessionOf
  <2>2. QED
    BY <1>0, <1>8, <2>1 DEF Prompt, CacheSession, Starts
<1>9. ASSUME NEW m \in Msgs, CreateFails(m) PROVE TypeOK'
  BY <1>9 DEF CreateFails, Catch, Finalize, StartSend
<1>10. ASSUME NEW m \in Msgs, PromptFails(m) PROVE TypeOK'
  BY <1>10 DEF PromptFails, CacheSession, SessionOf, ClearActive, Catch, Finalize, StartSend
<1>11. ASSUME NEW m \in Msgs, TimesOut(m) PROVE TypeOK'
  BY <1>11 DEF TimesOut, ClearActive, Catch, Finalize, StartSend
<1>12. ASSUME NEW m \in Msgs, NEW ok \in BOOLEAN, Settles(m, ok) PROVE TypeOK'
  <2>1. CASE ok
    BY <1>12, <2>1 DEF Settles, ClearActive
  <2>2. CASE ~ok
    BY <1>12, <2>2 DEF Settles, ClearActive, Catch, Finalize, StartSend
  <2>3. QED
    BY <2>1, <2>2
<1>13. ASSUME NEW m \in Msgs, Delivered(m) PROVE TypeOK'
  <2>0. replied' \subseteq Msgs
    BY <1>0, <1>13 DEF Delivered, MarkReplied
  <2>1. delivery' \in [Msgs -> {"none", "sending", "media", "over"}]
    BY <1>0, <1>13 DEF Delivered
  <2>2. UNCHANGED <<callVars, slot, completed, reaction, text, typing, agentVars, noteVars, histVars>>
    BY <1>0, <1>13 DEF Delivered
  <2>3. QED
    BY <2>0, <2>1, <2>2
<1>14. ASSUME NEW m \in Msgs, SendSettles(m) PROVE TypeOK'
  BY <1>14 DEF SendSettles, Finalize
<1>15. ASSUME NEW o \in Msgs, ToolStarts(o) PROVE TypeOK'
  BY <1>0, <1>15 DEF ToolStarts
<1>16. ASSUME NEW o \in Msgs, ToolSends(o) PROVE TypeOK'
  BY <1>0, <1>16 DEF ToolSends, MarkReplied
<1>17. ASSUME NEW o \in Msgs, NEW v \in {"error", "text", "empty"}, RunEnds(o, v) PROVE TypeOK'
  <2>1. chat[o] \in Chats
    BY <1>0, <1>17 DEF RunEnds
  <2>2. /\ UNCHANGED <<callVars, replied, cached, active, disposed, noteVars, toolSent, lostEnds>>
        /\ run' = [run EXCEPT ![o] = None]
        /\ overtaken' \subseteq Msgs
    BY <1>0, <1>17 DEF RunEnds, Overtakes
  <2>3. OnCompleted(chat[o], v)
    BY <1>0, <1>17 DEF RunEnds
  <2>4. /\ slot' \in [Chats -> Msgs \cup {None}]
        /\ completed' \subseteq Msgs
        /\ typing' \subseteq Chats
    BY <2>1, <2>3 DEF OnCompleted, Finalize
  <2>5. /\ reaction' \in [Msgs -> {"none", "working", "done", "error"}]
        /\ text' \in [Msgs -> {"none", "reply", "runError", "callError"}]
        /\ delivery' \in [Msgs -> {"none", "sending", "media", "over"}]
    BY <2>1, <2>3 DEF OnCompleted, Finalize, StartSend
  <2>6. QED
    BY <2>2, <2>4, <2>5
<1>18. ASSUME NEW o \in Msgs, RunEndsUnheard(o) PROVE TypeOK'
  BY <1>0, <1>18 DEF RunEndsUnheard
<1>19. ASSUME NEW o \in Msgs, CompactionStarts(o) PROVE TypeOK'
  <2>1. chat[o] \in Chats
    BY <1>19 DEF CompactionStarts, Belonging
  <2>2. QED
    BY <1>19, <2>1 DEF CompactionStarts
<1>20. ASSUME NEW o \in Msgs, NEW aborted \in BOOLEAN, CompactionEnds(o, aborted) PROVE TypeOK'
  BY <1>20 DEF CompactionEnds
<1>21. ASSUME NEW c \in Chats, NEW sent \in BOOLEAN, NoticeSettles(c, sent) PROVE TypeOK'
  <2>1. notices[c] \in Nat /\ notices[c] - 1 \in Nat
    BY <1>21 DEF NoticeSettles
  <2>2. notices' \in [Chats -> Nat]
    BY <1>21, <2>1 DEF NoticeSettles
  <2>3. replied' \subseteq Msgs
    BY <1>21 DEF NoticeSettles, MarkReplied
  <2>4. UNCHANGED <<callVars, closeVars, typing, agentVars, compacting, compactions, histVars>>
    BY <1>21 DEF NoticeSettles
  <2>5. QED
    BY <2>2, <2>3, <2>4
<1>22. ASSUME NEW c \in Chats, TypingLapses(c) PROVE TypeOK'
  BY <1>22 DEF TypingLapses
<1>23. ASSUME UNCHANGED vars PROVE TypeOK'
  BY <1>23 DEF vars
<1> HIDE DEF TypeOK, Stages
<1>24. ASSUME NEW m \in Msgs, CallStep(m) PROVE TypeOK'
  BY <1>24, <1>1, <1>2, <1>3, <1>4, <1>5, <1>6, <1>7, <1>8, <1>9, <1>10, <1>11, <1>12, <1>13,
     <1>14, Zenon DEF CallStep
<1>25. ASSUME NEW o \in Msgs, RunStep(o) PROVE TypeOK'
  BY <1>25, <1>15, <1>16, <1>17, <1>18, <1>19, <1>20, Zenon DEF RunStep
<1>26. ASSUME NEW c \in Chats, ChatStep(c) PROVE TypeOK'
  BY <1>26, <1>21, <1>22, Zenon DEF ChatStep
<1>27. QED
  BY <1>23, <1>24, <1>25, <1>26, Zenon DEF Next

----------------------------------------------------------------------------
(* Received and Belonging.                                                 *)

\* A call has its chat once it is past "new".
LEMMA CallChat == ASSUME Typed, NEW m \in Msgs, stage[m] # "new" PROVE chat[m] \in Chats
  BY DEF Typed, TypeOK, Received

\* No step runs or sends for a message whose session key is not known yet.
LEMMA ReceivedStep == Typed /\ [Next]_vars => Received'
<1> SUFFICES ASSUME Typed, [Next]_vars PROVE Received'
  OBVIOUS
<1> USE DEF TypeOK, Received, Stages
<1>1. ASSUME NEW m \in Msgs, NEW c \in Chats, Receive(m, c) \/ CrossSend(m, c) PROVE Received'
  BY <1>1 DEF Typed, Receive, CrossSend, BeginAppend
<1>2. ASSUME NEW m \in Msgs, Steer(m) \/ Open(m) \/ Observe(m) PROVE Received'
  BY <1>2 DEF Typed, Steer, Open, Observe, BeginExecute, BeginAppend
<1>3. ASSUME NEW m \in Msgs, AppendCreated(m) \/ AppendFails(m) \/ Prompt(m) PROVE Received'
  BY <1>3 DEF Typed, AppendCreated, AppendFails, Prompt
<1>4. ASSUME NEW m \in Msgs, stage[m] \in {"creating", "prompting"}, UNCHANGED chat,
             stage' = [stage EXCEPT ![m] = "done"], UNCHANGED delivery \/ Catch(m)
      PROVE  Received'
  <2>1. chat[m] \in Chats
    BY <1>4, CallChat
  <2>2. UNCHANGED delivery \/ delivery' = [delivery EXCEPT ![m] = "sending"]
    BY <1>4 DEF Catch, StartSend
  <2>3. QED
    BY <1>4, <2>1, <2>2 DEF Typed
<1>5. ASSUME NEW m \in Msgs, CreateFails(m) \/ PromptFails(m) \/ TimesOut(m) PROVE Received'
  BY <1>4, <1>5 DEF CreateFails, PromptFails, TimesOut
<1>6. ASSUME NEW m \in Msgs, NEW ok \in BOOLEAN, Settles(m, ok) PROVE Received'
  BY <1>4, <1>6 DEF Settles
<1>7. ASSUME NEW m \in Msgs, Delivered(m) \/ SendSettles(m) PROVE Received'
  BY <1>7 DEF Typed, Delivered, SendSettles
<1>8. ASSUME NEW o \in Msgs, NEW v \in {"error", "text", "empty"}, RunEnds(o, v) PROVE Received'
  <2>1. chat[o] \in Chats /\ UNCHANGED <<chat, stage>> /\ OnCompleted(chat[o], v)
    BY <1>8 DEF Typed, Belonging, RunEnds
  <2>2. CASE slot[chat[o]] = None
    BY <2>1, <2>2 DEF Typed, OnCompleted
  <2>3. CASE slot[chat[o]] # None
    <3>1. slot[chat[o]] \in Msgs /\ chat[slot[chat[o]]] \in Chats
      BY <2>1, <2>3 DEF Typed, Belonging
    <3>2. UNCHANGED delivery \/ delivery' = [delivery EXCEPT ![slot[chat[o]]] = "sending"]
      BY <2>1, <2>3 DEF OnCompleted, StartSend
    <3>3. QED
      BY <2>1, <3>1, <3>2 DEF Typed
  <2>4. QED
    BY <2>2, <2>3
<1>9. ASSUME UNCHANGED <<chat, stage, delivery>> PROVE Received'
  BY <1>9 DEF Typed
<1>10. ASSUME NEW o \in Msgs, ToolStarts(o) \/ ToolSends(o) \/ RunEndsUnheard(o) \/ CompactionStarts(o)
       PROVE  Received'
  BY <1>9, <1>10 DEF ToolStarts, ToolSends, RunEndsUnheard, CompactionStarts
<1>11. ASSUME NEW o \in Msgs, NEW aborted \in BOOLEAN, CompactionEnds(o, aborted) PROVE Received'
  BY <1>9, <1>11 DEF CompactionEnds
<1>12. ASSUME NEW c \in Chats, ChatStep(c) PROVE Received'
  BY <1>9, <1>12 DEF ChatStep, NoticeSettles, TypingLapses
<1> HIDE DEF TypeOK, Received, Stages
<1>13. ASSUME NEW m \in Msgs, CallStep(m) PROVE Received'
  BY <1>13, <1>1, <1>2, <1>3, <1>5, <1>6, <1>7, Zenon DEF CallStep
<1>14. ASSUME NEW o \in Msgs, RunStep(o) PROVE Received'
  BY <1>14, <1>8, <1>10, <1>11, Zenon DEF RunStep
<1>15. CASE UNCHANGED vars
  BY <1>9, <1>15 DEF vars
<1>16. QED
  BY <1>12, <1>13, <1>14, <1>15, Zenon DEF Next

\* The maps keyed by session key are only ever given objects made for that key.
LEMMA BelongingStep == Typed /\ [Next]_vars => Belonging'
<1> SUFFICES ASSUME Typed, [Next]_vars PROVE Belonging'
  OBVIOUS
<1> USE DEF TypeOK, Belonging
<1>1. ASSUME NEW m \in Msgs, NEW c \in Chats, Receive(m, c) PROVE Belonging'
  <2>1. chat[m] = None /\ on[m] = None /\ \A n \in Msgs : on[n] # m
    BY <1>1 DEF Typed, Received, Receive
  <2>2. \A d \in Chats : slot[d] # m /\ cached[d] # m
    BY <2>1 DEF Typed
  <2>3. QED
    BY <1>1, <2>1, <2>2 DEF Typed, Receive
<1>2. ASSUME NEW m \in Msgs, NEW c \in Chats, CrossSend(m, c) PROVE Belonging'
  <2>1. chat[m] = None /\ on[m] = None /\ \A n \in Msgs : on[n] # m
    BY <1>2 DEF Typed, Received, CrossSend
  <2>2. \A d \in Chats : slot[d] # m /\ cached[d] # m
    BY <2>1 DEF Typed
  <2>3. /\ chat' = [chat EXCEPT ![m] = c]
        /\ UNCHANGED <<on, slot, run, compacting>>
        /\ UNCHANGED cached \/ cached' = [cached EXCEPT ![c] = None]
              \/ cached' = [cached EXCEPT ![c] = cached[c]]
    BY <1>2 DEF CrossSend, BeginAppend, Append
  <2>4. QED
    BY <2>1, <2>2, <2>3 DEF Typed
<1>3. ASSUME NEW m \in Msgs, Steer(m) \/ Open(m) PROVE Belonging'
  <2>1. chat[m] \in Chats
    BY <1>3, CallChat DEF Steer, Open
  <2>2. QED
    BY <1>3, <2>1 DEF Typed, Steer, Open, BeginExecute
<1>4. ASSUME NEW m \in Msgs, Observe(m) \/ AppendCreated(m) \/ AppendFails(m) PROVE Belonging'
  <2>1. chat[m] \in Chats
    BY <1>4, CallChat DEF Observe, AppendCreated, AppendFails
  <2>2. /\ UNCHANGED <<chat, on, slot, run, compacting>>
        /\ UNCHANGED cached \/ cached' = [cached EXCEPT ![chat[m]] = None]
              \/ cached' = [cached EXCEPT ![chat[m]] = cached[chat[m]]]
              \/ cached' = [cached EXCEPT ![chat[m]] = m]
    BY <1>4 DEF Observe, AppendCreated, AppendFails, BeginAppend, Append
  <2>3. QED
    BY <2>1, <2>2 DEF Typed
<1>5. ASSUME NEW m \in Msgs, Prompt(m) \/ PromptFails(m)
      PROVE  /\ chat[m] \in Chats
             /\ SessionOf(m) \in Msgs /\ chat[SessionOf(m)] = chat[m]
             /\ \A n \in Msgs : on'[n] # None => chat[n] \in Chats /\ chat[on'[n]] = chat[n]
             /\ \A c \in Chats : cached'[c] # None => chat[cached'[c]] = c
  <2>1. chat[m] \in Chats
    BY <1>5, CallChat DEF Prompt, PromptFails
  <2>2. SessionOf(m) \in Msgs /\ chat[SessionOf(m)] = chat[m]
    BY <2>1 DEF Typed, SessionOf
  <2>3. CacheSession(m)
    BY <1>5 DEF Prompt, PromptFails
  <2>4. QED
    BY <2>1, <2>2, <2>3 DEF Typed, CacheSession
<1>6. ASSUME NEW m \in Msgs, Prompt(m) PROVE Belonging'
  <2>1. UNCHANGED <<chat, slot, compacting>>
    BY <1>6 DEF Prompt
  <2>2. \A o \in Msgs : run'[o] # None => run[o] # None \/ o = SessionOf(m)
    BY <1>6 DEF Prompt, Starts, Typed
  <2>3. QED
    BY <1>5, <1>6, <2>1, <2>2 DEF Typed
<1>7. ASSUME NEW m \in Msgs, stage[m] \in {"creating", "prompting"}, UNCHANGED slot \/ Catch(m),
             UNCHANGED <<chat, run, compacting>>
      PROVE  \A c \in Chats : slot'[c] # None => chat'[slot'[c]] = c
  <2>1. UNCHANGED slot \/ slot' = [slot EXCEPT ![chat[m]] = None]
    BY <1>7 DEF Catch
  <2>2. QED
    BY <1>7, <2>1, CallChat DEF Typed
<1>8. ASSUME NEW m \in Msgs, CreateFails(m) \/ TimesOut(m) \/ \E ok \in BOOLEAN : Settles(m, ok)
      PROVE  Belonging'
  <2>1. /\ stage[m] \in {"creating", "prompting"}
        /\ UNCHANGED slot \/ Catch(m)
        /\ UNCHANGED <<chat, on, cached, run, compacting>>
    BY <1>8 DEF CreateFails, TimesOut, Settles
  <2>2. QED
    BY <1>7, <2>1 DEF Typed
<1>9. ASSUME NEW m \in Msgs, PromptFails(m) PROVE Belonging'
  <2>1. stage[m] = "creating" /\ Catch(m) /\ UNCHANGED <<chat, run, compacting>>
    BY <1>9 DEF PromptFails
  <2>2. QED
    BY <1>5, <1>7, <1>9, <2>1 DEF Typed
<1>10. ASSUME NEW o \in Msgs, NEW v \in {"error", "text", "empty"}, RunEnds(o, v) PROVE Belonging'
  <2>1. /\ chat[o] \in Chats
        /\ UNCHANGED <<chat, on, cached, compacting>>
        /\ run' = [run EXCEPT ![o] = None]
        /\ UNCHANGED slot \/ slot' = [slot EXCEPT ![chat[o]] = None]
    BY <1>10 DEF Typed, RunEnds, OnCompleted
  <2>2. QED
    BY <2>1 DEF Typed
<1>11. ASSUME UNCHANGED <<chat, on, slot, cached, run, compacting>> PROVE Belonging'
  BY <1>11 DEF Typed
<1>12. ASSUME NEW m \in Msgs, Delivered(m) \/ SendSettles(m) \/ ToolStarts(m) \/ ToolSends(m)
       PROVE  Belonging'
  BY <1>11, <1>12 DEF Delivered, SendSettles, ToolStarts, ToolSends
<1>13. ASSUME NEW o \in Msgs, RunEndsUnheard(o) \/ CompactionStarts(o) PROVE Belonging'
  BY <1>13 DEF Typed, RunEndsUnheard, CompactionStarts
<1>14. ASSUME NEW o \in Msgs, NEW aborted \in BOOLEAN, CompactionEnds(o, aborted) PROVE Belonging'
  BY <1>14 DEF Typed, CompactionEnds
<1>15. ASSUME NEW c \in Chats, ChatStep(c) PROVE Belonging'
  BY <1>11, <1>15 DEF ChatStep, NoticeSettles, TypingLapses
<1> HIDE DEF TypeOK, Belonging
<1>16. ASSUME NEW m \in Msgs, CallStep(m) PROVE Belonging'
  BY <1>16, <1>1, <1>2, <1>3, <1>4, <1>6, <1>8, <1>9, <1>12, Zenon DEF CallStep
<1>17. ASSUME NEW o \in Msgs, RunStep(o) PROVE Belonging'
  BY <1>17, <1>10, <1>12, <1>13, <1>14, Zenon DEF RunStep
<1>18. CASE UNCHANGED vars
  BY <1>11, <1>18 DEF vars
<1>19. QED
  BY <1>15, <1>16, <1>17, <1>18, Zenon DEF Next

\* At all times the state is typed and every object in a map belongs to the map's key.
THEOREM TypedCorrect == Spec => []Typed
<1>1. Typed /\ [Next]_vars => Typed'
  BY TypeStep, ReceivedStep, BelongingStep DEF Typed
<1>2. QED
  BY TypeInit, <1>1, PTL DEF Spec

----------------------------------------------------------------------------
(* What a step does to the close of a request: it is one of seven kinds.   *)

Busy == {"creating", "prompting", "done"}

Arrives(m, c) == /\ stage[m] = "new" /\ chat' = [chat EXCEPT ![m] = c]
                 /\ UNCHANGED <<closeVars, typing>>

Opens(m) == /\ stage[m] = "expanding" /\ stage'[m] = "creating"
            /\ chat[m] \in Chats /\ slot[chat[m]] = None
            /\ slot' = [slot EXCEPT ![chat[m]] = m]
            /\ reaction' = [reaction EXCEPT ![m] = "working"]
            /\ typing' = typing \cup {chat[m]}
            /\ UNCHANGED <<chat, completed, text, delivery>>

\* The slot of m is given up.
Leaves(m) == /\ InFlight(m) /\ chat[m] \in Chats
             /\ slot' = [slot EXCEPT ![chat[m]] = None]
             /\ UNCHANGED chat

ClosesFailed(m) == /\ Leaves(m) /\ stage'[m] = "done"
                   /\ reaction' = [reaction EXCEPT ![m] = "error"]
                   /\ StartSend(m, "callError")
                   /\ typing' = typing \ {chat[m]}
                   /\ UNCHANGED completed

ClosesWith(m, t) == /\ Leaves(m)
                    /\ t = "reply" => m \notin replied
                    /\ completed' = completed \cup {m}
                    /\ StartSend(m, t)
                    /\ UNCHANGED <<reaction, typing>>

ClosesSilently(m) == /\ Leaves(m)
                     /\ completed' = completed \cup {m}
                     /\ reaction' = [reaction EXCEPT ![m] = "done"]
                     /\ typing' = typing \ {chat[m]}
                     /\ UNCHANGED <<text, delivery>>

\* The closing text moves on, its slot given up long ago.
Moves(m) == /\ delivery[m] \in {"sending", "media"}
            /\ delivery' = [delivery EXCEPT ![m] = IF text[m] = "callError" THEN "over" ELSE "media"]
            /\ UNCHANGED <<chat, slot, completed, reaction, text, typing>>

Seals(m) == /\ Answering(m)
            /\ delivery' = [delivery EXCEPT ![m] = "over"]
            /\ reaction' = [reaction EXCEPT ![m] = IF text[m] = "reply" THEN "done" ELSE "error"]
            /\ typing' = typing \ {chat[m]}
            /\ UNCHANGED <<chat, slot, completed, text>>

Quiet == /\ UNCHANGED <<chat, closeVars>>
         /\ \A c \in typing' : c \in typing \/ slot[c] # None

Kinds == \/ \E m \in Msgs, c \in Chats : Arrives(m, c)
         \/ \E m \in Msgs : \/ Opens(m) \/ ClosesFailed(m) \/ ClosesSilently(m)
                            \/ \E t \in {"reply", "runError"} : ClosesWith(m, t)
                            \/ Moves(m) \/ Seals(m)
         \/ Quiet

\* A call that ends in the catch of process() closes its request as failed, or says nothing.
LEMMA CatchKind ==
  ASSUME Typed, SlotsInv, NEW m \in Msgs, stage[m] \in {"creating", "prompting"},
         stage'[m] = "done", UNCHANGED chat, Catch(m)
  PROVE  Kinds
<1>1. CASE Opened(m) /\ m \notin completed
  <2>1. InFlight(m) /\ chat[m] \in Chats
    BY <1>1, CallChat DEF SlotsInv, Lifecycle, Idle, InFlight, Answering, Answered, Silent, Failed, Opened
  <2>2. ~Sealed(m)
    BY <2>1 DEF InFlight, Sealed
  <2>3. ClosesFailed(m)
    BY <1>1, <2>1, <2>2 DEF Catch, Finalize, ClosesFailed, Leaves, InFlight
  <2>4. QED
    BY <2>3 DEF Kinds
<1>2. CASE ~(Opened(m) /\ m \notin completed)
  BY <1>2 DEF Catch, Kinds, Quiet
<1>3. QED
  BY <1>1, <1>2

\* agent_end closes the request in the slot, silently or with a text, or says nothing.
LEMMA RunEndsKind ==
  ASSUME Typed, SlotsInv, NEW o \in Msgs, NEW v \in {"error", "text", "empty"}, RunEnds(o, v)
  PROVE  Kinds
<1> DEFINE c == chat[o]
           m == slot[c]
<1>1. c \in Chats /\ OnCompleted(c, v) /\ UNCHANGED chat
  BY DEF RunEnds, Typed, Belonging
<1>2. CASE m = None
  BY <1>1, <1>2 DEF OnCompleted, Kinds, Quiet
<1>3. CASE m # None
  <2>1. m \in Msgs /\ chat[m] = c /\ InFlight(m) /\ ~Sealed(m)
    BY <1>1, <1>3 DEF Typed, TypeOK, Belonging, SlotsInv, InFlight, Sealed
  <2>2. slot' = [slot EXCEPT ![c] = None] /\ completed' = completed \cup {m}
    BY <1>1, <1>3 DEF OnCompleted
  <2>3. Leaves(m)
    BY <1>1, <2>1, <2>2 DEF Leaves
  <2>4. CASE v = "error" \/ (v = "text" /\ m \notin replied)
    <3>1. ClosesWith(m, IF v = "error" THEN "runError" ELSE "reply")
      BY <1>1, <1>3, <2>2, <2>3, <2>4 DEF OnCompleted, ClosesWith
    <3>2. QED
      BY <2>1, <3>1 DEF Kinds
  <2>5. CASE ~(v = "error" \/ (v = "text" /\ m \notin replied))
    <3>1. Finalize(m, TRUE) /\ UNCHANGED <<text, delivery>>
      BY <1>1, <1>3, <2>5 DEF OnCompleted
    <3>2. ClosesSilently(m)
      BY <2>1, <2>2, <2>3, <3>1 DEF Finalize, ClosesSilently
    <3>3. QED
      BY <2>1, <3>2 DEF Kinds
  <2>6. QED
    BY <2>4, <2>5
<1>4. QED
  BY <1>2, <1>3

\* The end of a closing send seals the request, unless the catch had sealed it before.
LEMMA SendSettlesKind ==
  ASSUME Typed, SlotsInv, NEW m \in Msgs, SendSettles(m)
  PROVE  Kinds
<1>1. delivery[m] \in {"sending", "media"} /\ delivery' = [delivery EXCEPT ![m] = "over"]
      /\ UNCHANGED <<chat, slot, completed, text>>
  BY DEF SendSettles
<1>2. CASE text[m] = "callError"
  <2>1. Moves(m)
    BY <1>1, <1>2 DEF SendSettles, Moves
  <2>2. QED
    BY <2>1 DEF Kinds
<1>3. CASE text[m] # "callError"
  <2>1. Answering(m)
    BY <1>1, <1>3 DEF SlotsInv, Lifecycle, Idle, InFlight, Answering, Answered, Silent, Failed
  <2>2. ~Sealed(m) /\ Finalize(m, text[m] = "reply")
    BY <1>3, <2>1 DEF SendSettles, Answering, Sealed
  <2>3. Seals(m)
    BY <1>1, <2>1, <2>2 DEF Finalize, Seals
  <2>4. QED
    BY <2>3 DEF Kinds
<1>4. QED
  BY <1>2, <1>3

\* Whatever the code does next is, for the pipeline, a step of one of the seven kinds.
LEMMA StepKind == ASSUME Typed, SlotsInv, [Next]_vars PROVE Kinds
<1>0. \A m \in Msgs : stage[m] # "new" => chat[m] \in Chats
  BY CallChat
<1>1. ASSUME NEW m \in Msgs, NEW c \in Chats, Receive(m, c) \/ CrossSend(m, c) PROVE Kinds
  <2>1. Arrives(m, c)
    BY <1>1 DEF Receive, CrossSend, Arrives
  <2>2. QED
    BY <2>1 DEF Kinds
<1>2. ASSUME NEW m \in Msgs, Open(m) PROVE Kinds
  <2>1. Opens(m)
    BY <1>0, <1>2 DEF Open, Opens, BeginExecute, Typed, TypeOK
  <2>2. QED
    BY <2>1 DEF Kinds
<1>3. ASSUME NEW m \in Msgs, Steer(m) PROVE Quiet
  BY <1>3 DEF Steer, BeginExecute, Quiet
<1>4. ASSUME NEW m \in Msgs, Observe(m) \/ AppendCreated(m) \/ AppendFails(m) \/ Prompt(m) PROVE Quiet
  BY <1>4 DEF Observe, AppendCreated, AppendFails, Prompt, Quiet
<1>5. ASSUME NEW m \in Msgs, CreateFails(m) \/ PromptFails(m) \/ TimesOut(m) PROVE Kinds
  <2>1. /\ stage[m] \in {"creating", "prompting"} /\ stage'[m] = "done"
        /\ UNCHANGED chat /\ Catch(m)
    BY <1>5 DEF CreateFails, PromptFails, TimesOut, Typed, TypeOK
  <2>2. QED
    BY <2>1, CatchKind
<1>6. ASSUME NEW m \in Msgs, NEW ok \in BOOLEAN, Settles(m, ok) PROVE Kinds
  <2>1. stage[m] = "prompting" /\ stage'[m] = "done" /\ UNCHANGED chat
    BY <1>6 DEF Settles, Typed, TypeOK
  <2>2. CASE ok
    BY <1>6, <2>1, <2>2 DEF Settles, Quiet, Kinds
  <2>3. CASE ~ok
    BY <1>6, <2>1, <2>3, CatchKind DEF Settles
  <2>4. QED
    BY <2>2, <2>3
<1>7. ASSUME NEW m \in Msgs, Delivered(m) PROVE Kinds
  <2>1. Moves(m)
    BY <1>7 DEF Delivered, Moves
  <2>2. QED
    BY <2>1 DEF Kinds
<1>8. ASSUME NEW o \in Msgs, ToolStarts(o) \/ ToolSends(o) \/ RunEndsUnheard(o) \/ CompactionStarts(o)
      PROVE  Quiet
  BY <1>8 DEF ToolStarts, ToolSends, RunEndsUnheard, CompactionStarts, Quiet
<1>9. ASSUME NEW o \in Msgs, NEW aborted \in BOOLEAN, CompactionEnds(o, aborted) PROVE Quiet
  BY <1>9 DEF CompactionEnds, Quiet
<1>10. ASSUME NEW c \in Chats, ChatStep(c) PROVE Quiet
  BY <1>10 DEF ChatStep, NoticeSettles, TypingLapses, Quiet
<1>11. CASE UNCHANGED vars
  BY <1>11 DEF vars, Quiet, Kinds
<1>12. ASSUME NEW m \in Msgs, CallStep(m) PROVE Kinds
  BY <1>12, <1>1, <1>2, <1>3, <1>4, <1>5, <1>6, <1>7, SendSettlesKind, Zenon DEF CallStep, Kinds
<1>13. ASSUME NEW o \in Msgs, RunStep(o) PROVE Kinds
  BY <1>13, <1>8, <1>9, RunEndsKind, Zenon DEF RunStep, Kinds
<1>14. QED
  BY <1>10, <1>11, <1>12, <1>13, Zenon DEF Next, Kinds

\* A call never goes back.
LEMMA StageStep ==
  ASSUME TypeOK, [Next]_vars, NEW n \in Msgs
  PROVE  /\ stage[n] \in Busy => stage'[n] \in Busy
         /\ stage[n] = "done" => stage'[n] = "done"
<1> USE DEF TypeOK, Busy
<1>1. ASSUME NEW m \in Msgs, NEW s \in Stages, stage' = [stage EXCEPT ![m] = s], stage[m] # "done",
             stage[m] \in Busy => s \in Busy
      PROVE  /\ stage[n] \in Busy => stage'[n] \in Busy
             /\ stage[n] = "done" => stage'[n] = "done"
  BY <1>1
<1>2. CASE UNCHANGED stage
  BY <1>2
<1> DEFINE Forward(m) == \E s \in Stages : /\ stage' = [stage EXCEPT ![m] = s]
                                           /\ stage[m] # "done"
                                           /\ stage[m] \in Busy => s \in Busy
<1>3. ASSUME NEW m \in Msgs, CallStep(m) PROVE UNCHANGED stage \/ Forward(m)
  <2>1. ASSUME NEW c \in Chats, Receive(m, c) \/ CrossSend(m, c) PROVE Forward(m)
    BY <2>1 DEF Receive, CrossSend, BeginAppend, Stages
  <2>2. ASSUME Steer(m) \/ Open(m) \/ Observe(m) PROVE Forward(m)
    BY <2>2 DEF Steer, Open, Observe, BeginExecute, BeginAppend, Stages
  <2>3. ASSUME AppendCreated(m) \/ AppendFails(m) \/ Prompt(m) PROVE Forward(m)
    BY <2>3 DEF AppendCreated, AppendFails, Prompt, Stages
  <2>4. ASSUME CreateFails(m) \/ PromptFails(m) \/ TimesOut(m) PROVE Forward(m)
    BY <2>4 DEF CreateFails, PromptFails, TimesOut, Stages
  <2>5. ASSUME NEW ok \in BOOLEAN, Settles(m, ok) PROVE Forward(m)
    BY <2>5 DEF Settles, Stages
  <2>6. ASSUME Delivered(m) \/ SendSettles(m) PROVE UNCHANGED stage
    BY <2>6 DEF Delivered, SendSettles
  <2> HIDE DEF Forward
  <2>7. QED
    BY <1>3, <2>1, <2>2, <2>3, <2>4, <2>5, <2>6, Zenon DEF CallStep
<1>4. ASSUME NEW o \in Msgs, RunStep(o) PROVE UNCHANGED stage
  BY <1>4 DEF RunStep, ToolStarts, ToolSends, RunEnds, RunEndsUnheard, CompactionStarts, CompactionEnds
<1>5. ASSUME NEW c \in Chats, ChatStep(c) PROVE UNCHANGED stage
  BY <1>5 DEF ChatStep, NoticeSettles, TypingLapses
<1>6. CASE UNCHANGED vars
  BY <1>2, <1>6 DEF vars
<1>7. QED
  BY <1>1, <1>2, <1>3, <1>4, <1>5, <1>6 DEF Next

----------------------------------------------------------------------------
(* SlotsInv.                                                               *)

\* No PipelineSession is open when the program starts.
LEMMA SlotsInit == Init => SlotsInv
  BY DEF Init, SlotsInv, Lifecycle, Idle, Opened

\* An input that has not been opened is in no slot.
LEMMA IdleFree ==
  ASSUME Typed, SlotsInv, NEW m \in Msgs, stage[m] \notin Busy
  PROVE  Idle(m) /\ \A c \in Chats : slot[c] # m
<1>1. ~Opened(m)
  BY DEF SlotsInv, Busy
<1>2. Idle(m)
  BY <1>1 DEF SlotsInv, Opened, Lifecycle, Idle, InFlight, Answering, Answered, Silent, Failed
<1>3. QED
  BY <1>1, <1>2 DEF SlotsInv, Typed, TypeOK, InFlight, Opened

\* The flags of a PipelineSession, the map and its send keep agreeing.
LEMMA SlotsStep == Typed /\ SlotsInv /\ [Next]_vars => SlotsInv'
<1> SUFFICES ASSUME Typed, SlotsInv, [Next]_vars PROVE SlotsInv'
  OBVIOUS
<1> DEFINE Fine(n) == /\ Lifecycle(n)
                      /\ Opened(n) => chat[n] \in Chats /\ stage[n] \in Busy
<1> USE DEF TypeOK
<1>1. /\ \A n \in Msgs : Fine(n)
      /\ \A n \in Msgs : /\ stage[n] \in Busy => stage'[n] \in Busy
                         /\ stage[n] = "done" => stage'[n] = "done"
  BY StageStep DEF SlotsInv, Typed, Busy
<1>2. SUFFICES /\ \A n \in Msgs : Fine(n)'
               /\ \A c \in Chats : slot'[c] # None => InFlight(slot[c])'
  BY DEF SlotsInv, Busy
<1> USE DEF Lifecycle, Idle, InFlight, Answering, Answered, Silent, Failed, Opened
<1>3. \* What a step leaves of an input it is not about.
      ASSUME NEW n \in Msgs, UNCHANGED <<chat[n], reaction[n], text[n], delivery[n]>>,
             (n \in completed') <=> (n \in completed),
             chat[n] \in Chats => slot'[chat[n]] = slot[chat[n]] \/ slot[chat[n]] # n
      PROVE  Fine(n)'
  BY <1>1, <1>3 DEF Typed, Received, Busy, SlotsInv
<1> DEFINE Goal == /\ \A n \in Msgs : Fine(n)'
                   /\ \A c \in Chats : slot'[c] # None => InFlight(slot[c])'
<1>4. ASSUME NEW m \in Msgs, NEW d \in Chats, Arrives(m, d) PROVE Goal
  <2>1. Idle(m) /\ \A c \in Chats : slot[c] # m
    BY <1>4, IdleFree DEF Arrives, Busy
  <2>2. ASSUME NEW n \in Msgs PROVE Fine(n)'
    <3>1. CASE n = m
      BY <1>4, <2>1, <3>1 DEF Arrives
    <3>2. CASE n # m
      BY <1>3, <1>4, <3>2 DEF Arrives, Typed
    <3>3. QED
      BY <3>1, <3>2
  <2>3. ASSUME NEW c \in Chats, slot'[c] # None PROVE InFlight(slot[c])'
    BY <1>4, <2>1, <2>3 DEF Arrives, Typed, SlotsInv
  <2>4. QED
    BY <2>2, <2>3
<1>5. ASSUME NEW m \in Msgs, Opens(m) PROVE Goal
  <2>1. Idle(m) /\ \A c \in Chats : slot[c] # m
    BY <1>5, IdleFree DEF Opens, Busy
  <2>2. InFlight(m)' /\ stage'[m] \in Busy
    BY <1>5, <2>1 DEF Opens, Busy, Typed
  <2>3. ASSUME NEW n \in Msgs PROVE Fine(n)'
    <3>1. CASE n = m
      BY <1>5, <2>2, <3>1 DEF Opens
    <3>2. CASE n # m
      <4>1. chat[n] \in Chats => slot'[chat[n]] = slot[chat[n]] \/ slot[chat[n]] # n
        BY <1>5, <3>2 DEF Opens, Typed
      <4>2. QED
        BY <1>3, <1>5, <3>2, <4>1 DEF Opens, Typed
    <3>3. QED
      BY <3>1, <3>2
  <2>4. ASSUME NEW c \in Chats, slot'[c] # None PROVE InFlight(slot[c])'
    <3>1. CASE c = chat[m]
      BY <1>5, <2>2, <3>1 DEF Opens, Typed
    <3>2. CASE c # chat[m]
      BY <1>5, <2>1, <2>4, <3>2 DEF Opens, Typed, Belonging, SlotsInv
    <3>3. QED
      BY <3>1, <3>2
  <2>5. QED
    BY <2>3, <2>4
<1>6. \* Leaving a slot keeps every other input and every other slot as they were.
      ASSUME NEW m \in Msgs, Leaves(m),
             \A n \in Msgs \ {m} : /\ UNCHANGED <<reaction[n], text[n], delivery[n]>>
                                   /\ (n \in completed') <=> (n \in completed)
      PROVE  /\ \A n \in Msgs \ {m} : Fine(n)'
             /\ \A c \in Chats : slot'[c] # None => InFlight(slot[c])'
  <2>1. ASSUME NEW n \in Msgs \ {m} PROVE Fine(n)'
    <3>1. chat[n] \in Chats => slot'[chat[n]] = slot[chat[n]] \/ slot[chat[n]] # n
      BY <1>6, <2>1 DEF Leaves, Typed
    <3>2. QED
      BY <1>3, <1>6, <2>1, <3>1 DEF Leaves
  <2>2. ASSUME NEW c \in Chats, slot'[c] # None PROVE InFlight(slot[c])'
    <3>1. c # chat[m] /\ slot'[c] = slot[c] /\ slot[c] \in Msgs
      BY <1>6, <2>2 DEF Leaves, Typed
    <3>2. slot[c] # m /\ InFlight(slot[c])
      BY <3>1 DEF Typed, Belonging, SlotsInv
    <3>3. QED
      BY <1>6, <3>1, <3>2 DEF Leaves
  <2>3. QED
    BY <2>1, <2>2
<1>7. ASSUME NEW m \in Msgs, ClosesFailed(m) PROVE Goal
  <2>1. Failed(m)' /\ chat'[m] \in Chats /\ stage'[m] \in Busy
    BY <1>7 DEF ClosesFailed, Leaves, StartSend, Typed, Busy
  <2>2. \A n \in Msgs \ {m} : /\ UNCHANGED <<reaction[n], text[n], delivery[n]>>
                              /\ (n \in completed') <=> (n \in completed)
    BY <1>7 DEF ClosesFailed, StartSend, Typed
  <2>3. QED
    BY <1>6, <1>7, <2>1, <2>2 DEF ClosesFailed
<1>8. ASSUME NEW m \in Msgs, NEW t \in {"reply", "runError"}, ClosesWith(m, t) PROVE Goal
  <2>1. Answering(m)' /\ chat'[m] \in Chats /\ stage'[m] \in Busy
    BY <1>1, <1>8 DEF ClosesWith, Leaves, StartSend, Typed
  <2>2. \A n \in Msgs \ {m} : /\ UNCHANGED <<reaction[n], text[n], delivery[n]>>
                              /\ (n \in completed') <=> (n \in completed)
    BY <1>8 DEF ClosesWith, StartSend, Typed
  <2>3. QED
    BY <1>6, <1>8, <2>1, <2>2 DEF ClosesWith
<1>9. ASSUME NEW m \in Msgs, ClosesSilently(m) PROVE Goal
  <2>1. Silent(m)' /\ chat'[m] \in Chats /\ stage'[m] \in Busy
    BY <1>1, <1>9 DEF ClosesSilently, Leaves, Typed
  <2>2. \A n \in Msgs \ {m} : /\ UNCHANGED <<reaction[n], text[n], delivery[n]>>
                              /\ (n \in completed') <=> (n \in completed)
    BY <1>9 DEF ClosesSilently, Typed
  <2>3. QED
    BY <1>6, <1>9, <2>1, <2>2 DEF ClosesSilently
<1>10. \* A closed request's text moves on: no slot is touched.
       ASSUME NEW m \in Msgs, UNCHANGED <<chat, slot, completed, text>>, Fine(m)',
              \A n \in Msgs \ {m} : UNCHANGED <<reaction[n], delivery[n]>>,
              ~InFlight(m)
       PROVE  Goal
  <2>1. ASSUME NEW n \in Msgs PROVE Fine(n)'
    BY <1>3, <1>10, <2>1
  <2>2. ASSUME NEW c \in Chats, slot'[c] # None PROVE InFlight(slot[c])'
    <3>1. slot[c] \in Msgs /\ InFlight(slot[c]) /\ slot[c] # m
      BY <1>10, <2>2 DEF Typed, SlotsInv
    <3>2. QED
      BY <1>10, <3>1
  <2>3. QED
    BY <2>1, <2>2
<1>11. ASSUME NEW m \in Msgs, Moves(m) PROVE Goal
  <2>1. Answering(m) \/ Failed(m)
    BY <1>1, <1>11 DEF Moves
  <2>2. Fine(m)'
    BY <1>1, <1>11, <2>1 DEF Moves, Typed, Busy
  <2>3. \A n \in Msgs \ {m} : UNCHANGED <<reaction[n], delivery[n]>>
    BY <1>11 DEF Moves, Typed
  <2>4. QED
    BY <1>10, <1>11, <2>1, <2>2, <2>3 DEF Moves
<1>12. ASSUME NEW m \in Msgs, Seals(m) PROVE Goal
  <2>1. Fine(m)'
    BY <1>1, <1>12 DEF Seals, Typed, Busy
  <2>2. \A n \in Msgs \ {m} : UNCHANGED <<reaction[n], delivery[n]>>
    BY <1>12 DEF Seals, Typed
  <2>3. QED
    BY <1>10, <1>12, <2>1, <2>2 DEF Seals
<1>13. ASSUME Quiet PROVE Goal
  BY <1>3, <1>13 DEF Quiet, Typed, SlotsInv
<1> HIDE DEF TypeOK, Lifecycle, Idle, InFlight, Answering, Answered, Silent, Failed, Opened, Fine, Goal
<1>14. Goal
  <2>1. Kinds
    BY StepKind
  <2>2. CASE \E m \in Msgs, c \in Chats : Arrives(m, c)
    BY <1>4, <2>2
  <2>3. ASSUME NEW m \in Msgs, Opens(m) \/ ClosesFailed(m) \/ ClosesSilently(m) \/ Moves(m) \/ Seals(m)
        PROVE  Goal
    BY <1>5, <1>7, <1>9, <1>11, <1>12, <2>3
  <2>4. ASSUME NEW m \in Msgs, NEW t \in {"reply", "runError"}, ClosesWith(m, t) PROVE Goal
    BY <1>8, <2>4
  <2>5. QED
    BY <1>13, <2>1, <2>2, <2>3, <2>4 DEF Kinds
<1>15. QED
  BY <1>14 DEF Goal

----------------------------------------------------------------------------
(* TypingOwned and ToolSentInv: read off the kind of the step.             *)

\* Whatever takes a typing chat's slot away leaves a send that will stop the indicator.
LEMMA TypingStep == Typed /\ SlotsInv /\ TypingOwned /\ [Next]_vars => TypingOwned'
<1> SUFFICES ASSUME Typed, SlotsInv, TypingOwned, [Next]_vars, NEW c \in Chats, c \in typing'
             PROVE  \/ slot'[c] # None
                    \/ \E m \in Msgs : /\ chat'[m] = c
                                       /\ delivery'[m] \in {"sending", "media"}
                                       /\ text'[m] # "callError"
  BY TypeStep DEF TypingOwned, TypeOK
<1> DEFINE Sender(m) == /\ chat[m] = c
                        /\ delivery[m] \in {"sending", "media"}
                        /\ text[m] # "callError"
           Goal == \/ slot'[c] # None
                   \/ \E m \in Msgs : Sender(m)'
<1>1. c \in typing => slot[c] # None \/ \E m \in Msgs : Sender(m)
  BY DEF TypingOwned
<1> USE DEF Typed, TypeOK
<1>2. ASSUME NEW m \in Msgs, NEW d \in Chats, Arrives(m, d) PROVE Goal
  <2>1. Idle(m)
    BY <1>2, IdleFree DEF Arrives, Busy
  <2>2. QED
    BY <1>1, <1>2, <2>1 DEF Arrives, Idle
<1>3. ASSUME NEW m \in Msgs, Opens(m) PROVE Goal
  BY <1>1, <1>3 DEF Opens
<1>4. ASSUME NEW m \in Msgs, ClosesFailed(m) \/ ClosesSilently(m) PROVE Goal
  <2>1. c # chat[m] /\ c \in typing
    BY <1>4 DEF ClosesFailed, ClosesSilently
  <2>2. slot'[c] = slot[c] /\ UNCHANGED chat
    BY <1>4, <2>1 DEF ClosesFailed, ClosesSilently, Leaves
  <2>3. \A n \in Msgs \ {m} : UNCHANGED <<delivery[n], text[n]>>
    BY <1>4 DEF ClosesFailed, ClosesSilently, StartSend
  <2>4. QED
    BY <1>1, <2>1, <2>2, <2>3
<1>5. ASSUME NEW m \in Msgs, NEW t \in {"reply", "runError"}, ClosesWith(m, t) PROVE Goal
  <2>1. CASE c = chat[m]
    <3>1. Sender(m)'
      BY <1>5, <2>1 DEF ClosesWith, Leaves, StartSend
    <3>2. QED
      BY <3>1
  <2>2. CASE c # chat[m]
    <3>1. slot'[c] = slot[c] /\ UNCHANGED <<chat, typing>>
      BY <1>5, <2>2 DEF ClosesWith, Leaves
    <3>2. \A n \in Msgs \ {m} : UNCHANGED <<delivery[n], text[n]>>
      BY <1>5 DEF ClosesWith, StartSend
    <3>3. QED
      BY <1>1, <2>2, <3>1, <3>2
  <2>3. QED
    BY <2>1, <2>2
<1>6. ASSUME NEW m \in Msgs, Moves(m) PROVE Goal
  BY <1>1, <1>6 DEF Moves
<1>7. ASSUME NEW m \in Msgs, Seals(m) PROVE Goal
  BY <1>1, <1>7 DEF Seals
<1>8. ASSUME Quiet PROVE Goal
  BY <1>1, <1>8 DEF Quiet
<1> HIDE DEF Typed, TypeOK, Goal
<1>9. Kinds
  BY StepKind
<1>10. Goal
  <2>1. ASSUME NEW m \in Msgs, Opens(m) \/ ClosesFailed(m) \/ ClosesSilently(m) \/ Moves(m) \/ Seals(m)
        PROVE  Goal
    BY <1>3, <1>4, <1>6, <1>7, <2>1
  <2>2. QED
    BY <1>2, <1>5, <1>8, <1>9, <2>1 DEF Kinds
<1>11. QED
  BY <1>10 DEF Goal

\* A request the agent sent a text for is never closed with a reply.
LEMMA ToolSentStep == Typed /\ SlotsInv /\ ToolSentInv /\ [Next]_vars => ToolSentInv'
<1> SUFFICES ASSUME Typed, SlotsInv, ToolSentInv, [Next]_vars PROVE ToolSentInv'
  OBVIOUS
<1>1. /\ replied \subseteq replied'
      /\ UNCHANGED toolSent \/ \E o \in Msgs : ToolSends(o)
  <2>1. ASSUME NEW m \in Msgs, CallStep(m) PROVE replied \subseteq replied' /\ UNCHANGED toolSent
    BY <2>1 DEF CallStep, Receive, CrossSend, MarkReplied, Steer, Open, BeginExecute, Observe,
       AppendCreated, AppendFails, Prompt, Starts, CreateFails, PromptFails, TimesOut, Settles,
       Delivered, SendSettles
  <2>2. ASSUME NEW o \in Msgs, RunStep(o)
        PROVE  replied \subseteq replied' /\ (UNCHANGED toolSent \/ ToolSends(o))
    BY <2>2 DEF RunStep, ToolStarts, ToolSends, MarkReplied, RunEnds, RunEndsUnheard,
       CompactionStarts, CompactionEnds
  <2>3. ASSUME NEW c \in Chats, ChatStep(c) PROVE replied \subseteq replied' /\ UNCHANGED toolSent
    BY <2>3 DEF ChatStep, NoticeSettles, MarkReplied, TypingLapses
  <2>4. CASE UNCHANGED vars
    BY <2>4 DEF vars
  <2>5. QED
    BY <2>1, <2>2, <2>3, <2>4 DEF Next
<1>2. \* A text is turned into "reply" only when nothing was said before.
      \A n \in Msgs : /\ Opened(n) => Opened(n)'
                      /\ text'[n] = "reply" => text[n] = "reply" \/ n \notin replied
  <2> SUFFICES ASSUME NEW n \in Msgs
               PROVE  /\ Opened(n) => Opened(n)'
                      /\ text'[n] = "reply" => text[n] = "reply" \/ n \notin replied
    OBVIOUS
  <2>1. reaction \in [Msgs -> {"none", "working", "done", "error"}]
        /\ text \in [Msgs -> {"none", "reply", "runError", "callError"}]
    BY DEF Typed, TypeOK
  <2>2. ASSUME NEW m \in Msgs, NEW t \in {"reply", "runError"}, ClosesWith(m, t)
        PROVE  /\ Opened(n) => Opened(n)'
               /\ text'[n] = "reply" => text[n] = "reply" \/ n \notin replied
    BY <2>1, <2>2 DEF ClosesWith, StartSend, Opened
  <2>3. ASSUME NEW m \in Msgs, Opens(m) \/ ClosesFailed(m) \/ ClosesSilently(m) \/ Moves(m) \/ Seals(m)
        PROVE  /\ Opened(n) => Opened(n)'
               /\ text'[n] = "reply" => text[n] = "reply" \/ n \notin replied
    BY <2>1, <2>3 DEF Opens, ClosesFailed, ClosesSilently, Moves, Seals, StartSend, Opened
  <2>4. ASSUME UNCHANGED <<reaction, text>>
        PROVE  /\ Opened(n) => Opened(n)'
               /\ text'[n] = "reply" => text[n] = "reply" \/ n \notin replied
    BY <2>4 DEF Opened
  <2>5. Kinds
    BY StepKind
  <2>6. QED
    BY <2>2, <2>3, <2>4, <2>5 DEF Kinds, Arrives, Quiet
<1>3. CASE UNCHANGED toolSent
  BY <1>1, <1>2, <1>3 DEF ToolSentInv, Typed, TypeOK
<1>4. ASSUME NEW o \in Msgs, ToolSends(o) PROVE ToolSentInv'
  <2>1. /\ chat[o] \in Chats
        /\ UNCHANGED <<reaction, text>>
        /\ replied' = replied \cup ({slot[chat[o]]} \ {None})
        /\ toolSent' = toolSent \cup ({slot[chat[o]]} \ {None})
    BY <1>4 DEF ToolSends, MarkReplied, Typed, Belonging
  <2>2. slot[chat[o]] # None => Opened(slot[chat[o]]) /\ text[slot[chat[o]]] = "none"
    BY <2>1 DEF SlotsInv, InFlight, Opened
  <2>3. QED
    BY <2>1, <2>2 DEF ToolSentInv, Opened
<1>5. QED
  BY <1>1, <1>3, <1>4

----------------------------------------------------------------------------
(* RunsInv, SlotBacked and ActiveBacked: what a step does to a call and to *)
(* the run it waits for.                                                   *)

Calling == {"creating", "prompting"}

\* The four facts about a step that the two slot invariants need.
Prompts(m) == /\ on'[m] \in Msgs
              /\ run'[on'[m]] # None

CallFrame == \A n \in Msgs :
  /\ chat[n] # None => UNCHANGED chat[n]
  /\ stage'[n] = "prompting" => \/ stage[n] = "prompting" /\ UNCHANGED on[n]
                                \/ Prompts(n)
  /\ stage[n] \in Calling /\ stage'[n] \notin Calling =>
       stage[n] = "prompting" \/ \A c \in Chats : slot'[c] # n

RunFrame ==
  /\ lostEnds \subseteq lostEnds'
  /\ \A c \in Chats : slot'[c] # None => slot'[c] = slot[c] \/ stage'[slot'[c]] = "creating"
  /\ \A o \in Msgs : run[o] # None =>
       run'[o] # None \/ slot'[chat[o]] = None \/ chat[o] \in lostEnds'

\* What a step can change of the calls: see CallFrame.
LEMMA CallFrameStep == ASSUME Typed, SlotsInv, [Next]_vars PROVE CallFrame
<1> USE DEF Typed, TypeOK, Stages, Calling
<1>1. ASSUME NEW m \in Msgs, NEW c \in Chats, Receive(m, c) \/ CrossSend(m, c) PROVE CallFrame
  <2>1. chat[m] = None /\ stage[m] = "new" /\ UNCHANGED on
    BY <1>1 DEF Receive, CrossSend, BeginAppend, Received
  <2>2. /\ chat' = [chat EXCEPT ![m] = c]
        /\ \E s \in {"expanding", "appending", "done"} : stage' = [stage EXCEPT ![m] = s]
    BY <1>1 DEF Receive, CrossSend, BeginAppend
  <2>3. QED
    BY <2>1, <2>2 DEF CallFrame
<1>2. ASSUME NEW m \in Msgs, Steer(m) \/ Open(m) \/ Observe(m) PROVE CallFrame
  BY <1>2 DEF Steer, Open, Observe, BeginExecute, BeginAppend, CallFrame
<1>3. ASSUME NEW m \in Msgs, AppendCreated(m) \/ AppendFails(m) PROVE CallFrame
  BY <1>3 DEF AppendCreated, AppendFails, CallFrame
<1>4. ASSUME NEW m \in Msgs, Prompt(m) PROVE CallFrame
  <2>1. SessionOf(m) \in Msgs
    BY DEF SessionOf
  <2>2. Prompts(m)
    BY <1>4, <2>1 DEF Prompt, CacheSession, Starts, Prompts
  <2>3. /\ UNCHANGED chat /\ stage' = [stage EXCEPT ![m] = "prompting"]
        /\ on' = [on EXCEPT ![m] = SessionOf(m)]
    BY <1>4 DEF Prompt, CacheSession
  <2>4. QED
    BY <2>2, <2>3 DEF CallFrame
<1>5. \* A call that fails before it prompts has left its slot.
      ASSUME NEW m \in Msgs, stage[m] = "creating", Catch(m)
      PROVE  \A c \in Chats : slot'[c] # m
  <2>1. chat[m] \in Chats
    BY <1>5, CallChat
  <2>2. CASE Opened(m) /\ m \notin completed
    BY <1>5, <2>1, <2>2 DEF Catch, Belonging
  <2>3. CASE ~(Opened(m) /\ m \notin completed)
    <3>1. UNCHANGED slot
      BY <1>5, <2>3 DEF Catch
    <3>2. ~InFlight(m)
      BY <2>3 DEF InFlight, Opened
    <3>3. QED
      BY <3>1, <3>2 DEF SlotsInv
  <2>4. QED
    BY <2>2, <2>3
<1>6. ASSUME NEW m \in Msgs, CreateFails(m) \/ PromptFails(m) PROVE CallFrame
  <2>1. /\ UNCHANGED chat /\ stage[m] = "creating" /\ Catch(m)
        /\ stage' = [stage EXCEPT ![m] = "done"]
        /\ \A n \in Msgs \ {m} : UNCHANGED on[n]
    BY <1>6 DEF CreateFails, PromptFails, CacheSession
  <2>2. QED
    BY <1>5, <2>1 DEF CallFrame
<1>7. ASSUME NEW m \in Msgs, TimesOut(m) \/ \E ok \in BOOLEAN : Settles(m, ok) PROVE CallFrame
  BY <1>7 DEF TimesOut, Settles, CallFrame
<1>8. ASSUME UNCHANGED callVars PROVE CallFrame
  BY <1>8 DEF CallFrame
<1>9. ASSUME NEW m \in Msgs, Delivered(m) \/ SendSettles(m) PROVE CallFrame
  BY <1>8, <1>9 DEF Delivered, SendSettles
<1>10. ASSUME NEW o \in Msgs, RunStep(o) PROVE CallFrame
  <2>1. UNCHANGED callVars
    BY <1>10 DEF RunStep, ToolStarts, ToolSends, RunEnds, RunEndsUnheard, CompactionStarts,
       CompactionEnds
  <2>2. QED
    BY <1>8, <2>1
<1>11. ASSUME NEW c \in Chats, ChatStep(c) PROVE CallFrame
  BY <1>8, <1>11 DEF ChatStep, NoticeSettles, TypingLapses
<1>12. CASE UNCHANGED vars
  BY <1>8, <1>12 DEF vars
<1> HIDE DEF Typed, TypeOK, Stages, Calling
<1>13. ASSUME NEW m \in Msgs, CallStep(m) PROVE CallFrame
  BY <1>13, <1>1, <1>2, <1>3, <1>4, <1>6, <1>7, <1>9, Zenon DEF CallStep
<1>14. QED
  BY <1>10, <1>11, <1>12, <1>13, Zenon DEF Next

\* What a step can change of the runs: see RunFrame.
LEMMA RunFrameStep == ASSUME Typed, SlotsInv, [Next]_vars PROVE RunFrame
<1>1. lostEnds \subseteq lostEnds'
  <2>1. ASSUME NEW m \in Msgs, CallStep(m) PROVE UNCHANGED lostEnds
    BY <2>1 DEF CallStep, Receive, CrossSend, Steer, Open, BeginExecute, Observe,
       AppendCreated, AppendFails, Prompt, Starts, CreateFails, PromptFails, TimesOut, Settles,
       Delivered, SendSettles
  <2>2. ASSUME NEW o \in Msgs, RunStep(o) PROVE lostEnds \subseteq lostEnds'
    BY <2>2 DEF RunStep, ToolStarts, ToolSends, RunEnds, RunEndsUnheard, CompactionStarts,
       CompactionEnds
  <2>3. ASSUME NEW c \in Chats, ChatStep(c) PROVE UNCHANGED lostEnds
    BY <2>3 DEF ChatStep, NoticeSettles, TypingLapses
  <2>4. CASE UNCHANGED vars
    BY <2>4 DEF vars
  <2>5. QED
    BY <2>1, <2>2, <2>3, <2>4 DEF Next
<1>2. \A c \in Chats : slot'[c] # None => slot'[c] = slot[c] \/ stage'[slot'[c]] = "creating"
  <2> DEFINE Goal == \A c \in Chats : slot'[c] # None =>
                       slot'[c] = slot[c] \/ stage'[slot'[c]] = "creating"
  <2>1. ASSUME NEW m \in Msgs, Opens(m) PROVE Goal
    BY <2>1 DEF Opens, Typed, TypeOK
  <2>2. ASSUME NEW m \in Msgs, Leaves(m) PROVE Goal
    BY <2>2 DEF Leaves, Typed, TypeOK
  <2>3. ASSUME UNCHANGED slot PROVE Goal
    BY <2>3
  <2>4. Kinds
    BY StepKind
  <2> HIDE DEF Goal
  <2>5. Goal
    BY <2>1, <2>2, <2>3, <2>4
    DEF Kinds, Arrives, ClosesFailed, ClosesSilently, ClosesWith, Moves, Seals, Quiet
  <2>6. QED
    BY <2>5 DEF Goal
<1>3. ASSUME NEW o \in Msgs, run[o] # None
      PROVE  run'[o] # None \/ slot'[chat[o]] = None \/ chat[o] \in lostEnds'
  <2> DEFINE Goal == run'[o] # None \/ slot'[chat[o]] = None \/ chat[o] \in lostEnds'
  <2>1. ASSUME NEW m \in Msgs, Prompt(m) PROVE Goal
    BY <1>3, <2>1 DEF Prompt, Starts, Typed, TypeOK
  <2>2. ASSUME NEW m \in Msgs, NEW aborted \in BOOLEAN, CompactionEnds(m, aborted) PROVE Goal
    BY <1>3, <2>2, ConversationAssumption DEF CompactionEnds, Typed, TypeOK
  <2>3. ASSUME NEW m \in Msgs, RunEndsUnheard(m) PROVE Goal
    BY <1>3, <2>3 DEF RunEndsUnheard, Typed, TypeOK
  <2>4. ASSUME NEW m \in Msgs, NEW v \in {"error", "text", "empty"}, RunEnds(m, v) PROVE Goal
    <3>1. OnCompleted(chat[m], v) /\ run' = [run EXCEPT ![m] = None] /\ chat[m] \in Chats
      BY <2>4 DEF RunEnds, Typed, Belonging
    <3>2. slot'[chat[m]] = None
      BY <3>1 DEF OnCompleted, Typed, TypeOK
    <3>3. QED
      BY <1>3, <3>1, <3>2 DEF Typed, TypeOK
  <2>5. ASSUME UNCHANGED run PROVE Goal
    BY <1>3, <2>5
  <2> HIDE DEF Goal
  <2>6. ASSUME NEW m \in Msgs, CallStep(m) PROVE Goal
    <3>1. UNCHANGED run \/ Prompt(m)
      BY <2>6 DEF CallStep, Receive, CrossSend, BeginAppend, Steer, Open, BeginExecute, Observe,
         AppendCreated, AppendFails, CreateFails, PromptFails, TimesOut, Settles, Delivered,
         SendSettles
    <3>2. QED
      BY <2>1, <2>5, <3>1
  <2>7. ASSUME NEW m \in Msgs, RunStep(m) PROVE Goal
    BY <2>2, <2>3, <2>4, <2>5, <2>7 DEF RunStep, ToolStarts, ToolSends, CompactionStarts
  <2>8. ASSUME NEW c \in Chats, ChatStep(c) PROVE Goal
    BY <2>5, <2>8 DEF ChatStep, NoticeSettles, TypingLapses
  <2>9. ASSUME UNCHANGED vars PROVE Goal
    BY <2>5, <2>9 DEF vars
  <2>10. Goal
    BY <2>6, <2>7, <2>8, <2>9 DEF Next
  <2>11. QED
    BY <2>10 DEF Goal
<1>4. QED
  BY <1>1, <1>2, <1>3 DEF RunFrame

\* A run that the slot's owner waits for ends only with the slot given up, or unheard.
LEMMA RunsStep == Typed /\ SlotsInv /\ RunsInv /\ [Next]_vars => RunsInv'
<1> SUFFICES ASSUME Typed, SlotsInv, RunsInv, [Next]_vars PROVE RunsInv'
  OBVIOUS
<1>0. CallFrame /\ RunFrame /\ TypeOK /\ TypeOK'
  BY CallFrameStep, RunFrameStep, TypeStep DEF Typed
<1>1. ASSUME NEW m \in Msgs, stage'[m] = "prompting" PROVE on'[m] # None
  BY <1>0, <1>1 DEF CallFrame, Prompts, RunsInv
<1>2. ASSUME NEW c \in Chats, slot'[c] # None, stage'[slot'[c]] = "prompting"
      PROVE  run'[on'[slot'[c]]] # None \/ c \in lostEnds'
  <2> DEFINE n == slot[c]
  <2>1. slot'[c] = n /\ n \in Msgs /\ chat[n] = c
    BY <1>0, <1>2 DEF RunFrame, TypeOK, Typed, Belonging
  <2>2. CASE Prompts(n)
    BY <2>1, <2>2 DEF Prompts
  <2>3. CASE stage[n] = "prompting" /\ UNCHANGED on[n]
    <3>1. on[n] \in Msgs /\ chat[on[n]] = c
      BY <1>0, <2>1, <2>3 DEF RunsInv, TypeOK, Typed, Belonging
    <3>2. run[on[n]] # None \/ c \in lostEnds
      BY <2>1, <2>3, <1>2 DEF RunsInv
    <3>3. QED
      BY <1>0, <1>2, <2>1, <2>3, <3>1, <3>2 DEF RunFrame
  <2>4. QED
    BY <1>0, <1>2, <2>1, <2>2, <2>3 DEF CallFrame
<1>3. QED
  BY <1>1, <1>2 DEF RunsInv

\* A slot loses the call behind it only when it is freed or a run stays behind it.
LEMMA SlotBackedStep == Typed /\ SlotsInv /\ RunsInv /\ SlotBacked /\ [Next]_vars => SlotBacked'
<1> SUFFICES ASSUME Typed, SlotsInv, RunsInv, SlotBacked, [Next]_vars,
                    NEW c \in Chats, slot'[c] # None,
                    stage'[slot'[c]] \notin Calling, c \notin lostEnds'
             PROVE  \E o \in Msgs : chat'[o] = c /\ run'[o] # None
  BY DEF SlotBacked, Calling
<1> DEFINE n == slot[c]
<1>1. CallFrame /\ RunFrame /\ TypeOK
  BY CallFrameStep, RunFrameStep DEF Typed
<1>2. slot'[c] = n /\ n \in Msgs /\ chat[n] = c /\ c \notin lostEnds
  BY <1>1 DEF RunFrame, TypeOK, Typed, Belonging, Calling
<1>3. \E o \in Msgs : chat[o] = c /\ run[o] # None
  <2>1. CASE stage[n] \in Calling
    <3>1. stage[n] = "prompting"
      BY <1>1, <1>2, <2>1 DEF CallFrame
    <3>2. on[n] \in Msgs /\ chat[on[n]] = c /\ run[on[n]] # None
      BY <1>1, <1>2, <3>1 DEF RunsInv, TypeOK, Typed, Belonging
    <3>3. QED
      BY <3>2
  <2>2. CASE stage[n] \notin Calling
    BY <1>2, <2>2 DEF SlotBacked, Calling
  <2>3. QED
    BY <2>1, <2>2
<1>4. PICK o \in Msgs : chat[o] = c /\ run[o] # None
  BY <1>3
<1>5. run'[o] # None
  BY <1>1, <1>2, <1>4 DEF RunFrame
<1>6. chat'[o] = c
  BY <1>1, <1>4, ConversationAssumption DEF CallFrame
<1>7. QED
  BY <1>5, <1>6

\* A key enters activeRuns with an awaited prompt and leaves when any prompt of it settles.
LEMMA ActiveBackedStep == Typed /\ SlotsInv /\ ActiveBacked /\ [Next]_vars => ActiveBacked'
<1> SUFFICES ASSUME Typed, SlotsInv, ActiveBacked, [Next]_vars, NEW c \in active'
             PROVE  \E m \in Msgs : chat'[m] = c /\ stage'[m] = "prompting"
  BY DEF ActiveBacked
<1> DEFINE Waiting(m) == chat[m] = c /\ stage[m] = "prompting"
           Goal == \E m \in Msgs : Waiting(m)'
<1>1. c \in active => \E m \in Msgs : Waiting(m)
  BY DEF ActiveBacked
<1>2. c # None
  BY TypeStep DEF TypeOK
<1>3. \A m \in Msgs : chat[m] # None => UNCHANGED chat[m]
  BY CallFrameStep DEF CallFrame
<1>4. \* Every call but m goes on waiting, and so does m if it has left activeRuns.
      ASSUME NEW m \in Msgs, \A n \in Msgs \ {m} : UNCHANGED stage[n], c \in active,
             stage[m] = "prompting" => chat[m] # c
      PROVE  Goal
  BY <1>1, <1>2, <1>3, <1>4
<1>5. ASSUME UNCHANGED <<stage, active>> PROVE Goal
  BY <1>1, <1>2, <1>3, <1>5
<1> USE DEF Typed, TypeOK
<1>6. ASSUME NEW m \in Msgs, NEW d \in Chats, Receive(m, d) \/ CrossSend(m, d) PROVE Goal
  <2>1. stage[m] = "new" /\ UNCHANGED active /\ \A n \in Msgs \ {m} : UNCHANGED stage[n]
    BY <1>6 DEF Receive, CrossSend, BeginAppend
  <2>2. QED
    BY <1>4, <2>1
<1>7. ASSUME NEW m \in Msgs,
             Steer(m) \/ Open(m) \/ Observe(m) \/ AppendCreated(m) \/ AppendFails(m) \/ CreateFails(m)
      PROVE  Goal
  <2>1. stage[m] # "prompting" /\ UNCHANGED active /\ \A n \in Msgs \ {m} : UNCHANGED stage[n]
    BY <1>7 DEF Steer, Open, Observe, AppendCreated, AppendFails, CreateFails, BeginExecute, BeginAppend
  <2>2. QED
    BY <1>4, <2>1
<1>8. ASSUME NEW m \in Msgs, Prompt(m) PROVE Goal
  <2>1. /\ active' = active \cup {chat[m]}
        /\ stage'[m] = "prompting" /\ stage[m] = "creating"
        /\ \A n \in Msgs \ {m} : UNCHANGED stage[n]
    BY <1>8 DEF Prompt
  <2>2. CASE c = chat[m]
    BY <1>2, <1>3, <2>1, <2>2
  <2>3. CASE c # chat[m]
    BY <1>4, <2>1, <2>3
  <2>4. QED
    BY <2>2, <2>3
<1>9. ASSUME NEW m \in Msgs, PromptFails(m) \/ TimesOut(m) \/ \E ok \in BOOLEAN : Settles(m, ok)
      PROVE  Goal
  <2>1. active' = active \ {chat[m]} /\ \A n \in Msgs \ {m} : UNCHANGED stage[n]
    BY <1>9 DEF PromptFails, TimesOut, Settles, ClearActive
  <2>2. QED
    BY <1>4, <2>1
<1>10. ASSUME NEW m \in Msgs, Delivered(m) \/ SendSettles(m) PROVE Goal
  BY <1>5, <1>10 DEF Delivered, SendSettles
<1>11. ASSUME NEW o \in Msgs, RunStep(o) PROVE Goal
  <2>1. UNCHANGED <<stage, active>>
    BY <1>11 DEF RunStep, ToolStarts, ToolSends, RunEnds, RunEndsUnheard, CompactionStarts,
       CompactionEnds
  <2>2. QED
    BY <1>5, <2>1
<1>12. ASSUME NEW d \in Chats, ChatStep(d) PROVE Goal
  BY <1>5, <1>12 DEF ChatStep, NoticeSettles, TypingLapses
<1>13. ASSUME UNCHANGED vars PROVE Goal
  BY <1>5, <1>13 DEF vars
<1> HIDE DEF Goal, Typed, TypeOK
<1>14. ASSUME NEW m \in Msgs, CallStep(m) PROVE Goal
  BY <1>14, <1>6, <1>7, <1>8, <1>9, <1>10, Zenon DEF CallStep
<1>15. Goal
  BY <1>11, <1>12, <1>13, <1>14, Zenon DEF Next
<1>16. QED
  BY <1>15 DEF Goal

----------------------------------------------------------------------------
(* DrivesInv: whose run goes on behind a closed request.                   *)

\* A run is started by one prompt, and ends before its request is closed by onCompleted
\* or is recorded as overtaken.
LEMMA DrivesStep == Typed /\ DrivesInv /\ [Next]_vars => DrivesInv'
<1> SUFFICES ASSUME Typed, DrivesInv, [Next]_vars PROVE DrivesInv'
  OBVIOUS
<1> DEFINE Begun == {"prompting", "done"}
<1> USE DEF Typed, TypeOK
<1>1. \* A call step that starts no run leaves the calls that drive one where they were.
      ASSUME NEW m \in Msgs, UNCHANGED <<run, completed, overtaken>>,
             stage[m] \in Begun => UNCHANGED on[m] /\ stage'[m] \in Begun,
             \A n \in Msgs \ {m} : UNCHANGED <<on[n], stage[n]>>
      PROVE  DrivesInv'
  <2>1. \A n, o \in Msgs : run[o] = n => on'[n] = on[n] /\ stage'[n] \in Begun
    BY <1>1 DEF DrivesInv
  <2>2. QED
    BY <1>1, <2>1 DEF DrivesInv, Driving
<1>2. ASSUME UNCHANGED <<stage, on, run, completed, overtaken>> PROVE DrivesInv'
  BY <1>2 DEF DrivesInv, Driving
<1>3. ASSUME NEW m \in Msgs, Prompt(m) PROVE DrivesInv'
  <2> DEFINE o == SessionOf(m)
  <2>1. /\ o \in Msgs /\ stage[m] = "creating" /\ UNCHANGED completed
        /\ on' = [on EXCEPT ![m] = o] /\ stage' = [stage EXCEPT ![m] = "prompting"]
    BY <1>3 DEF Prompt, CacheSession, SessionOf
  <2>2. \A p \in Msgs : run[p] # m
    BY <2>1 DEF DrivesInv
  <2>3. CASE UNCHANGED <<run, overtaken>>
    BY <1>1, <2>1, <2>3
  <2>4. CASE run' = [run EXCEPT ![o] = m] /\ overtaken' = overtaken \cup ({m} \cap completed)
    <3>1. \A p \in Msgs : run'[p] = m => p = o
      BY <2>1, <2>2, <2>4
    <3>2. \A n \in Msgs \ {m} : \A p \in Msgs : run'[p] = n => run[p] = n
      BY <2>1, <2>4
    <3>3. \A n \in Msgs : \A p \in Msgs : run'[p] = n => p = on'[n] /\ stage'[n] \in Begun
      BY <2>1, <3>1, <3>2 DEF DrivesInv
    <3>4. \A n \in Msgs : n \in completed' \ overtaken' => ~Driving(n)'
      BY <2>1, <2>4, <3>2 DEF DrivesInv, Driving
    <3>5. QED
      BY <3>3, <3>4 DEF DrivesInv
  <2>5. QED
    BY <1>3, <2>3, <2>4 DEF Prompt, Starts
<1>4. \* A run's end leaves the other runs and whoever drives them.
      ASSUME NEW o \in Msgs, UNCHANGED <<stage, on>>, run[o] # None, run' = [run EXCEPT ![o] = None],
             overtaken \ {run[o]} \subseteq overtaken',
             \A n \in completed' \ completed : Driving(n)' => n \in overtaken'
      PROVE  DrivesInv'
  <2>1. \A n, p \in Msgs : run'[p] = n => run[p] = n /\ p # o
    BY <1>4
  <2>2. \A n \in Msgs : run[o] = n => ~Driving(n)'
    BY <2>1 DEF DrivesInv, Driving
  <2>3. ASSUME NEW n \in Msgs, n \in completed', Driving(n)' PROVE n \in overtaken'
    <3>1. Driving(n) /\ n # run[o]
      BY <2>1, <2>2, <2>3 DEF Driving
    <3>2. QED
      BY <1>4, <2>3, <3>1 DEF DrivesInv
  <2>4. QED
    BY <1>4, <2>1, <2>3 DEF DrivesInv
<1>5. ASSUME NEW o \in Msgs, NEW v \in {"error", "text", "empty"}, RunEnds(o, v) PROVE DrivesInv'
  <2>1. /\ UNCHANGED <<stage, on>> /\ run[o] # None /\ run' = [run EXCEPT ![o] = None]
        /\ OnCompleted(chat[o], v) /\ Overtakes(o)
    BY <1>5 DEF RunEnds
  <2>2. completed' \subseteq completed \cup {slot[chat[o]]}
    BY <2>1 DEF OnCompleted
  <2>3. ASSUME NEW n \in completed' \ completed, Driving(n)' PROVE n \in overtaken'
    <3>1. n \in Msgs /\ slot[chat[o]] = n
      <4>1. chat[o] \in Chats
        BY <2>1 DEF Belonging
      <4>2. slot[chat[o]] = n /\ n # None
        BY <2>1, <2>2, <2>3 DEF OnCompleted
      <4>3. QED
        BY <4>1, <4>2
    <3>2. \E p \in Msgs \ {o} : run[p] = n
      BY <2>1, <2>3, <3>1 DEF Driving
    <3>3. QED
      BY <2>1, <3>1, <3>2 DEF Overtakes
  <2>4. overtaken \ {run[o]} \subseteq overtaken'
    BY <2>1 DEF Overtakes
  <2>5. QED
    BY <1>4, <2>1, <2>3, <2>4
<1>6. ASSUME NEW o \in Msgs, RunEndsUnheard(o) PROVE DrivesInv'
  BY <1>4, <1>6 DEF RunEndsUnheard
<1>7. ASSUME NEW o \in Msgs, NEW aborted \in BOOLEAN, CompactionEnds(o, aborted) PROVE DrivesInv'
  <2>1. \A n, p \in Msgs : run'[p] = n => run[p] = n
    BY <1>7, ConversationAssumption DEF CompactionEnds
  <2>2. UNCHANGED <<stage, on, completed, overtaken>>
    BY <1>7 DEF CompactionEnds
  <2>3. QED
    BY <2>1, <2>2 DEF DrivesInv, Driving
<1>8. ASSUME NEW m \in Msgs, NEW c \in Chats, Receive(m, c) \/ CrossSend(m, c) PROVE DrivesInv'
  <2>1. stage[m] = "new" /\ UNCHANGED <<run, completed, overtaken, on>>
    BY <1>8 DEF Receive, CrossSend, BeginAppend
  <2>2. \A n \in Msgs \ {m} : UNCHANGED stage[n]
    BY <1>8 DEF Receive, CrossSend, BeginAppend
  <2>3. QED
    BY <1>1, <2>1, <2>2
<1>9. ASSUME NEW m \in Msgs, Steer(m) \/ Open(m) \/ Observe(m) PROVE DrivesInv'
  <2>1. stage[m] = "expanding" /\ UNCHANGED <<run, completed, overtaken>>
    BY <1>9 DEF Steer, Open, Observe, BeginExecute, BeginAppend
  <2>2. \A n \in Msgs \ {m} : UNCHANGED <<on[n], stage[n]>>
    BY <1>9 DEF Steer, Open, Observe, BeginExecute, BeginAppend
  <2>3. QED
    BY <1>1, <2>1, <2>2
<1>10. ASSUME NEW m \in Msgs, AppendCreated(m) \/ AppendFails(m) PROVE DrivesInv'
  <2>1. stage[m] = "appending" /\ UNCHANGED <<run, completed, overtaken, on>>
        /\ \A n \in Msgs \ {m} : UNCHANGED stage[n]
    BY <1>10 DEF AppendCreated, AppendFails
  <2>2. QED
    BY <1>1, <2>1
<1>11. ASSUME NEW m \in Msgs, CreateFails(m) \/ PromptFails(m) PROVE DrivesInv'
  <2>1. stage[m] = "creating" /\ UNCHANGED <<run, completed, overtaken>>
    BY <1>11 DEF CreateFails, PromptFails, Catch
  <2>2. \A n \in Msgs \ {m} : UNCHANGED <<on[n], stage[n]>>
    BY <1>11 DEF CreateFails, PromptFails, CacheSession
  <2>3. QED
    BY <1>1, <2>1, <2>2
<1>12. ASSUME NEW m \in Msgs, TimesOut(m) \/ \E ok \in BOOLEAN : Settles(m, ok) PROVE DrivesInv'
  <2>1. UNCHANGED <<run, completed, overtaken, on>> /\ stage' = [stage EXCEPT ![m] = "done"]
    BY <1>12 DEF TimesOut, Settles, Catch
  <2>2. QED
    BY <1>1, <2>1
<1>13. ASSUME NEW m \in Msgs, Delivered(m) \/ SendSettles(m) PROVE DrivesInv'
  BY <1>2, <1>13 DEF Delivered, SendSettles
<1>14. ASSUME NEW c \in Chats, ChatStep(c) PROVE DrivesInv'
  BY <1>2, <1>14 DEF ChatStep, NoticeSettles, TypingLapses
<1>15. CASE UNCHANGED vars
  BY <1>2, <1>15 DEF vars
<1>16. ASSUME NEW o \in Msgs, ToolStarts(o) \/ ToolSends(o) \/ CompactionStarts(o) PROVE DrivesInv'
  BY <1>2, <1>16 DEF ToolStarts, ToolSends, CompactionStarts
<1> HIDE DEF Typed, TypeOK
<1>17. ASSUME NEW m \in Msgs, CallStep(m) PROVE DrivesInv'
  BY <1>17, <1>3, <1>8, <1>9, <1>10, <1>11, <1>12, <1>13, Zenon DEF CallStep
<1>18. ASSUME NEW o \in Msgs, RunStep(o) PROVE DrivesInv'
  BY <1>18, <1>5, <1>6, <1>7, <1>16, Zenon DEF RunStep
<1>19. QED
  BY <1>14, <1>15, <1>17, <1>18, Zenon DEF Next

----------------------------------------------------------------------------
(* The inductive invariant and the safety properties.                      *)

\* IInv is inductive, so it holds for any number of chats, inputs, steered calls and
\* compactions.
THEOREM Invariance == Spec => []IInv
<1>1. Init => IInv
  <2>1. Init => Typed /\ SlotsInv
    BY TypeInit, SlotsInit
  <2>2. Init => RunsInv /\ SlotBacked /\ ActiveBacked /\ TypingOwned /\ ToolSentInv
                /\ DrivesInv
    BY DEF Init, RunsInv, SlotBacked, ActiveBacked, TypingOwned, ToolSentInv, DrivesInv, Driving
  <2>3. QED
    BY <2>1, <2>2 DEF IInv, Typed
<1>2. IInv /\ [Next]_vars => IInv'
  BY TypeStep, ReceivedStep, BelongingStep, SlotsStep, RunsStep, SlotBackedStep, ActiveBackedStep,
     TypingStep, ToolSentStep, DrivesStep
  DEF IInv, Typed
<1>3. QED
  BY <1>1, <1>2, PTL DEF Spec

\* Every variable keeps its type: pipeline maps, session cache and run set included.
THEOREM TypeCorrect == Spec => []TypeOK
<1>1. IInv => TypeOK
  BY DEF IInv
<1>2. QED
  BY Invariance, <1>1, PTL

\* A taken slot always has something under way that will free it (onCompleted or the
\* catch in process()), unless a disposed session ended unheard.
THEOREM SlotsAreBacked == Spec => []SlotBacked
<1>1. IInv => SlotBacked
  BY DEF IInv
<1>2. QED
  BY Invariance, <1>1, PTL

\* activeRuns holds a key only while a prompt for that key is awaited.
THEOREM ActiveIsBacked == Spec => []ActiveBacked
<1>1. IInv => ActiveBacked
  BY DEF IInv
<1>2. QED
  BY Invariance, <1>1, PTL

\* A typing indicator never stays on without someone who will turn it off.
THEOREM TypingIsOwned == Spec => []TypingOwned
<1>1. IInv => TypingOwned
  BY DEF IInv
<1>2. QED
  BY Invariance, <1>1, PTL

\* A message shows its mark only after its slot is given up, and the mark of its outcome.
\* The run its own prompt started is over by then, unless execute rejected or another run
\* of the chat ended in its place.
THEOREM SealsAreFinal == Spec => []SealedAfterClose
<1>1. IInv => SealedAfterClose
  BY DEF IInv, SlotsInv, DrivesInv, SealedAfterClose, Lifecycle, Idle, InFlight, Answering, Answered, Silent,
         Failed, Sealed, Opened
<1>2. QED
  BY Invariance, <1>1, PTL

\* An answer the agent delivered with channel.send is not repeated by onCompleted.
THEOREM NoDoubleReplies == Spec => []NoDoubleReply
<1>1. IInv => NoDoubleReply
  BY DEF IInv, ToolSentInv, NoDoubleReply
<1>2. QED
  BY Invariance, <1>1, PTL

----------------------------------------------------------------------------
(* Conversation implements ReplyContract: each kind of step is one step of *)
(* the contract, or none.                                                  *)

\* The initial state maps to the contract's: no message has arrived.
LEMMA ContractInit == Init => Contract!Init
  BY DEF Init, Contract!Init, Phase, Opened

\* Every kind of step is one step of the contract or leaves it where it was.
LEMMA ContractStep ==
  ASSUME Typed, SlotsInv, [Next]_vars
  PROVE  [Contract!Next]_(Contract!vars)
<1> DEFINE ph == [m \in Msgs |-> Phase(m)]
           Goal == [Contract!Next]_(Contract!vars)
<1> USE DEF Typed, TypeOK
<1>0. /\ None \notin Msgs
      /\ \A n \in Msgs : Opened(n) => chat[n] \in Chats
  BY DEF SlotsInv
<1>1. ASSUME NEW m \in Msgs, NEW c \in Chats, Arrives(m, c) PROVE Goal
  <2>1. chat[m] = None /\ Idle(m)
    BY <1>1, IdleFree DEF Arrives, Received, Busy
  <2>2. ph' = ph
    BY <1>1, <2>1 DEF Arrives, Phase, Opened, Idle, Sealed
  <2>3. Contract!Arrive(m, c)
    BY <1>1, <2>1, <2>2 DEF Arrives, Contract!Arrive
  <2>4. QED
    BY <2>3 DEF Contract!Next
<1>2. \* Whatever happens to the slot of m, the others' phases stay.
      ASSUME NEW m \in Msgs, NEW p, chat[m] \in Chats, UNCHANGED chat,
             slot[chat[m]] \in {m, None}, slot'[chat[m]] \in {m, None},
             \A c \in Chats \ {chat[m]} : UNCHANGED slot[c],
             \A n \in Msgs \ {m} : UNCHANGED reaction[n],
             Phase(m)' = p
      PROVE  ph' = [ph EXCEPT ![m] = p]
  <2>1. ASSUME NEW n \in Msgs, n # m PROVE Phase(n)' = Phase(n)
    <3>1. Opened(n)' = Opened(n) /\ Sealed(n)' = Sealed(n)
      BY <1>2, <2>1 DEF Opened, Sealed
    <3>2. Opened(n) => (slot'[chat[n]] = n <=> slot[chat[n]] = n)
      BY <1>0, <1>2, <2>1
    <3>3. QED
      BY <1>2, <2>1, <3>1, <3>2 DEF Phase
  <2>2. QED
    BY <1>2, <2>1
<1>3. ASSUME NEW m \in Msgs, Opens(m) PROVE Goal
  <2>1. Idle(m) /\ \A c \in Chats : slot[c] # m
    BY <1>3, IdleFree DEF Opens, Busy
  <2>2. Phase(m) = "idle" /\ Phase(m)' = "open"
    BY <1>3, <2>1 DEF Opens, Phase, Idle, Opened
  <2>3. ph' = [ph EXCEPT ![m] = "open"]
    BY <1>2, <1>3, <2>2 DEF Opens
  <2>4. \A n \in Msgs : ph[n] = "open" => chat[n] # chat[m]
    BY <1>0, <1>3 DEF Opens, Phase, Sealed
  <2>5. Contract!Open(m)
    BY <1>3, <2>2, <2>3, <2>4, ConversationAssumption DEF Opens, Contract!Open
  <2>6. QED
    BY <2>5 DEF Contract!Next
<1>4. \* A request that leaves its slot was open, and no other phase changes.
      ASSUME NEW m \in Msgs, NEW p, Leaves(m), \A n \in Msgs \ {m} : UNCHANGED reaction[n],
             Phase(m)' = p
      PROVE  ph[m] = "open" /\ ph' = [ph EXCEPT ![m] = p] /\ UNCHANGED chat
  <2>1. ph[m] = "open"
    BY <1>4 DEF Leaves, InFlight, Phase, Opened
  <2>2. slot[chat[m]] = m /\ slot'[chat[m]] = None
    BY <1>4 DEF Leaves, InFlight
  <2>3. ph' = [ph EXCEPT ![m] = p]
    BY <1>2, <1>4, <2>2 DEF Leaves
  <2>4. QED
    BY <1>4, <2>1, <2>3 DEF Leaves
<1>5. ASSUME NEW m \in Msgs, ClosesFailed(m) PROVE Goal
  <2>1. Phase(m)' = "error"
    BY <1>0, <1>5 DEF ClosesFailed, Leaves, Phase, Opened, Sealed
  <2>2. Leaves(m) /\ (\A n \in Msgs \ {m} : UNCHANGED reaction[n])
        /\ text' = [text EXCEPT ![m] = "callError"]
    BY <1>5 DEF ClosesFailed, StartSend
  <2>3. Contract!CloseFailed(m)
    BY <1>4, <2>1, <2>2 DEF Contract!CloseFailed
  <2>4. QED
    BY <2>3 DEF Contract!Next
<1>6. ASSUME NEW m \in Msgs, ClosesSilently(m) PROVE Goal
  <2>1. Phase(m)' = "done"
    BY <1>0, <1>6 DEF ClosesSilently, Leaves, Phase, Opened, Sealed
  <2>2. Leaves(m) /\ (\A n \in Msgs \ {m} : UNCHANGED reaction[n]) /\ UNCHANGED text
    BY <1>6 DEF ClosesSilently
  <2>3. Contract!CloseSilently(m)
    BY <1>4, <2>1, <2>2 DEF Contract!CloseSilently
  <2>4. QED
    BY <2>3 DEF Contract!Next
<1>7. ASSUME NEW m \in Msgs, NEW t \in {"reply", "runError"}, ClosesWith(m, t) PROVE Goal
  <2>1. Phase(m)' = "closing"
    BY <1>0, <1>7 DEF ClosesWith, Leaves, InFlight, Phase, Opened, Sealed
  <2>2. Leaves(m) /\ UNCHANGED reaction /\ text' = [text EXCEPT ![m] = t]
    BY <1>7 DEF ClosesWith, StartSend
  <2>3. Contract!CloseWith(m, t)
    BY <1>4, <2>1, <2>2 DEF Contract!CloseWith
  <2>4. QED
    BY <2>3 DEF Contract!Next
<1>8. ASSUME UNCHANGED <<chat, slot, reaction, text>> PROVE Goal
  BY <1>8 DEF Contract!vars, Phase, Opened, Sealed
<1>9. ASSUME NEW m \in Msgs, Moves(m) PROVE Goal
  BY <1>8, <1>9 DEF Moves
<1>10. ASSUME NEW m \in Msgs, Seals(m) PROVE Goal
  <2>1. Opened(m) /\ chat[m] \in Chats
    BY <1>0, <1>10 DEF Seals, Answering, Opened
  <2>2. slot[chat[m]] # m /\ UNCHANGED <<chat, slot, text>>
    BY <1>0, <1>10, <2>1 DEF Seals, Answering, SlotsInv, InFlight
  <2>3. Phase(m) = "closing"
    BY <1>10, <2>1, <2>2 DEF Seals, Answering, Phase, Sealed
  <2>4. Phase(m)' = IF text[m] = "reply" THEN "done" ELSE "error"
    BY <1>10, <2>2 DEF Seals, Phase, Opened, Sealed
  <2>5. ph' = [ph EXCEPT ![m] = IF text[m] = "reply" THEN "done" ELSE "error"]
    BY <1>10, <2>2, <2>4 DEF Seals, Phase, Opened, Sealed
  <2>6. Contract!Seal(m)
    BY <2>2, <2>3, <2>5 DEF Contract!Seal
  <2>7. QED
    BY <2>6 DEF Contract!Next
<1>11. ASSUME Quiet PROVE Goal
  BY <1>8, <1>11 DEF Quiet
<1> HIDE DEF Typed, TypeOK, Goal
<1>12. Kinds
  BY StepKind
<1>13. Goal
  <2>1. ASSUME NEW m \in Msgs, Opens(m) \/ ClosesFailed(m) \/ ClosesSilently(m) \/ Moves(m) \/ Seals(m)
        PROVE  Goal
    BY <1>3, <1>5, <1>6, <1>9, <1>10, <2>1
  <2>2. QED
    BY <1>1, <1>7, <1>11, <1>12, <2>1 DEF Kinds
<1>14. QED
  BY <1>13 DEF Goal

\* The pipeline, above any agent and any transport, implements the contract with the
\* user: one request of a chat at a time, exactly one close each, at most one text at a
\* close, one final mark that fits the outcome.
THEOREM Refinement == Spec => KeepsContract
<1>1. Typed /\ SlotsInv /\ [Next]_vars => [Contract!Next]_(Contract!vars)
  BY ContractStep
<1>2. IInv => Typed /\ SlotsInv
  BY DEF IInv, Typed
<1>3. QED
  BY ContractInit, Invariance, <1>1, <1>2, PTL DEF Spec, KeepsContract, Contract!Spec
=============================================================================
