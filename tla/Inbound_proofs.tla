---------------------------- MODULE Inbound_proofs ----------------------------
(***************************************************************************)
(* What holds of Inbound for any number of chats, messages, poll loops,    *)
(* restarts, crashes and expiries: its types, that one loop polls, that a  *)
(* loop's end is reported, that no message falls through, and that each is *)
(* handed on once and in order; and of Delegation for any number of        *)
(* session keys, reloads and edits.                                        *)
(***************************************************************************)
EXTENDS MCInbound, FiniteSetTheorems, TLAPS

----------------------------------------------------------------------------
(* The inductive invariant.                                                *)

Waiting(l) == loop[l] \in {"asking", "served"}

\* An answer is gone through by one loop, and there is one while something is left of it.
HandlingInv == /\ (\E l \in Loops : loop[l] = "handling") <=> inbox # {}
               /\ \A k, l \in Loops : loop[k] = "handling" /\ loop[l] = "handling" => k = l

\* While nothing overlapped, a start() under way has no loop beside it, and stop() reaches
\* the request of the loop there is.
LoopInv == ~overlapped => /\ \A k, l \in Live : k = l
                          /\ \A l \in Loops : Waiting(l) => l \in abortable
                          /\ starts > 0 => Live = {}
                          /\ starts <= 1

\* m is behind the server's or the adapter's mark, behind the offset of a request, or left
\* out of an answer that reaches beyond it; or the adapter has seen it.
Behind(m, set) == m \notin set /\ \E n \in set : m < n
Passed(m) == \/ m < offset
             \/ m <= confirmed
             \/ m \in seen
             \/ Behind(m, inbox)
             \/ \E l \in Loops : m < asked[l] \/ Behind(m, answer[l])

\* What was passed is accounted for.
PassedInv == \A m \in Sent : Passed(m) => Accounted(m)

IInv == TypeOK /\ HandlingInv /\ LoopInv /\ DeafIsReported /\ PassedInv

----------------------------------------------------------------------------
(* Sequences.                                                              *)

\* Concatenation has the type and the members of both parts.
LEMMA Concat ==
  ASSUME NEW S, NEW s \in Seq(S), NEW t \in Seq(S)
  PROVE  /\ s \o t \in Seq(S)
         /\ \A m : In(m, s \o t) <=> In(m, s) \/ In(m, t)
<1>1. s \o t \in Seq(S) /\ Len(s \o t) = Len(s) + Len(t)
  OBVIOUS
<1>2. \A i \in 1 .. Len(s) : (s \o t)[i] = s[i]
  OBVIOUS
<1>3. \A i \in 1 .. Len(t) : (s \o t)[Len(s) + i] = t[i]
  OBVIOUS
<1>4. ASSUME NEW m, In(m, s \o t)
      PROVE  In(m, s) \/ In(m, t)
  <2>1. PICK i \in 1 .. Len(s \o t) : (s \o t)[i] = m
    BY <1>4 DEF In
  <2>2. CASE i <= Len(s)
    BY <2>1, <2>2, <1>1, <1>2 DEF In
  <2>3. CASE i > Len(s)
    <3>1. i - Len(s) \in 1 .. Len(t) /\ Len(s) + (i - Len(s)) = i
      BY <2>3, <1>1
    <3>2. t[i - Len(s)] = m
      BY <2>1, <3>1, <1>3
    <3> QED
      BY <3>1, <3>2 DEF In
  <2> QED
    BY <2>1, <2>2, <2>3, <1>1
<1>5. ASSUME NEW m, In(m, s)
      PROVE  In(m, s \o t)
  BY <1>5, <1>1, <1>2 DEF In
<1>6. ASSUME NEW m, In(m, t)
      PROVE  In(m, s \o t)
  <2>1. PICK i \in 1 .. Len(t) : t[i] = m
    BY <1>6 DEF In
  <2>2. Len(s) + i \in 1 .. Len(s \o t)
    BY <1>1
  <2> QED
    BY <2>1, <2>2, <1>3 DEF In
<1> QED
  BY <1>1, <1>4, <1>5, <1>6

\* A message is a member of the batch it is appended to.
LEMMA Appended ==
  ASSUME NEW S, NEW s \in Seq(S), NEW m \in S
  PROVE  /\ Append(s, m) \in Seq(S)
         /\ In(m, Append(s, m))
         /\ \A n : In(n, s) => In(n, Append(s, m))
         /\ Len(Append(s, m)) = Len(s) + 1
BY DEF In

----------------------------------------------------------------------------
(* Types.                                                                  *)

LEMMA InitTyped ==
  ASSUME Init
  PROVE  TypeOK
<1>1. <<>> \in Seq(Message) /\ <<>> \in Seq(Updates) /\ Len(<<>>) = 0
  OBVIOUS
<1>2. /\ log \in Seq(Message) /\ Len(log) <= MaxMsgs
      /\ pending \in [Chats -> Seq(Updates)]
      /\ \A c \in Chats : Len(pending[c]) < MaxBatch
      /\ handed \in [Chats -> Seq(Updates)]
  BY <1>1, InboundAssumption DEF Init
<1>3. /\ confirmed \in 0 .. Len(log)
      /\ offset \in 0 .. Len(log) + 1
      /\ attempts \in 0 .. MaxAttempts
      /\ faults \in 0 .. MaxFaults
      /\ expiries \in 0 .. MaxExpiries
  BY <1>1, InboundAssumption DEF Init
<1>4. /\ loop \in [Loops -> LoopStates]
      /\ asked \in [Loops -> 0 .. Len(log) + 1]
      /\ answer \in [Loops -> SUBSET Sent]
      /\ downloads \in [Updates -> Nat]
      /\ \A m \in Updates : downloads[m] > 0 => m \in Sent
  BY <1>1 DEF Init, LoopStates
<1> QED
  BY <1>2, <1>3, <1>4 DEF Init, TypeOK

\* The parts of receive() keep the types of the batches.
LEMMA FlushTyped ==
  ASSUME TypeOK, NEW c \in Chats, Flush(c)
  PROVE  /\ pending' \in [Chats -> Seq(Updates)]
         /\ \A d \in Chats : Len(pending'[d]) < MaxBatch
         /\ handed' \in [Chats -> Seq(Updates)]
<1>1. handed[c] \o pending[c] \in Seq(Updates)
  BY Concat DEF TypeOK
<1>2. <<>> \in Seq(Updates) /\ Len(<<>>) = 0
  OBVIOUS
<1> QED
  BY <1>1, <1>2, InboundAssumption DEF TypeOK, Flush, HandOn

LEMMA PushTyped ==
  ASSUME TypeOK, NEW c \in Chats, NEW m \in Updates, Push(c, m)
  PROVE  /\ pending' \in [Chats -> Seq(Updates)]
         /\ \A d \in Chats : Len(pending'[d]) < MaxBatch
         /\ handed' \in [Chats -> Seq(Updates)]
<1> DEFINE batch == Append(pending[c], m)
<1>1. batch \in Seq(Updates) /\ Len(batch) \in Nat
  BY Appended DEF TypeOK
<1>2. handed[c] \o batch \in Seq(Updates)
  BY <1>1, Concat DEF TypeOK
<1>3. <<>> \in Seq(Updates) /\ Len(<<>>) = 0
  OBVIOUS
<1>4. CASE Len(batch) >= MaxBatch
  <2>1. pending' = [pending EXCEPT ![c] = <<>>] /\ handed' = [handed EXCEPT ![c] = @ \o batch]
    BY <1>4 DEF Push, HandOn
  <2> HIDE DEF batch
  <2> QED
    BY <2>1, <1>2, <1>3, InboundAssumption DEF TypeOK
<1>5. CASE ~(Len(batch) >= MaxBatch)
  <2>1. pending' = [pending EXCEPT ![c] = batch] /\ handed' = handed
    BY <1>5 DEF Push
  <2> HIDE DEF batch
  <2> QED
    BY <2>1, <1>1, <1>5, InboundAssumption DEF TypeOK
<1> QED
  BY <1>4, <1>5

\* A loop that leaves its request, or makes the next one.
LoopTyped == /\ loop \in [Loops -> LoopStates]
             /\ asked \in [Loops -> 0 .. Len(log) + 1]
             /\ answer \in [Loops -> SUBSET Sent]
             /\ abortable \subseteq {l \in Loops : loop[l] \in {"asking", "served"}}

LEMMA LeaveTyped ==
  ASSUME TypeOK, log' = log, NEW l \in Loops, NEW place \in LoopStates, Leave(l, place),
         abortable' = abortable \ {l}
  PROVE  LoopTyped'
<1>1. Len(log) \in Nat /\ 0 \in 0 .. Len(log) + 1
  BY DEF TypeOK
<1>2. loop' \in [Loops -> LoopStates] /\ asked' \in [Loops -> 0 .. Len(log) + 1]
  BY <1>1 DEF Leave, TypeOK
<1>3. answer' \in [Loops -> SUBSET Sent]
  BY DEF Leave, TypeOK
<1>4. abortable' \subseteq {k \in Loops : loop'[k] \in {"asking", "served"}}
  BY DEF Leave, TypeOK
<1> QED
  BY <1>2, <1>3, <1>4 DEF LoopTyped, Sent

LEMMA ResumeTyped ==
  ASSUME TypeOK, log' = log, offset' \in 0 .. Len(log) + 1, NEW l \in Loops, Resume(l)
  PROVE  LoopTyped'
<1>1. CASE polling'
  <2>1. loop' \in [Loops -> LoopStates] /\ asked' \in [Loops -> 0 .. Len(log) + 1]
    BY <1>1 DEF Resume, TypeOK, LoopStates
  <2>2. answer' \in [Loops -> SUBSET Sent]
    BY <1>1 DEF Resume, TypeOK
  <2>3. abortable' \subseteq {k \in Loops : loop'[k] \in {"asking", "served"}}
    BY <1>1 DEF Resume, TypeOK
  <2> QED
    BY <2>1, <2>2, <2>3 DEF LoopTyped, Sent
<1>2. CASE ~polling'
  BY <1>2, LeaveTyped DEF Resume, LoopStates
<1> QED
  BY <1>1, <1>2

\* Every step keeps the types; a step of the poll loop or of the Bot API leaves the batches
\* alone, a step of the batches the loop.
LEMMA NextTyped ==
  ASSUME TypeOK, [Next]_vars
  PROVE  TypeOK'
<1> USE InboundAssumption
<1>1. ASSUME NEW c \in Chats, NEW k \in Kinds, Send(c, k)
      PROVE  TypeOK'
  <2> DEFINE msg == [chat |-> c, kind |-> k]
  <2>1. msg \in Message
    BY DEF Message
  <2>2. log' \in Seq(Message) /\ Len(log') = Len(log) + 1
    BY <1>1, <2>1 DEF Send, TypeOK
  <2>3. Sent \subseteq Sent' /\ Len(log) \in Nat
    BY <2>2 DEF Sent, TypeOK
  <2> QED
    BY <1>1, <2>2, <2>3
    DEF Send, TypeOK, vars, pollVars, loopVars, batchVars, boundVars, historyVars
<1>2. ASSUME NEW l \in Loops, Serve(l)
      PROVE  TypeOK'
  <2>1. Len(log) \in Nat /\ confirmed' \in 0 .. Len(log)
    BY <1>2 DEF Serve, TypeOK
  <2>2. confirmed' + 1 .. Len(log) \subseteq Sent
    BY <2>1 DEF Sent
  <2>3. answer' \in [Loops -> SUBSET Sent] /\ asked' \in [Loops -> 0 .. Len(log) + 1]
    BY <1>2, <2>1, <2>2 DEF Serve, TypeOK
  <2>4. loop' \in [Loops -> LoopStates]
    BY <1>2 DEF Serve, TypeOK, LoopStates
  <2>5. abortable' \subseteq {k \in Loops : loop'[k] \in {"asking", "served"}}
    BY <1>2 DEF Serve, TypeOK
  <2> QED
    BY <1>2, <2>1, <2>3, <2>4, <2>5
    DEF Serve, TypeOK, Sent, batchVars, boundVars, historyVars
<1>3. ASSUME NEW l \in Loops, StartOk(l)
      PROVE  TypeOK'
  BY <1>3 DEF StartOk, TypeOK, Sent, LoopStates, serverVars, batchVars, boundVars, historyVars
<1>4. CASE StartFails
  BY <1>4 DEF StartFails, TypeOK, Sent, serverVars, loopVars, batchVars, boundVars, historyVars
<1>5. ASSUME NEW l \in Loops, Answered(l)
      PROVE  TypeOK'
  <2>1. LoopTyped'
    BY <1>5, ResumeTyped, LeaveTyped DEF Answered, TypeOK, LoopStates, serverVars
  <2>2. inbox' \subseteq Sent
    BY <1>5 DEF Answered, TypeOK
  <2> QED
    BY <1>5, <2>1, <2>2
    DEF Answered, LoopTyped, TypeOK, Sent, serverVars, batchVars, boundVars, historyVars
<1>6. ASSUME NEW l \in Loops, PollFails(l)
      PROVE  TypeOK'
  <2>1. LoopTyped'
    BY <1>6, LeaveTyped DEF PollFails, LoopStates, serverVars
  <2>2. attempts' \in 0 .. MaxAttempts /\ status' \in {"disconnected", "connected", "error"}
    BY <1>6 DEF PollFails, TypeOK
  <2> QED
    BY <1>6, <2>1, <2>2
    DEF PollFails, LoopTyped, TypeOK, Sent, serverVars, batchVars, boundVars, historyVars
<1>7. ASSUME NEW l \in Loops, SleepEnds(l)
      PROVE  TypeOK'
  <2>1. LoopTyped'
    BY <1>7, ResumeTyped DEF SleepEnds, TypeOK, serverVars
  <2> QED
    BY <1>7, <2>1
    DEF SleepEnds, LoopTyped, TypeOK, Sent, serverVars, batchVars, boundVars, historyVars
<1>8. ASSUME NEW l \in Loops, NEW m \in Updates, Handle(l, m)
      PROVE  TypeOK'
  <2>1. m \in Sent /\ Len(log) \in Nat /\ log[m] \in Message
    BY <1>8 DEF Handle, TypeOK, Sent
  <2>6. log[m].chat \in Chats /\ offset' \in 0 .. Len(log) + 1
    BY <1>8, <2>1 DEF Handle, Sent, Message
  <2>2. /\ pending' \in [Chats -> Seq(Updates)]
        /\ \A d \in Chats : Len(pending'[d]) < MaxBatch
        /\ handed' \in [Chats -> Seq(Updates)]
    BY <1>8, <2>6, FlushTyped, PushTyped DEF Handle, Receive, TypeOK, batchVars
  <2>3. /\ seen' \subseteq Sent
        /\ downloads' \in [Updates -> Nat]
        /\ \A n \in Updates : downloads'[n] > 0 => n \in Sent
    <3>1. seen' = seen \/ seen' = seen \cup {m}
      BY <1>8 DEF Handle, Receive, batchVars
    <3>2. downloads' = downloads \/ downloads' = [downloads EXCEPT ![m] = @ + 1]
      BY <1>8 DEF Handle, Receive, batchVars
    <3>3. /\ downloads' \in [Updates -> Nat]
          /\ \A n \in Updates : downloads'[n] > 0 => n \in Sent
      <4>1. CASE downloads' = downloads
        BY <4>1 DEF TypeOK
      <4>2. CASE downloads' = [downloads EXCEPT ![m] = @ + 1]
        <5>1. downloads[m] \in Nat
          BY DEF TypeOK
        <5> QED
          BY <2>1, <4>2, <5>1 DEF TypeOK
      <4> QED
        BY <3>2, <4>1, <4>2
    <3> QED
      BY <2>1, <3>1, <3>3 DEF TypeOK
  <2>4. LoopTyped'
    <3>1. CASE inbox' = {}
      BY <1>8, <2>6, <3>1, ResumeTyped DEF Handle, serverVars
    <3>2. CASE inbox' # {}
      BY <1>8, <3>2 DEF Handle, TypeOK, LoopTyped, Sent, serverVars, loopVars
    <3> QED
      BY <3>1, <3>2
  <2>5. inbox' \subseteq Sent
    BY <1>8 DEF Handle, TypeOK
  <2> QED
    BY <1>8, <2>6, <2>2, <2>3, <2>4, <2>5
    DEF Handle, TypeOK, LoopTyped, Sent, serverVars, boundVars, historyVars
<1>9. ASSUME NEW c \in Chats, FlushTimer(c)
      PROVE  TypeOK'
  <2>1. Flush(c)
    BY <1>9 DEF FlushTimer
  <2> QED
    BY <1>9, <2>1, FlushTyped
    DEF FlushTimer, TypeOK, Sent, serverVars, pollVars, loopVars, boundVars, historyVars
<1>10. ASSUME NEW m \in Updates, MediaReady(m)
       PROVE  TypeOK'
  <2>1. handed' \in [Chats -> Seq(Updates)]
    <3>1. <<m>> \in Seq(Updates)
      OBVIOUS
    <3>2. \A c \in Chats : handed[c] \o <<m>> \in Seq(Updates)
      BY <3>1, Concat DEF TypeOK
    <3> QED
      BY <1>10, <3>2 DEF MediaReady, HandOn, TypeOK
  <2>2. /\ downloads' \in [Updates -> Nat]
        /\ \A n \in Updates : downloads'[n] > 0 => n \in Sent
    BY <1>10 DEF MediaReady, TypeOK
  <2> QED
    BY <1>10, <2>1, <2>2
    DEF MediaReady, TypeOK, Sent, serverVars, pollVars, loopVars, boundVars, historyVars
<1>11. ASSUME NEW m \in Updates, MediaFails(m)
       PROVE  TypeOK'
  <2>1. /\ downloads' \in [Updates -> Nat]
        /\ \A n \in Updates : downloads'[n] > 0 => n \in Sent
    BY <1>11 DEF MediaFails, TypeOK
  <2> QED
    BY <1>11, <2>1
    DEF MediaFails, TypeOK, Sent, serverVars, pollVars, loopVars, boundVars, historyVars
<1>12. ASSUME NEW m \in Updates, Expire(m)
       PROVE  TypeOK'
  BY <1>12 DEF Expire, TypeOK, Sent, serverVars, pollVars, loopVars, boundVars, historyVars
<1>13. CASE Restart
  <2>1. /\ pending' \in [Chats -> Seq(Updates)]
        /\ \A c \in Chats : Len(pending'[c]) < MaxBatch
        /\ handed' \in [Chats -> Seq(Updates)]
    <3>1. <<>> \in Seq(Updates) /\ Len(<<>>) = 0
      OBVIOUS
    <3>2. \A c \in Chats : handed[c] \o pending[c] \in Seq(Updates)
      BY Concat DEF TypeOK
    <3> QED
      BY <1>13, <3>1, <3>2 DEF Restart
  <2>2. /\ downloads' \in [Updates -> Nat]
        /\ \A m \in Updates : downloads'[m] > 0 => m \in Sent
        /\ lost' \subseteq Sent
    BY <1>13 DEF Restart, TypeOK
  <2>3. LoopTyped'
    <3>1. Len(log) \in Nat /\ 0 \in 0 .. Len(log) + 1
      BY DEF TypeOK
    <3> QED
      BY <1>13, <3>1 DEF Restart, TypeOK, LoopTyped, LoopStates, Sent, serverVars
  <2>4. /\ log' = log /\ Sent' = Sent
        /\ starts' \in Nat
        /\ faults' \in 0 .. MaxFaults
        /\ UNCHANGED <<confirmed, offset, attempts, inbox, seen, expiries, forgotten>>
        /\ polling' = FALSE /\ status' = "disconnected"
    <3>1. /\ faults < MaxFaults /\ faults' = faults + 1
          /\ starts' = starts + 1 /\ polling' = FALSE /\ status' = "disconnected"
          /\ UNCHANGED <<serverVars, offset, attempts, inbox, seen, expiries, forgotten>>
      BY <1>13 DEF Restart
    <3> QED
      BY <3>1 DEF TypeOK, Sent, serverVars
  <2>5. overlapped' \in BOOLEAN
    BY <1>13 DEF Restart
  <2> QED
    BY <2>1, <2>2, <2>3, <2>4, <2>5 DEF TypeOK, LoopTyped
<1>14. CASE Crash
  <2>1. Len(log) \in Nat /\ <<>> \in Seq(Updates) /\ Len(<<>>) = 0
    BY DEF TypeOK
  <2>2. /\ pending' \in [Chats -> Seq(Updates)]
        /\ \A c \in Chats : Len(pending'[c]) < MaxBatch
        /\ downloads' \in [Updates -> Nat]
        /\ \A m \in Updates : downloads'[m] > 0 => m \in Sent
    BY <1>14, <2>1 DEF Crash
  <2>3. /\ log' = log /\ Sent' = Sent
        /\ offset' \in 0 .. Len(log) + 1
        /\ attempts' \in 0 .. MaxAttempts
        /\ faults' \in 0 .. MaxFaults
        /\ starts' = 1 /\ polling' = FALSE /\ overlapped' = FALSE /\ status' = "disconnected"
        /\ seen' = {}
        /\ UNCHANGED <<confirmed, inbox, handed, expiries>>
    BY <1>14, <2>1 DEF Crash, TypeOK, Sent, serverVars
  <2>4. LoopTyped'
    BY <1>14, <2>1, <2>3 DEF Crash, LoopTyped, LoopStates
  <2>5. lost' \subseteq Sent
    <3>1. 1 .. confirmed \subseteq Sent
      BY <2>1 DEF TypeOK, Sent
    <3> QED
      BY <1>14, <3>1 DEF Crash, TypeOK
  <2>6. forgotten' \subseteq Sent
    BY <1>14 DEF Crash, TypeOK
  <2> QED
    BY <2>2, <2>3, <2>4, <2>5, <2>6 DEF TypeOK, LoopTyped
<1>15. CASE UNCHANGED vars
  BY <1>15 DEF TypeOK, Sent, vars, serverVars, pollVars, loopVars, batchVars, boundVars,
               historyVars
<1> QED
  BY <1>1, <1>2, <1>3, <1>4, <1>5, <1>6, <1>7, <1>8, <1>9, <1>10, <1>11, <1>12, <1>13, <1>14,
     <1>15 DEF Next

----------------------------------------------------------------------------
(* The loops.                                                              *)

\* A step of the batches leaves the loops alone.
BatchStep == \/ \E c \in Chats : FlushTimer(c)
             \/ \E m \in Updates : MediaReady(m) \/ MediaFails(m) \/ Expire(m)

LEMMA BatchFrame ==
  ASSUME BatchStep
  PROVE  UNCHANGED <<serverVars, pollVars, overlapped>>
BY DEF BatchStep, FlushTimer, MediaReady, MediaFails, Expire, historyVars

\* Where the loops are after Resume and Leave.
LEMMA LeaveMoves ==
  ASSUME TypeOK, NEW l \in Loops, NEW place \in LoopStates, Leave(l, place)
  PROVE  \A k \in Loops : loop'[k] = IF k = l THEN place ELSE loop[k]
BY DEF Leave, TypeOK

LEMMA ResumeMoves ==
  ASSUME TypeOK, NEW l \in Loops, Resume(l)
  PROVE  \A k \in Loops : loop'[k] = IF k = l THEN IF polling' THEN "asking" ELSE "off"
                                              ELSE loop[k]
BY DEF Resume, Leave, TypeOK

\* The loop that goes through an answer is the only one, and has something left of it.
LEMMA NextHandling ==
  ASSUME TypeOK, HandlingInv, [Next]_vars
  PROVE  HandlingInv'
<1>1. ASSUME NEW c \in Chats, NEW k \in Kinds, Send(c, k)
      PROVE  HandlingInv'
  BY <1>1 DEF Send, HandlingInv, pollVars, loopVars
<1>2. ASSUME NEW l \in Loops, Serve(l)
      PROVE  HandlingInv'
  BY <1>2 DEF Serve, HandlingInv, TypeOK, Quiet
<1>3. ASSUME NEW l \in Loops, StartOk(l)
      PROVE  HandlingInv'
  BY <1>3 DEF StartOk, HandlingInv, TypeOK, Quiet
<1>4. CASE StartFails
  BY <1>4 DEF StartFails, HandlingInv, loopVars
<1>5. ASSUME NEW l \in Loops, Answered(l)
      PROVE  HandlingInv'
  BY <1>5, ResumeMoves, LeaveMoves DEF Answered, HandlingInv, Quiet, LoopStates
<1>6. ASSUME NEW l \in Loops, PollFails(l)
      PROVE  HandlingInv'
  <2>1. \E place \in {"off", "asleep"} : Leave(l, place)
    BY <1>6 DEF PollFails
  <2> QED
    BY <1>6, <2>1, LeaveMoves DEF PollFails, HandlingInv, Quiet, LoopStates
<1>7. ASSUME NEW l \in Loops, SleepEnds(l)
      PROVE  HandlingInv'
  BY <1>7, ResumeMoves DEF SleepEnds, HandlingInv, Quiet
<1>8. ASSUME NEW l \in Loops, NEW m \in Updates, Handle(l, m)
      PROVE  HandlingInv'
  <2>1. CASE inbox' = {}
    BY <1>8, <2>1, ResumeMoves DEF Handle, HandlingInv
  <2>2. CASE inbox' # {}
    BY <1>8, <2>2 DEF Handle, HandlingInv, loopVars
  <2> QED
    BY <2>1, <2>2
<1>9. CASE BatchStep
  BY <1>9, BatchFrame DEF HandlingInv, pollVars, loopVars
<1>10. CASE Restart
  BY <1>10 DEF Restart, HandlingInv, Quiet
<1>11. CASE Crash
  BY <1>11 DEF Crash, HandlingInv, Quiet
<1>12. CASE UNCHANGED vars
  BY <1>12 DEF HandlingInv, vars, pollVars, loopVars
<1> QED
  BY <1>1, <1>2, <1>3, <1>4, <1>5, <1>6, <1>7, <1>8, <1>9, <1>10, <1>11, <1>12
  DEF Next, BatchStep

\* One loop, unless a restart met a sleeping loop or another start().
LEMMA NextLoop ==
  ASSUME TypeOK, HandlingInv, LoopInv, [Next]_vars
  PROVE  LoopInv'
<1> SUFFICES ASSUME ~overlapped'
             PROVE  /\ \A k, l \in Live' : k = l
                    /\ \A l \in Loops : Waiting(l)' => l \in abortable'
                    /\ starts' > 0 => Live' = {}
                    /\ starts' <= 1
  BY DEF LoopInv
<1>1. ASSUME NEW c \in Chats, NEW k \in Kinds, Send(c, k)
      PROVE  LoopInv'
  BY <1>1 DEF Send, LoopInv, Live, Waiting, pollVars, loopVars, historyVars
<1>2. ASSUME NEW l \in Loops, Serve(l)
      PROVE  LoopInv'
  BY <1>2 DEF Serve, LoopInv, Live, Waiting, TypeOK, historyVars
<1>3. ASSUME NEW l \in Loops, StartOk(l)
      PROVE  LoopInv'
  BY <1>3 DEF StartOk, LoopInv, Live, Waiting, TypeOK, historyVars
<1>4. CASE StartFails
  BY <1>4 DEF StartFails, LoopInv, Live, Waiting, TypeOK, loopVars, historyVars
<1>5. ASSUME NEW l \in Loops, Answered(l)
      PROVE  LoopInv'
  <2>1. CASE Resume(l)
    BY <1>5, <2>1, ResumeMoves DEF Answered, Resume, LoopInv, Live, Waiting, historyVars
  <2>2. CASE Leave(l, "handling") /\ abortable' = abortable \ {l}
    BY <1>5, <2>2, LeaveMoves DEF Answered, LoopInv, Live, Waiting, LoopStates, historyVars
  <2> QED
    BY <1>5, <2>1, <2>2 DEF Answered
<1>6. ASSUME NEW l \in Loops, PollFails(l)
      PROVE  LoopInv'
  <2>1. \E place \in {"off", "asleep"} : Leave(l, place)
    BY <1>6 DEF PollFails
  <2> QED
    BY <1>6, <2>1, LeaveMoves DEF PollFails, LoopInv, Live, Waiting, LoopStates, historyVars
<1>7. ASSUME NEW l \in Loops, SleepEnds(l)
      PROVE  LoopInv'
  BY <1>7, ResumeMoves DEF SleepEnds, Resume, LoopInv, Live, Waiting, historyVars
<1>8. ASSUME NEW l \in Loops, NEW m \in Updates, Handle(l, m)
      PROVE  LoopInv'
  <2>1. CASE Resume(l)
    BY <1>8, <2>1, ResumeMoves DEF Handle, Resume, LoopInv, Live, Waiting, historyVars
  <2>2. CASE UNCHANGED loopVars
    BY <1>8, <2>2 DEF Handle, LoopInv, Live, Waiting, loopVars, historyVars
  <2> QED
    BY <1>8, <2>1, <2>2 DEF Handle
<1>9. CASE BatchStep
  BY <1>9, BatchFrame DEF LoopInv, Live, Waiting, pollVars, loopVars
<1>10. CASE Restart
  <2>1. ~overlapped /\ starts = 0 /\ \A l \in Loops : loop[l] # "asleep"
    <3>1. overlapped' = (overlapped \/ starts > 0 \/ \E l \in Loops : loop[l] = "asleep")
      BY <1>10 DEF Restart
    <3>2. ~overlapped /\ ~(starts > 0) /\ \A l \in Loops : loop[l] # "asleep"
      BY <3>1
    <3> QED
      BY <3>2 DEF TypeOK
  <2>2. \A l \in Live : l \in abortable
    BY <1>10, <2>1 DEF Restart, Quiet, HandlingInv, LoopInv, Live, Waiting, TypeOK, LoopStates
  <2>3. Live' = {}
    BY <1>10, <2>2 DEF Restart, Aborted, Live
  <2>4. starts' = starts + 1
    BY <1>10 DEF Restart
  <2>5. starts' <= 1
    BY <2>1, <2>4
  <2> QED
    BY <2>3, <2>5 DEF LoopInv, Live, Waiting
<1>11. CASE Crash
  BY <1>11 DEF Crash, LoopInv, Live, Waiting
<1>12. CASE UNCHANGED vars
  BY <1>12 DEF LoopInv, Live, Waiting, vars, pollVars, loopVars, historyVars
<1> QED
  BY <1>1, <1>2, <1>3, <1>4, <1>5, <1>6, <1>7, <1>8, <1>9, <1>10, <1>11, <1>12
  DEF Next, BatchStep, LoopInv

\* An adapter whose loops all ended used up its attempts and says so.
LEMMA NextDeaf ==
  ASSUME TypeOK, HandlingInv, DeafIsReported, [Next]_vars
  PROVE  DeafIsReported'
<1>1. ASSUME NEW c \in Chats, NEW k \in Kinds, Send(c, k)
      PROVE  DeafIsReported'
  BY <1>1 DEF Send, DeafIsReported, Live, pollVars, loopVars
<1>2. ASSUME NEW l \in Loops, Serve(l)
      PROVE  DeafIsReported'
  BY <1>2 DEF Serve, DeafIsReported, Live, TypeOK
<1>3. ASSUME NEW l \in Loops, StartOk(l)
      PROVE  DeafIsReported'
  BY <1>3 DEF StartOk, DeafIsReported, Live, TypeOK
<1>4. CASE StartFails
  BY <1>4 DEF StartFails, DeafIsReported, Live, loopVars
<1>5. ASSUME NEW l \in Loops, Answered(l)
      PROVE  DeafIsReported'
  BY <1>5, ResumeMoves, LeaveMoves DEF Answered, DeafIsReported, Live, LoopStates
<1>6. ASSUME NEW l \in Loops, PollFails(l)
      PROVE  DeafIsReported'
  BY <1>6, LeaveMoves DEF PollFails, DeafIsReported, Live, LoopStates
<1>7. ASSUME NEW l \in Loops, SleepEnds(l)
      PROVE  DeafIsReported'
  BY <1>7, ResumeMoves DEF SleepEnds, DeafIsReported, Live
<1>8. ASSUME NEW l \in Loops, NEW m \in Updates, Handle(l, m)
      PROVE  DeafIsReported'
  <2>1. CASE Resume(l)
    BY <1>8, <2>1, ResumeMoves DEF Handle, DeafIsReported, Live
  <2>2. CASE UNCHANGED loopVars
    BY <1>8, <2>2 DEF Handle, DeafIsReported, Live, loopVars
  <2> QED
    BY <1>8, <2>1, <2>2 DEF Handle
<1>9. CASE BatchStep
  BY <1>9, BatchFrame DEF DeafIsReported, Live, pollVars, loopVars
<1>10. CASE Restart
  BY <1>10 DEF Restart, DeafIsReported
<1>11. CASE Crash
  BY <1>11 DEF Crash, DeafIsReported
<1>12. CASE UNCHANGED vars
  BY <1>12 DEF DeafIsReported, Live, vars, pollVars, loopVars
<1> QED
  BY <1>1, <1>2, <1>3, <1>4, <1>5, <1>6, <1>7, <1>8, <1>9, <1>10, <1>11, <1>12
  DEF Next, BatchStep

----------------------------------------------------------------------------
(* What becomes of the messages.                                           *)

\* What was accounted for stays so while messages move from the batches to the pipeline.
LEMMA StaysAccounted ==
  ASSUME NEW m, Accounted(m), log'[m] = log[m],
         lost \subseteq lost',
         HandedOn(m) => HandedOn(m)',
         In(m, pending[log[m].chat]) => In(m, pending'[log[m].chat]) \/ HandedOn(m)',
         downloads[m] > 0 => downloads'[m] > 0 \/ HandedOn(m)' \/ m \in lost'
  PROVE  Accounted(m)'
BY DEF Accounted

\* The loops and the Bot API change nothing that a message is accounted for by.
LEMMA FrameAccounted ==
  ASSUME NEW m, Accounted(m), UNCHANGED <<log, batchVars, lost>>
  PROVE  Accounted(m)'
BY DEF Accounted, HandedOn, batchVars

\* The chat of a message that was sent.
LEMMA ChatTyped ==
  ASSUME TypeOK, NEW m \in Sent
  PROVE  log[m].chat \in Chats
<1>1. log[m] \in Message
  BY DEF TypeOK, Sent
<1> QED
  BY <1>1 DEF Message

\* Handing on a batch loses none of what was handed on, and hands on the batch.
LEMMA HandsOn ==
  ASSUME TypeOK, NEW c \in Chats, NEW batch \in Seq(Updates), HandOn(c, batch), log' = log,
         NEW m \in Sent
  PROVE  /\ HandedOn(m) => HandedOn(m)'
         /\ log[m].chat = c /\ In(m, batch) => HandedOn(m)'
<1>1. log[m].chat \in Chats
  BY ChatTyped
<1>2. \A n : In(n, handed[c] \o batch) <=> In(n, handed[c]) \/ In(n, batch)
  BY Concat DEF TypeOK
<1>3. handed'[log[m].chat] = IF log[m].chat = c THEN handed[c] \o batch
                                                ELSE handed[log[m].chat]
  BY <1>1 DEF HandOn, TypeOK
<1> QED
  BY <1>2, <1>3 DEF HandedOn

\* A flush moves what a chat has buffered, and no other chat's.
LEMMA Flushes ==
  ASSUME TypeOK, NEW c \in Chats, Flush(c), log' = log, NEW m \in Sent
  PROVE  /\ HandedOn(m) => HandedOn(m)'
         /\ In(m, pending[log[m].chat]) => In(m, pending'[log[m].chat]) \/ HandedOn(m)'
<1>1. log[m].chat \in Chats /\ pending[c] \in Seq(Updates)
  BY ChatTyped DEF TypeOK
<1>2. HandOn(c, pending[c])
  BY DEF Flush
<1>3. log[m].chat # c => pending'[log[m].chat] = pending[log[m].chat]
  BY <1>1 DEF Flush, TypeOK
<1> QED
  BY <1>1, <1>2, <1>3, HandsOn

\* A push buffers or hands on the message, and keeps the batch it joins.
LEMMA Pushes ==
  ASSUME TypeOK, NEW c \in Chats, NEW n \in Updates, Push(c, n), log' = log, NEW m \in Sent
  PROVE  /\ HandedOn(m) => HandedOn(m)'
         /\ In(m, pending[log[m].chat]) => In(m, pending'[log[m].chat]) \/ HandedOn(m)'
         /\ m = n /\ log[m].chat = c => In(m, pending'[log[m].chat]) \/ HandedOn(m)'
<1> DEFINE batch == Append(pending[c], n)
<1>1. log[m].chat \in Chats /\ pending[c] \in Seq(Updates)
  BY ChatTyped DEF TypeOK
<1>2. /\ batch \in Seq(Updates)
      /\ In(n, batch)
      /\ \A k : In(k, pending[c]) => In(k, batch)
  BY <1>1, Appended
<1>3. \/ pending' = [pending EXCEPT ![c] = <<>>] /\ HandOn(c, batch)
      \/ pending' = [pending EXCEPT ![c] = batch] /\ handed' = handed
  BY DEF Push
<1> HIDE DEF batch
<1>4. log[m].chat # c => pending'[log[m].chat] = pending[log[m].chat]
  BY <1>1, <1>3 DEF TypeOK
<1>5. CASE pending' = [pending EXCEPT ![c] = <<>>] /\ HandOn(c, batch)
  BY <1>2, <1>4, <1>5, HandsOn
<1>6. CASE pending' = [pending EXCEPT ![c] = batch] /\ handed' = handed
  <2>1. pending'[c] = batch
    BY <1>6 DEF TypeOK
  <2> QED
    BY <1>2, <1>4, <1>6, <2>1 DEF HandedOn
<1> QED
  BY <1>3, <1>5, <1>6

\* A request passes what the offset has passed, and leaving one passes nothing.
Fetched(m) == \E l \in Loops : m < asked[l] \/ Behind(m, answer[l])

LEMMA LeaveFetched ==
  ASSUME TypeOK, NEW l \in Loops, NEW place, Leave(l, place), NEW m \in Sent, Fetched(m)'
  PROVE  Fetched(m)
<1>1. \A k \in Loops : /\ asked'[k] = IF k = l THEN 0 ELSE asked[k]
                       /\ answer'[k] = IF k = l THEN {} ELSE answer[k]
  BY DEF Leave, TypeOK
<1>2. ~(m < 0) /\ ~Behind(m, {})
  BY DEF Sent, TypeOK, Behind
<1> QED
  BY <1>1, <1>2 DEF Fetched

LEMMA ResumeFetched ==
  ASSUME TypeOK, NEW l \in Loops, Resume(l), NEW m \in Sent, Fetched(m)'
  PROVE  Fetched(m) \/ m < offset'
<1>1. CASE polling'
  <2>1. \A k \in Loops : /\ asked'[k] = IF k = l THEN offset' ELSE asked[k]
                         /\ answer'[k] = IF k = l THEN {} ELSE answer[k]
    BY <1>1 DEF Resume, TypeOK
  <2>2. ~Behind(m, {})
    BY DEF Behind
  <2> QED
    BY <2>1, <2>2 DEF Fetched
<1>2. CASE ~polling'
  BY <1>2, LeaveFetched DEF Resume
<1> QED
  BY <1>1, <1>2

\* Everything that was passed stays accounted for, and nothing is passed that is not.
LEMMA NextPassed ==
  ASSUME TypeOK, HandlingInv, PassedInv, [Next]_vars
  PROVE  PassedInv'
<1>1. ASSUME NEW c \in Chats, NEW k \in Kinds, Send(c, k)
      PROVE  PassedInv'
  <2>1. /\ Len(log) \in Nat /\ Len(log') = Len(log) + 1
        /\ \A m \in Sent : log'[m] = log[m]
    BY <1>1 DEF Send, TypeOK, Sent
  <2>2. ASSUME NEW m \in Sent', Passed(m)'
        PROVE  m \in Sent /\ Passed(m)
    <3>1. Passed(m)
      BY <1>1, <2>2 DEF Send, Passed, Behind, pollVars, loopVars, batchVars
    <3>2. m \in 1 .. Len(log) + 1
      BY <2>1, <2>2 DEF Sent
    <3>3. ~Passed(Len(log) + 1)
      BY <2>1 DEF Passed, Behind, TypeOK, Sent
    <3> QED
      BY <2>1, <3>1, <3>2, <3>3 DEF Sent
  <2>3. ASSUME NEW m \in Sent, Accounted(m)
        PROVE  Accounted(m)'
    BY <1>1, <2>1, <2>3 DEF Send, Accounted, HandedOn, batchVars, historyVars
  <2> QED
    BY <2>2, <2>3 DEF PassedInv
<1>2. ASSUME NEW l \in Loops, Serve(l)
      PROVE  PassedInv'
  <2>1. /\ Len(log) \in Nat /\ confirmed \in Nat /\ asked[l] \in Nat
        /\ UNCHANGED <<log, offset, seen, inbox>>
        /\ \A k \in Loops : asked'[k] = IF k = l THEN 0 ELSE asked[k]
        /\ \A k \in Loops : answer'[k] = IF k = l THEN confirmed' + 1 .. Len(log) ELSE answer[k]
        /\ confirmed' = IF asked[l] > confirmed + 1 THEN asked[l] - 1 ELSE confirmed
    BY <1>2 DEF Serve, TypeOK, batchVars
  <2>2. ASSUME NEW m \in Sent, Passed(m)'
        PROVE  Passed(m)
    <3>1. m \in Nat /\ m \in 1 .. Len(log)
      BY <2>1 DEF Sent
    <3>2. m <= confirmed' => m <= confirmed \/ m < asked[l]
      BY <2>1, <3>1
    <3>3. Behind(m, confirmed' + 1 .. Len(log)) => m <= confirmed'
      BY <2>1, <3>1 DEF Behind
    <3> QED
      BY <2>1, <2>2, <3>1, <3>2, <3>3 DEF Passed
  <2> QED
    BY <1>2, <2>1, <2>2, FrameAccounted DEF Serve, PassedInv, Sent, historyVars
<1>3. ASSUME NEW l \in Loops, StartOk(l)
      PROVE  PassedInv'
  <2>1. ASSUME NEW m \in Sent, Passed(m)'
        PROVE  Passed(m)
    BY <1>3, <2>1 DEF StartOk, Passed, TypeOK, serverVars, batchVars
  <2> QED
    BY <1>3, <2>1, FrameAccounted DEF StartOk, PassedInv, Sent, serverVars, historyVars
<1>4. CASE StartFails
  BY <1>4, FrameAccounted DEF StartFails, PassedInv, Passed, Sent, serverVars, loopVars,
                              batchVars, historyVars
<1>5. ASSUME NEW l \in Loops, Answered(l)
      PROVE  PassedInv'
  <2>1. ASSUME NEW m \in Sent, Passed(m)'
        PROVE  Passed(m)
    <3>1. UNCHANGED <<offset, confirmed, seen>> /\ inbox' = answer[l]
      BY <1>5 DEF Answered, serverVars, batchVars
    <3>2. Fetched(m)' => Fetched(m) \/ m < offset
      BY <1>5, <3>1, ResumeFetched, LeaveFetched DEF Answered
    <3> QED
      BY <2>1, <3>1, <3>2 DEF Passed, Fetched
  <2> QED
    BY <1>5, <2>1, FrameAccounted DEF Answered, PassedInv, Sent, serverVars, historyVars
<1>6. ASSUME NEW l \in Loops, PollFails(l)
      PROVE  PassedInv'
  <2>1. ASSUME NEW m \in Sent, Passed(m)'
        PROVE  Passed(m)
    <3>1. UNCHANGED <<offset, confirmed, seen, inbox>>
      BY <1>6 DEF PollFails, serverVars, batchVars
    <3>2. \E place \in {"off", "asleep"} : Leave(l, place)
      BY <1>6 DEF PollFails
    <3>3. Fetched(m)' => Fetched(m)
      BY <3>2, LeaveFetched
    <3> QED
      BY <2>1, <3>1, <3>3 DEF Passed, Fetched
  <2> QED
    BY <1>6, <2>1, FrameAccounted DEF PollFails, PassedInv, Sent, serverVars, historyVars
<1>7. ASSUME NEW l \in Loops, SleepEnds(l)
      PROVE  PassedInv'
  <2>1. ASSUME NEW m \in Sent, Passed(m)'
        PROVE  Passed(m)
    <3>1. UNCHANGED <<offset, confirmed, seen, inbox>>
      BY <1>7 DEF SleepEnds, serverVars, batchVars
    <3>2. Fetched(m)' => Fetched(m) \/ m < offset
      BY <1>7, <3>1, ResumeFetched DEF SleepEnds
    <3> QED
      BY <2>1, <3>1, <3>2 DEF Passed, Fetched
  <2> QED
    BY <1>7, <2>1, FrameAccounted DEF SleepEnds, PassedInv, Sent, serverVars, historyVars
<1>8. ASSUME NEW l \in Loops, NEW n \in Updates, Handle(l, n)
      PROVE  PassedInv'
  <2>1. /\ UNCHANGED <<log, confirmed, lost>>
        /\ n \in inbox /\ inbox' = inbox \ {n} /\ offset' = n + 1
        /\ \A k \in inbox : n <= k
    BY <1>8 DEF Handle, serverVars, historyVars
  <2>2. n \in Sent /\ log[n].chat \in Chats
    BY <2>1, ChatTyped DEF TypeOK
  <2>3. ASSUME NEW m \in Sent, Accounted(m)
        PROVE  Accounted(m)'
    <3>1. /\ HandedOn(m) => HandedOn(m)'
          /\ In(m, pending[log[m].chat]) => In(m, pending'[log[m].chat]) \/ HandedOn(m)'
      BY <1>8, <2>1, <2>2, Flushes, Pushes DEF Handle, Receive, HandedOn, batchVars
    <3>2. downloads[m] > 0 => downloads'[m] > 0
      <4>1. downloads' = downloads \/ downloads' = [downloads EXCEPT ![n] = @ + 1]
        BY <1>8 DEF Handle, Receive, batchVars
      <4>2. m \in Updates /\ downloads[m] \in Nat
        BY InboundAssumption DEF TypeOK, Sent, Updates
      <4>3. CASE downloads' = [downloads EXCEPT ![n] = @ + 1]
        <5>1. downloads'[m] = IF m = n THEN downloads[m] + 1 ELSE downloads[m]
          BY <4>2, <4>3 DEF TypeOK
        <5> QED
          BY <4>2, <5>1
      <4> QED
        BY <4>1, <4>3
    <3> QED
      BY <2>1, <2>3, <3>1, <3>2, StaysAccounted
  <2>4. Accounted(n)'
    <3>1. CASE log[n].kind = "other"
      BY <2>1, <3>1 DEF Accounted
    <3>2. CASE n \in seen
      BY <2>2, <2>3, <3>2 DEF PassedInv, Passed
    <3>3. CASE log[n].kind = "text" /\ n \notin seen
      <4>1. Push(log[n].chat, n)
        BY <1>8, <3>3 DEF Handle, Receive, Duplicate
      <4> QED
        BY <2>1, <2>2, <4>1, Pushes DEF Accounted
    <3>4. CASE log[n].kind = "media" /\ n \notin seen
      <4>1. downloads' = [downloads EXCEPT ![n] = @ + 1]
        BY <1>8, <3>4 DEF Handle, Receive, Duplicate
      <4>2. downloads'[n] > 0
        <5>1. downloads[n] \in Nat
          BY DEF TypeOK
        <5> QED
          BY <4>1, <5>1 DEF TypeOK
      <4> QED
        BY <4>2 DEF Accounted
    <3> QED
      BY <1>8, <3>1, <3>2, <3>3, <3>4 DEF Handle, Receive, Duplicate
  <2>5. ASSUME NEW m \in Sent, Passed(m)', m # n
        PROVE  Passed(m)
    <3>1. seen' \subseteq seen \cup {n}
      BY <1>8 DEF Handle, Receive, batchVars
    <3>2. m \in Int /\ n \in Int
      BY DEF Sent, Updates
    <3>3. Fetched(m)' => Fetched(m) \/ m < offset'
      BY <1>8, ResumeFetched DEF Handle, Fetched, loopVars
    <3>4. m < offset' => Behind(m, inbox)
      BY <2>1, <2>5, <3>2 DEF Behind
    <3>5. Behind(m, inbox') => Behind(m, inbox)
      BY <2>1, <2>5 DEF Behind
    <3> QED
      BY <2>1, <2>5, <3>1, <3>3, <3>4, <3>5 DEF Passed, Fetched
  <2> QED
    BY <2>1, <2>3, <2>4, <2>5 DEF PassedInv, Sent
<1>9. ASSUME UNCHANGED <<serverVars, pollVars>>, seen' \subseteq seen,
             \A m \in Sent : Accounted(m) => Accounted(m)'
      PROVE  PassedInv'
  BY <1>9 DEF PassedInv, Passed, Sent, serverVars, pollVars, loopVars
<1>10. ASSUME NEW c \in Chats, FlushTimer(c)
       PROVE  PassedInv'
  <2>1. ASSUME NEW m \in Sent, Accounted(m)
        PROVE  Accounted(m)'
    BY <1>10, <2>1, Flushes, StaysAccounted DEF FlushTimer, serverVars, historyVars
  <2> QED
    BY <1>9, <1>10, <2>1 DEF FlushTimer
<1>11. ASSUME NEW n \in Updates, MediaReady(n)
       PROVE  PassedInv'
  <2>1. log' = log /\ n \in Sent /\ <<n>> \in Seq(Updates) /\ In(n, <<n>>)
    BY <1>11 DEF MediaReady, TypeOK, serverVars, In
  <2>2. log[n].chat \in Chats
    BY <2>1, ChatTyped
  <2>3. ASSUME NEW m \in Sent, Accounted(m)
        PROVE  Accounted(m)'
    <3>1. HandedOn(m) => HandedOn(m)'
      BY <1>11, <2>1, <2>2, HandsOn DEF MediaReady
    <3>2. m = n => HandedOn(m)'
      BY <1>11, <2>1, <2>2, HandsOn DEF MediaReady
    <3>3. m # n => downloads'[m] = downloads[m]
      BY <1>11 DEF MediaReady, TypeOK, Sent, Updates
    <3> QED
      BY <1>11, <2>1, <2>3, <3>1, <3>2, <3>3, StaysAccounted DEF MediaReady, historyVars
  <2> QED
    BY <1>9, <1>11, <2>3 DEF MediaReady
<1>12. ASSUME NEW n \in Updates, MediaFails(n)
       PROVE  PassedInv'
  <2>1. ASSUME NEW m \in Sent, Accounted(m)
        PROVE  Accounted(m)'
    <3>1. m # n => downloads'[m] = downloads[m]
      BY <1>12 DEF MediaFails, TypeOK, Sent, Updates
    <3> QED
      BY <1>12, <2>1, <3>1, StaysAccounted DEF MediaFails, HandedOn, serverVars
  <2> QED
    BY <1>9, <1>12, <2>1 DEF MediaFails
<1>13. ASSUME NEW n \in Updates, Expire(n)
       PROVE  PassedInv'
  <2>1. ASSUME NEW m \in Sent, Accounted(m)
        PROVE  Accounted(m)'
    BY <1>13, <2>1, StaysAccounted DEF Expire, HandedOn, serverVars
  <2> QED
    BY <1>9, <1>13, <2>1 DEF Expire
<1>14. CASE Restart
  <2>1. /\ UNCHANGED <<log, confirmed, offset, seen, inbox>>
        /\ handed' = [c \in Chats |-> handed[c] \o pending[c]]
        /\ \A k \in Loops : /\ asked'[k] = IF k \in Aborted THEN 0 ELSE asked[k]
                            /\ answer'[k] = IF k \in Aborted THEN {} ELSE answer[k]
    BY <1>14 DEF Restart, serverVars
  <2>2. ASSUME NEW m \in Sent, Passed(m)'
        PROVE  Passed(m)
    <3>1. ~(m < 0) /\ ~Behind(m, {})
      BY DEF Sent, TypeOK, Behind
    <3> QED
      BY <2>1, <2>2, <3>1 DEF Passed
  <2>3. ASSUME NEW m \in Sent, Accounted(m)
        PROVE  Accounted(m)'
    <3>1. log[m].chat \in Chats
      BY ChatTyped
    <3>2. /\ HandedOn(m) => HandedOn(m)'
          /\ In(m, pending[log[m].chat]) => HandedOn(m)'
      <4>1. /\ handed[log[m].chat] \in Seq(Updates) /\ pending[log[m].chat] \in Seq(Updates)
            /\ handed'[log[m].chat] = handed[log[m].chat] \o pending[log[m].chat]
        BY <2>1, <3>1 DEF TypeOK
      <4>2. \A n : In(n, handed[log[m].chat] \o pending[log[m].chat])
                    <=> In(n, handed[log[m].chat]) \/ In(n, pending[log[m].chat])
        BY <4>1, Concat
      <4>3. log'[m] = log[m]
        BY <2>1
      <4> QED
        BY <4>1, <4>2, <4>3 DEF HandedOn
    <3>3. /\ lost \subseteq lost'
          /\ downloads[m] > 0 => downloads'[m] > 0 \/ m \in lost'
      <4>1. m \in Updates
        BY InboundAssumption DEF TypeOK, Sent, Updates
      <4>2. PICK failed \in SUBSET {n \in Updates : downloads[n] > 0} :
              /\ downloads' = [n \in Updates |-> IF n \in failed THEN 0 ELSE downloads[n]]
              /\ lost' = lost \cup failed
        BY <1>14 DEF Restart
      <4> QED
        BY <4>1, <4>2
    <3> QED
      BY <2>1, <2>3, <3>2, <3>3, StaysAccounted
  <2> QED
    BY <2>1, <2>2, <2>3 DEF PassedInv, Sent
<1>15. CASE Crash
  <2>1. /\ UNCHANGED <<log, confirmed, inbox, handed>> /\ inbox = {}
        /\ offset' = 0 /\ seen' = {}
        /\ \A k \in Loops : asked'[k] = 0 /\ answer'[k] = {}
        /\ lost' = lost \cup {m \in 1 .. confirmed : \/ downloads[m] > 0
                                                     \/ In(m, pending[log[m].chat])}
    BY <1>15 DEF Crash, Quiet, serverVars
  <2>2. ASSUME NEW m \in Sent, Passed(m)'
        PROVE  m \in 1 .. confirmed
    <3>1. ~(m < 0) /\ ~Behind(m, {})
      BY DEF Sent, TypeOK, Behind
    <3>2. m <= confirmed
      BY <2>1, <2>2, <3>1 DEF Passed
    <3> QED
      BY <3>2 DEF Sent, TypeOK
  <2>3. ASSUME NEW m \in Sent, m \in 1 .. confirmed
        PROVE  Accounted(m)'
    <3>1. Accounted(m)
      BY <2>3 DEF PassedInv, Passed
    <3> QED
      BY <2>1, <2>3, <3>1 DEF Accounted, HandedOn
  <2> QED
    BY <2>1, <2>2, <2>3 DEF PassedInv, Sent
<1>16. CASE UNCHANGED vars
  BY <1>9, <1>16, FrameAccounted DEF vars, batchVars, historyVars, serverVars
<1> QED
  BY <1>1, <1>2, <1>3, <1>4, <1>5, <1>6, <1>7, <1>8, <1>10, <1>11, <1>12, <1>13, <1>14, <1>15,
     <1>16 DEF Next

----------------------------------------------------------------------------
(* The theorems.                                                           *)

LEMMA InitInv ==
  ASSUME Init
  PROVE  IInv
<1>1. TypeOK
  BY InitTyped
<1>2. HandlingInv /\ LoopInv /\ DeafIsReported
  BY DEF Init, HandlingInv, LoopInv, DeafIsReported, Live, Waiting
<1>3. PassedInv
  BY DEF Init, PassedInv, Sent
<1> QED
  BY <1>1, <1>2, <1>3 DEF IInv

\* IInv is an invariant: types, the place of the loops, and where the messages are.
THEOREM Invariance == Spec => []IInv
<1>1. IInv /\ [Next]_vars => IInv'
  BY NextTyped, NextHandling, NextLoop, NextDeaf, NextPassed DEF IInv
<1> QED
  BY InitInv, <1>1, PTL DEF Spec

\* Every variable of the adapter, of the Bot API and of the batches has its type, and a
\* batch in the debouncer is never full.
THEOREM TypeCorrect == Spec => []TypeOK
<1>1. IInv => TypeOK
  BY DEF IInv
<1> QED
  BY Invariance, <1>1, PTL

\* However often an adapter is restarted, one poll loop is left, unless a restart came
\* during a backoff sleep or during another restart.
THEOREM OneLoopPolls == Spec => []OneLoop
<1>1. IInv => OneLoop
  BY DEF IInv, LoopInv, OneLoop
<1> QED
  BY Invariance, <1>1, PTL

\* An adapter that should poll and has no loop used up its attempts and reports an error.
THEOREM DeafnessIsReported == Spec => []DeafIsReported
<1>1. IInv => DeafIsReported
  BY DEF IInv
<1> QED
  BY Invariance, <1>1, PTL

\* No message that the offset has passed or the server has dropped falls through: restarts,
\* lost answers, competing loops and crashes lose only what `lost` names.
THEOREM NothingFallsThrough == Spec => []Conserved
<1>1. IInv => Conserved
  BY DEF IInv, PassedInv, Passed, Conserved
<1> QED
  BY Invariance, <1>1, PTL


-----------------------------------------------------------------------------
(* Delegation, the other part of the run                                    *)

(* Instances that have registered their methods, now or before.             *)
Started == {g \in Gens : g < gen \/ (g = gen /\ init \in {"up", "released"})}

(* Only such an instance serves calls and makes sessions; the methods go    *)
(* with dispose().                                                          *)
ServedInv ==
    /\ "agent.execute" \in methods => init = "up"
    /\ init = "released" => gen + 1 \in Gens
    /\ \A k \in Keys : stage[k] # "free" => by[k] \in Started
    /\ \A o \in A!Objects : made[o] # None => o[1] \in Started

(* A prompt has its run, and a run of the session that the last call was    *)
(* given has that call waiting, or timed out.                               *)
PromptInv ==
    \A k \in Keys :
        /\ stage[k] = "prompting" => A!Object(k) \in run
        /\ A!Object(k) \in run => stage[k] \in {"prompting", "timedOut"}

(* A subagent is called once, by a run that ends only after the call has    *)
(* settled; it times out only after the subagent that it works for.         *)
SubagentInv ==
    \A d \in Keys : A!IsSubagent(d) =>
        /\ \A g \in Gens : made[<<g, d>>] # None => stage[d] # "free" /\ g = by[d]
        /\ stage[d] # "free" => owner[d] \in A!Objects /\ owner[d][2] = A!Parent(d)
        /\ stage[d] \notin A!Settled => owner[d] \in run
        /\ stage[d] = "timedOut" /\ A!IsSubagent(A!Parent(d)) => stage[A!Parent(d)] = "timedOut"

FileOf(k) == IF A!IsSubagent(k) THEN "subagent" ELSE "channel"

(* The exceptions of WhitelistKept.                                         *)
Kept(k, g, tools) ==
    \/ tools \subseteq Strict[FileOf(k)]
    \/ FileOf(k) \in lax
    \/ FileOf(k) = "channel" /\ g \notin known

(* A file that was a whitelist all along is one now; and what a session is  *)
(* made with was gathered from it.                                          *)
ToolsInv ==
    /\ \A f \in A!Files \ lax : persona[f] = "strict"
    /\ "channel" \notin lax => default # "missing"
    /\ \A k \in Keys : stage[k] \in {"ensuring", "copying", "reading"} => ~A!IsSubagent(k)
    /\ \A k \in Keys : stage[k] = "copying" => "channel" \in lax
    /\ \A k \in Keys : stage[k] = "building" => Kept(k, by[k], toolset[k])
    /\ \A o \in A!Objects : made[o] # None => Kept(o[2], o[1], made[o])

(* Of a chat that no dispose() found in the making, only the present        *)
(* instance has a session, and none once it was released.                   *)
LiveInv ==
    /\ run \subseteq cached \cup disposed
    /\ \A o \in cached : o[2] \notin crossed => o[1] = gen /\ init # "released"
    /\ \A k \in Keys \ crossed : stage[k] \in A!Creating => by[k] = gen /\ init # "released"

DelegationInv == A!TypeOK /\ ServedInv /\ PromptInv /\ SubagentInv /\ ToolsInv /\ LiveInv

-----------------------------------------------------------------------------
LEMMA AgentFacts ==
  /\ Gens \subseteq Nat \ {0} /\ 1 \in Gens /\ MaxEdits \in Nat /\ "agent.execute" \in Tools
  /\ Strict["channel"] \subseteq Tools /\ Strict["subagent"] \subseteq Tools
  /\ \A k \in Keys : A!IsSubagent(k) => A!Parent(k) \in Keys
  BY AgentAssumption DEF A!DelegationAssumption, A!IsSubagent, A!Parent

LEMMA NoneIsNoToolset == ASSUME NEW S \in SUBSET Tools PROVE S # None
  BY AgentAssumption DEF A!DelegationAssumption

LEMMA ReadConfigCorrect ==
  ASSUME DelegationInv, A!ReadConfig
  PROVE  DelegationInv'
  <1>1. A!TypeOK'
    BY AgentFacts DEF DelegationInv, A!TypeOK, A!ReadConfig, A!fileVars, A!objVars, A!callVars
  <1>2. ServedInv'
    BY AgentFacts DEF DelegationInv, ServedInv, Started, A!ReadConfig, A!objVars, A!callVars
  <1>3. PromptInv'
    BY AgentFacts DEF DelegationInv, A!Object, PromptInv, A!ReadConfig, A!objVars, A!callVars
  <1>4. SubagentInv'
    BY AgentFacts DEF DelegationInv, SubagentInv, A!ReadConfig, A!objVars, A!callVars
  <1>5. ToolsInv'
    BY AgentFacts
    DEF DelegationInv, A!TypeOK, ToolsInv, Kept, ServedInv, Started, A!ReadConfig, A!fileVars,
        A!objVars, A!callVars
  <1>6. LiveInv'
    BY AgentFacts DEF DelegationInv, LiveInv, A!ReadConfig, A!objVars, A!callVars
  <1> QED BY <1>1, <1>2, <1>3, <1>4, <1>5, <1>6 DEF DelegationInv

LEMMA RegisterMethodsCorrect ==
  ASSUME DelegationInv, A!RegisterMethods
  PROVE  DelegationInv'
  <1>1. A!TypeOK'
    BY AgentFacts DEF DelegationInv, A!TypeOK, A!RegisterMethods, A!fileVars, A!objVars, A!callVars
  <1>2. ServedInv'
    BY AgentFacts DEF DelegationInv, ServedInv, Started, A!RegisterMethods, A!objVars, A!callVars
  <1>3. PromptInv'
    BY AgentFacts DEF DelegationInv, A!Object, PromptInv, A!RegisterMethods, A!objVars, A!callVars
  <1>4. SubagentInv'
    BY AgentFacts DEF DelegationInv, SubagentInv, A!RegisterMethods, A!objVars, A!callVars
  <1>5. ToolsInv'
    BY AgentFacts
    DEF DelegationInv, ToolsInv, Kept, A!RegisterMethods, A!fileVars, A!objVars, A!callVars
  <1>6. LiveInv'
    BY AgentFacts DEF DelegationInv, LiveInv, A!RegisterMethods, A!objVars, A!callVars
  <1> QED BY <1>1, <1>2, <1>3, <1>4, <1>5, <1>6 DEF DelegationInv

LEMMA InitFailsCorrect ==
  ASSUME DelegationInv, A!InitFails
  PROVE  DelegationInv'
  <1>1. A!TypeOK'
    BY AgentFacts DEF DelegationInv, A!TypeOK, A!InitFails, A!fileVars, A!objVars, A!callVars
  <1>2. ServedInv'
    BY AgentFacts DEF DelegationInv, ServedInv, Started, A!InitFails, A!objVars, A!callVars
  <1>3. PromptInv'
    BY AgentFacts DEF DelegationInv, A!Object, PromptInv, A!InitFails, A!objVars, A!callVars
  <1>4. SubagentInv'
    BY AgentFacts DEF DelegationInv, SubagentInv, A!InitFails, A!objVars, A!callVars
  <1>5. ToolsInv'
    BY AgentFacts DEF DelegationInv, ToolsInv, Kept, A!InitFails, A!fileVars, A!objVars, A!callVars
  <1>6. LiveInv'
    BY AgentFacts DEF DelegationInv, LiveInv, A!InitFails, A!objVars, A!callVars
  <1> QED BY <1>1, <1>2, <1>3, <1>4, <1>5, <1>6 DEF DelegationInv

LEMMA DisposeCorrect ==
  ASSUME DelegationInv, A!Dispose
  PROVE  DelegationInv'
  <1>1. A!TypeOK'
    BY AgentFacts DEF DelegationInv, A!TypeOK, A!Dispose, A!DisposeSessions, A!fileVars, A!callVars
  <1>2. ServedInv'
    BY AgentFacts DEF DelegationInv, ServedInv, Started, A!Dispose, A!callVars
  <1>3. PromptInv'
    BY AgentFacts DEF DelegationInv, A!Object, PromptInv, A!Dispose, A!callVars
  <1>4. SubagentInv'
    BY AgentFacts DEF DelegationInv, SubagentInv, A!Dispose, A!callVars
  <1>5. ToolsInv'
    BY AgentFacts DEF DelegationInv, ToolsInv, Kept, A!Dispose, A!fileVars, A!callVars
  <1>6. LiveInv'
    BY AgentFacts DEF DelegationInv, LiveInv, A!Dispose, A!DisposeSessions, A!callVars
  <1> QED BY <1>1, <1>2, <1>3, <1>4, <1>5, <1>6 DEF DelegationInv

LEMMA ReloadCorrect ==
  ASSUME DelegationInv, A!Reload
  PROVE  DelegationInv'
  <1>a. gen + 1 \in Gens /\ gen' = gen + 1 /\ gen \in Nat
    BY AgentFacts DEF DelegationInv, A!TypeOK, ServedInv, A!Reload
  <1>1. A!TypeOK'
    BY <1>a DEF DelegationInv, A!TypeOK, A!Reload, A!fileVars, A!objVars, A!callVars
  <1>2. ServedInv'
    <2>1. \A g \in Started : g \in Started'
      BY <1>a, AgentFacts DEF Started
    <2> QED BY <2>1 DEF DelegationInv, ServedInv, A!Reload, A!objVars, A!callVars
  <1>3. PromptInv'
    BY AgentFacts DEF DelegationInv, A!Object, PromptInv, A!Reload, A!objVars, A!callVars
  <1>4. SubagentInv'
    BY AgentFacts DEF DelegationInv, SubagentInv, A!Reload, A!objVars, A!callVars
  <1>5. ToolsInv'
    BY AgentFacts DEF DelegationInv, ToolsInv, Kept, A!Reload, A!fileVars, A!objVars, A!callVars
  <1>6. LiveInv'
    BY AgentFacts DEF DelegationInv, LiveInv, A!Reload, A!objVars, A!callVars
  <1> QED BY <1>1, <1>2, <1>3, <1>4, <1>5, <1>6 DEF DelegationInv

LEMMA RegisterChannelCorrect ==
  ASSUME DelegationInv, A!RegisterChannel
  PROVE  DelegationInv'
  <1>1. A!TypeOK'
    BY AgentFacts DEF DelegationInv, A!TypeOK, A!RegisterChannel, A!lifeVars, A!objVars, A!callVars
  <1>2. ServedInv'
    BY AgentFacts
    DEF DelegationInv, ServedInv, Started, A!RegisterChannel, A!lifeVars, A!objVars, A!callVars
  <1>3. PromptInv'
    BY AgentFacts DEF DelegationInv, A!Object, PromptInv, A!RegisterChannel, A!objVars, A!callVars
  <1>4. SubagentInv'
    BY AgentFacts DEF DelegationInv, SubagentInv, A!RegisterChannel, A!objVars, A!callVars
  <1>5. ToolsInv'
    BY AgentFacts
    DEF DelegationInv, ToolsInv, Kept, A!RegisterChannel, A!lifeVars, A!objVars, A!callVars
  <1>6. LiveInv'
    BY AgentFacts DEF DelegationInv, LiveInv, A!RegisterChannel, A!lifeVars, A!objVars, A!callVars
  <1> QED BY <1>1, <1>2, <1>3, <1>4, <1>5, <1>6 DEF DelegationInv

LEMMA DeleteDefaultCorrect ==
  ASSUME DelegationInv, A!DeleteDefault
  PROVE  DelegationInv'
  <1>1. A!TypeOK'
    BY AgentFacts
    DEF DelegationInv, A!TypeOK, A!Files, A!DeleteDefault, A!lifeVars, A!objVars, A!callVars
  <1>2. ServedInv'
    BY AgentFacts
    DEF DelegationInv, ServedInv, Started, A!DeleteDefault, A!lifeVars, A!objVars, A!callVars
  <1>3. PromptInv'
    BY AgentFacts DEF DelegationInv, A!Object, PromptInv, A!DeleteDefault, A!objVars, A!callVars
  <1>4. SubagentInv'
    BY AgentFacts DEF DelegationInv, SubagentInv, A!DeleteDefault, A!objVars, A!callVars
  <1>5. ToolsInv'
    BY AgentFacts DEF DelegationInv, ToolsInv, Kept, A!DeleteDefault, A!objVars, A!callVars
  <1>6. LiveInv'
    BY AgentFacts DEF DelegationInv, LiveInv, A!DeleteDefault, A!lifeVars, A!objVars, A!callVars
  <1> QED BY <1>1, <1>2, <1>3, <1>4, <1>5, <1>6 DEF DelegationInv

LEMMA SaveBeginsCorrect ==
  ASSUME NEW f \in A!Files, DelegationInv, A!SaveBegins(f)
  PROVE  DelegationInv'
  <1>1. A!TypeOK'
    BY AgentFacts
    DEF DelegationInv, A!TypeOK, A!FileKinds, A!SaveBegins, A!lifeVars, A!objVars, A!callVars
  <1>2. ServedInv'
    BY AgentFacts
    DEF DelegationInv, ServedInv, Started, A!SaveBegins, A!lifeVars, A!objVars, A!callVars
  <1>3. PromptInv'
    BY AgentFacts DEF DelegationInv, A!Object, PromptInv, A!SaveBegins, A!objVars, A!callVars
  <1>4. SubagentInv'
    BY AgentFacts DEF DelegationInv, SubagentInv, A!SaveBegins, A!objVars, A!callVars
  <1>5. ToolsInv'
    BY AgentFacts DEF DelegationInv, ToolsInv, Kept, A!SaveBegins, A!lifeVars, A!objVars, A!callVars
  <1>6. LiveInv'
    BY AgentFacts DEF DelegationInv, LiveInv, A!SaveBegins, A!lifeVars, A!objVars, A!callVars
  <1> QED BY <1>1, <1>2, <1>3, <1>4, <1>5, <1>6 DEF DelegationInv

LEMMA SaveEndsCorrect ==
  ASSUME NEW f \in A!Files, NEW kind \in {"open", "strict"}, DelegationInv, A!SaveEnds(f, kind)
  PROVE  DelegationInv'
  <1>1. A!TypeOK'
    BY AgentFacts
    DEF DelegationInv, A!TypeOK, A!FileKinds, A!SaveEnds, A!lifeVars, A!objVars, A!callVars
  <1>2. ServedInv'
    BY AgentFacts
    DEF DelegationInv, ServedInv, Started, A!SaveEnds, A!lifeVars, A!objVars, A!callVars
  <1>3. PromptInv'
    BY AgentFacts DEF DelegationInv, A!Object, PromptInv, A!SaveEnds, A!objVars, A!callVars
  <1>4. SubagentInv'
    BY AgentFacts DEF DelegationInv, SubagentInv, A!SaveEnds, A!objVars, A!callVars
  <1>5. ToolsInv'
    BY AgentFacts DEF DelegationInv, ToolsInv, Kept, A!SaveEnds, A!lifeVars, A!objVars, A!callVars
  <1>6. LiveInv'
    BY AgentFacts DEF DelegationInv, LiveInv, A!SaveEnds, A!lifeVars, A!objVars, A!callVars
  <1> QED BY <1>1, <1>2, <1>3, <1>4, <1>5, <1>6 DEF DelegationInv

LEMMA FromChatCorrect ==
  ASSUME NEW k \in Keys, DelegationInv, A!FromChat(k)
  PROVE  DelegationInv'
  <1>a. /\ by' = [by EXCEPT ![k] = gen] /\ owner' = [owner EXCEPT ![k] = A!Nobody]
        /\ stage' = [stage EXCEPT ![k] = "prompting"] \/ stage' = [stage EXCEPT ![k] = "persona"]
        /\ run' = run \/ (<<gen, k>> \in cached /\ run' = run \cup {<<gen, k>>})
        /\ UNCHANGED <<A!fileVars, A!lifeVars, made, cached, disposed, toolset>>
    BY DEF A!FromChat, A!Execute, A!Goto
  <1>1. A!TypeOK'
    BY <1>a DEF DelegationInv, A!TypeOK, A!Creating, A!fileVars, A!lifeVars
  <1>2. ServedInv'
    BY AgentFacts
    DEF DelegationInv, A!TypeOK, ServedInv, Started, A!FromChat, A!Execute, A!Goto, A!lifeVars
  <1>3. PromptInv'
    BY AgentFacts
    DEF DelegationInv, A!TypeOK, A!Object, PromptInv, A!FromChat, A!Execute, A!Goto, A!fileVars
  <1>4. SubagentInv'
    BY AgentFacts DEF DelegationInv, A!TypeOK, SubagentInv, A!FromChat, A!Execute, A!Goto
  <1>5. ToolsInv'
    BY AgentFacts
    DEF DelegationInv, A!TypeOK, ToolsInv, Kept, A!FromChat, A!Execute, A!Goto, A!fileVars,
        A!lifeVars
  <1>6. LiveInv'
    BY AgentFacts
    DEF DelegationInv, A!TypeOK, A!Files, LiveInv, ServedInv, A!FromChat, A!Execute, A!Goto,
        A!fileVars, A!lifeVars
  <1> QED BY <1>1, <1>2, <1>3, <1>4, <1>5, <1>6 DEF DelegationInv

LEMMA DelegateCorrect ==
  ASSUME NEW k \in Keys, NEW o \in A!Objects, DelegationInv, A!Delegate(o, k)
  PROVE  DelegationInv'
  <1>1. A!TypeOK'
    BY AgentFacts
    DEF DelegationInv, A!TypeOK, A!Creating, A!Files, A!Delegate, A!Execute, A!Goto,
        A!fileVars, A!lifeVars
  <1>2. ServedInv'
    BY AgentFacts
    DEF DelegationInv, A!TypeOK, ServedInv, Started, A!Delegate, A!Execute, A!Goto, A!lifeVars
  <1>3. PromptInv'
    BY AgentFacts
    DEF DelegationInv, A!TypeOK, A!Object, PromptInv, A!Delegate, A!Execute, A!Goto, A!fileVars
  <1>4. SubagentInv'
    BY AgentFacts DEF DelegationInv, A!TypeOK, SubagentInv, A!Delegate, A!Execute, A!Goto
  <1>5. ToolsInv'
    BY AgentFacts
    DEF DelegationInv, A!TypeOK, ToolsInv, Kept, A!Delegate, A!Execute, A!Goto, A!fileVars,
        A!lifeVars
  <1>6. LiveInv'
    BY AgentFacts
    DEF DelegationInv, A!TypeOK, LiveInv, ServedInv, A!Delegate, A!Execute, A!Goto, A!lifeVars
  <1> QED BY <1>1, <1>2, <1>3, <1>4, <1>5, <1>6 DEF DelegationInv

LEMMA LoadSubagentPersonaCorrect ==
  ASSUME NEW k \in Keys, DelegationInv, A!LoadSubagentPersona(k)
  PROVE  DelegationInv'
  <1>1. A!TypeOK'
    BY AgentFacts
    DEF DelegationInv, A!TypeOK, A!Creating, A!LoadSubagentPersona, A!Gather, A!CustomTools,
        A!BusTools, A!Goto, A!fileVars, A!lifeVars, A!objVars
  <1>2. ServedInv'
    BY AgentFacts
    DEF DelegationInv, ServedInv, Started, A!LoadSubagentPersona, A!Gather, A!Goto, A!lifeVars,
        A!objVars
  <1>3. PromptInv'
    BY AgentFacts
    DEF DelegationInv, A!Object, PromptInv, A!LoadSubagentPersona, A!Gather, A!Goto, A!objVars
  <1>4. SubagentInv'
    BY AgentFacts
    DEF DelegationInv, A!Settled, SubagentInv, A!LoadSubagentPersona, A!Gather, A!Goto,
        A!objVars
  <1>5. ToolsInv'
    BY AgentFacts
    DEF DelegationInv, A!TypeOK, A!Files, ToolsInv, Kept, FileOf, A!LoadSubagentPersona,
        A!Gather, A!CustomTools, A!Goto, A!fileVars, A!lifeVars, A!objVars
  <1>6. LiveInv'
    BY AgentFacts
    DEF DelegationInv, A!Creating, LiveInv, A!LoadSubagentPersona, A!Gather, A!Goto,
        A!lifeVars, A!objVars
  <1> QED BY <1>1, <1>2, <1>3, <1>4, <1>5, <1>6 DEF DelegationInv

LEMMA LoadChannelPersonaCorrect ==
  ASSUME NEW k \in Keys, DelegationInv, A!LoadChannelPersona(k)
  PROVE  DelegationInv'
  <1>1. A!TypeOK'
    BY AgentFacts
    DEF DelegationInv, A!TypeOK, A!Creating, A!LoadChannelPersona, A!Gather, A!CustomTools,
        A!BusTools, A!Goto, A!fileVars, A!lifeVars, A!objVars, A!callVars
  <1>2. ServedInv'
    BY AgentFacts
    DEF DelegationInv, A!TypeOK, ServedInv, Started, A!LoadChannelPersona, A!Gather, A!Goto,
        A!lifeVars, A!objVars
  <1>3. PromptInv'
    BY AgentFacts
    DEF DelegationInv, A!TypeOK, A!Object, PromptInv, A!LoadChannelPersona, A!Gather, A!Goto,
        A!objVars
  <1>4. SubagentInv'
    BY AgentFacts
    DEF DelegationInv, A!TypeOK, SubagentInv, A!LoadChannelPersona, A!Gather, A!Goto, A!objVars
  <1>5. ToolsInv'
    BY AgentFacts
    DEF DelegationInv, A!TypeOK, A!Creating, ToolsInv, Kept, FileOf, A!LoadChannelPersona,
        A!Gather, A!Goto, A!fileVars, A!lifeVars, A!objVars
  <1>6. LiveInv'
    BY AgentFacts
    DEF DelegationInv, A!TypeOK, A!Creating, LiveInv, A!LoadChannelPersona, A!Gather, A!Goto,
        A!lifeVars, A!objVars
  <1> QED BY <1>1, <1>2, <1>3, <1>4, <1>5, <1>6 DEF DelegationInv

LEMMA EnsurePersonaCorrect ==
  ASSUME NEW k \in Keys, DelegationInv, A!EnsurePersona(k)
  PROVE  DelegationInv'
  <1>1. A!TypeOK'
    BY AgentFacts
    DEF DelegationInv, A!TypeOK, A!Creating, A!Settled, A!FileKinds, A!EnsurePersona, A!Goto,
        A!lifeVars, A!objVars
  <1>2. ServedInv'
    BY AgentFacts
    DEF DelegationInv, A!TypeOK, ServedInv, Started, A!EnsurePersona, A!Goto, A!lifeVars,
        A!objVars
  <1>3. PromptInv'
    BY AgentFacts
    DEF DelegationInv, A!TypeOK, A!Object, PromptInv, A!EnsurePersona, A!Goto, A!objVars
  <1>4. SubagentInv'
    BY AgentFacts
    DEF DelegationInv, A!TypeOK, A!Settled, SubagentInv, A!EnsurePersona, A!Goto, A!objVars
  <1>5. ToolsInv'
    BY AgentFacts
    DEF DelegationInv, A!TypeOK, A!Files, ToolsInv, Kept, A!EnsurePersona, A!Goto, A!lifeVars,
        A!objVars
  <1>6. LiveInv'
    BY AgentFacts
    DEF DelegationInv, A!TypeOK, A!Creating, LiveInv, A!EnsurePersona, A!Goto, A!lifeVars,
        A!objVars
  <1> QED BY <1>1, <1>2, <1>3, <1>4, <1>5, <1>6 DEF DelegationInv

LEMMA CopyEndsCorrect ==
  ASSUME NEW k \in Keys, DelegationInv, A!CopyEnds(k)
  PROVE  DelegationInv'
  <1>1. A!TypeOK'
    BY AgentFacts
    DEF DelegationInv, A!TypeOK, A!Creating, A!Settled, A!FileKinds, A!CopyEnds, A!Goto,
        A!lifeVars, A!objVars
  <1>2. ServedInv'
    BY AgentFacts
    DEF DelegationInv, A!TypeOK, ServedInv, Started, A!CopyEnds, A!Goto, A!lifeVars, A!objVars
  <1>3. PromptInv'
    BY AgentFacts DEF DelegationInv, A!TypeOK, A!Object, PromptInv, A!CopyEnds, A!Goto, A!objVars
  <1>4. SubagentInv'
    BY AgentFacts DEF DelegationInv, A!TypeOK, A!Settled, SubagentInv, A!CopyEnds, A!Goto, A!objVars
  <1>5. ToolsInv'
    BY AgentFacts
    DEF DelegationInv, A!TypeOK, ToolsInv, Kept, A!CopyEnds, A!Goto, A!objVars, A!callVars
  <1>6. LiveInv'
    BY AgentFacts
    DEF DelegationInv, A!TypeOK, A!Creating, LiveInv, A!CopyEnds, A!Goto, A!lifeVars, A!objVars
  <1> QED BY <1>1, <1>2, <1>3, <1>4, <1>5, <1>6 DEF DelegationInv

LEMMA ReadPersonaCorrect ==
  ASSUME NEW k \in Keys, DelegationInv, A!ReadPersona(k)
  PROVE  DelegationInv'
  <1>1. A!TypeOK'
    BY AgentFacts
    DEF DelegationInv, A!TypeOK, A!Creating, A!ReadPersona, A!Gather, A!CustomTools,
        A!BusTools, A!Goto, A!fileVars, A!lifeVars, A!objVars
  <1>2. ServedInv'
    BY AgentFacts
    DEF DelegationInv, ServedInv, Started, A!ReadPersona, A!Gather, A!Goto, A!lifeVars,
        A!objVars
  <1>3. PromptInv'
    BY AgentFacts DEF DelegationInv, A!Object, PromptInv, A!ReadPersona, A!Gather, A!Goto, A!objVars
  <1>4. SubagentInv'
    BY AgentFacts
    DEF DelegationInv, A!Settled, SubagentInv, A!ReadPersona, A!Gather, A!Goto, A!objVars
  <1>5. ToolsInv'
    BY AgentFacts
    DEF DelegationInv, A!TypeOK, A!Files, ToolsInv, Kept, FileOf, A!ReadPersona, A!Gather,
        A!CustomTools, A!Goto, A!fileVars, A!lifeVars, A!objVars
  <1>6. LiveInv'
    BY AgentFacts
    DEF DelegationInv, A!Creating, LiveInv, A!ReadPersona, A!Gather, A!Goto, A!lifeVars,
        A!objVars
  <1> QED BY <1>1, <1>2, <1>3, <1>4, <1>5, <1>6 DEF DelegationInv

LEMMA CreateCorrect ==
  ASSUME NEW k \in Keys, DelegationInv, A!Create(k)
  PROVE  DelegationInv'
  <1>a. A!Object(k) \in A!Objects /\ toolset[k] \in SUBSET Tools
    BY DEF DelegationInv, A!TypeOK, A!Object, A!Objects
  <1>b. toolset[k] # None
    BY <1>a, NoneIsNoToolset
  <1>c. /\ made' = [made EXCEPT ![A!Object(k)] = toolset[k]]
        /\ cached' = cached \cup {A!Object(k)} /\ run' = run \cup {A!Object(k)}
        /\ stage' = [stage EXCEPT ![k] = "prompting"]
        /\ toolset' = [toolset EXCEPT ![k] = {}]
        /\ UNCHANGED <<A!fileVars, A!lifeVars, disposed, by, owner>>
    BY DEF A!Create, A!Goto
  <1>d. made' \in [A!Objects -> (SUBSET Tools) \cup {None}]
    BY <1>a, <1>c DEF DelegationInv, A!TypeOK
  <1>e. cached' \cup disposed' \cup run' \subseteq {o \in A!Objects : made'[o] # None}
    BY <1>a, <1>b, <1>c DEF DelegationInv, A!TypeOK
  <1>1. A!TypeOK'
    BY <1>c, <1>d, <1>e DEF DelegationInv, A!TypeOK, A!fileVars, A!lifeVars
  <1>2. ServedInv'
    BY AgentFacts DEF DelegationInv, A!Object, ServedInv, Started, A!Create, A!Goto, A!lifeVars
  <1>3. PromptInv'
    BY AgentFacts DEF DelegationInv, A!TypeOK, A!Object, PromptInv, A!Create, A!Goto
  <1>4. SubagentInv'
    BY AgentFacts DEF DelegationInv, A!Object, A!Settled, SubagentInv, A!Create, A!Goto
  <1>5. ToolsInv'
    BY AgentFacts
    DEF DelegationInv, A!Object, ToolsInv, Kept, A!Create, A!Goto, A!fileVars, A!lifeVars
  <1>6. LiveInv'
    BY AgentFacts DEF DelegationInv, A!Object, A!Creating, LiveInv, A!Create, A!Goto, A!lifeVars
  <1> QED BY <1>1, <1>2, <1>3, <1>4, <1>5, <1>6 DEF DelegationInv

LEMMA CreateFailsCorrect ==
  ASSUME NEW k \in Keys, DelegationInv, A!CreateFails(k)
  PROVE  DelegationInv'
  <1>1. A!TypeOK'
    BY AgentFacts
    DEF DelegationInv, A!TypeOK, A!Settled, A!CreateFails, A!Goto, A!fileVars, A!lifeVars,
        A!objVars
  <1>2. ServedInv'
    BY AgentFacts
    DEF DelegationInv, ServedInv, Started, A!CreateFails, A!Goto, A!lifeVars, A!objVars
  <1>3. PromptInv'
    BY AgentFacts DEF DelegationInv, A!Object, PromptInv, A!CreateFails, A!Goto, A!objVars
  <1>4. SubagentInv'
    BY AgentFacts DEF DelegationInv, A!Settled, SubagentInv, A!CreateFails, A!Goto, A!objVars
  <1>5. ToolsInv'
    BY AgentFacts
    DEF DelegationInv, ToolsInv, Kept, A!CreateFails, A!Goto, A!fileVars, A!lifeVars, A!objVars
  <1>6. LiveInv'
    BY AgentFacts
    DEF DelegationInv, A!Creating, LiveInv, A!CreateFails, A!Goto, A!lifeVars, A!objVars
  <1> QED BY <1>1, <1>2, <1>3, <1>4, <1>5, <1>6 DEF DelegationInv

LEMMA TimesOutCorrect ==
  ASSUME NEW k \in Keys, DelegationInv, A!TimesOut(k)
  PROVE  DelegationInv'
  <1>1. A!TypeOK'
    BY AgentFacts
    DEF DelegationInv, A!TypeOK, A!Settled, A!TimesOut, A!Goto, A!fileVars, A!lifeVars,
        A!objVars
  <1>2. ServedInv'
    BY AgentFacts DEF DelegationInv, ServedInv, Started, A!TimesOut, A!Goto, A!lifeVars, A!objVars
  <1>3. PromptInv'
    BY AgentFacts DEF DelegationInv, A!Object, PromptInv, A!TimesOut, A!Goto, A!objVars
  <1>a. stage' = [stage EXCEPT ![k] = "timedOut"] /\ stage[k] = "prompting"
    BY DEF A!TimesOut, A!Goto
  <1>b. ASSUME A!IsSubagent(k), A!IsSubagent(A!Parent(k)) PROVE stage[A!Parent(k)] = "timedOut"
    <2>1. owner[k] \in run /\ owner[k] \in A!Objects /\ owner[k][2] = A!Parent(k)
      BY <1>a, <1>b DEF DelegationInv, SubagentInv, A!Settled
    <2>2. made[owner[k]] # None /\ A!Parent(k) \in Keys
      BY <2>1, <1>b, AgentFacts DEF DelegationInv, A!TypeOK
    <2>3. PICK g \in Gens : owner[k] = <<g, A!Parent(k)>>
      BY <2>1 DEF A!Objects
    <2>4. owner[k] = A!Object(A!Parent(k))
      BY <1>b, <2>2, <2>3 DEF DelegationInv, SubagentInv, A!Object
    <2>5. stage[A!Parent(k)] \in {"prompting", "timedOut"}
      BY <2>1, <2>2, <2>4 DEF DelegationInv, PromptInv
    <2> QED BY <1>b, <2>1, <2>4, <2>5 DEF A!TimesOut
  <1>4. SubagentInv'
    <2> SUFFICES ASSUME NEW d \in Keys, A!IsSubagent(d)
                 PROVE  /\ \A g \in Gens : made[<<g, d>>] # None => stage'[d] # "free" /\ g = by[d]
                        /\ stage'[d] # "free" => owner[d] \in A!Objects /\ owner[d][2] = A!Parent(d)
                        /\ stage'[d] \notin A!Settled => owner[d] \in run
                        /\ stage'[d] = "timedOut" /\ A!IsSubagent(A!Parent(d))
                             => stage'[A!Parent(d)] = "timedOut"
      BY DEF SubagentInv, A!TimesOut, A!objVars
    <2>1. stage'[d] = IF d = k THEN "timedOut" ELSE stage[d]
      BY <1>a DEF DelegationInv, A!TypeOK
    <2>2. A!Parent(d) \in Keys /\ (stage[A!Parent(d)] = "timedOut" => stage'[A!Parent(d)] = "timedOut")
      BY <1>a, AgentFacts DEF DelegationInv, A!TypeOK
    <2> QED BY <1>a, <1>b, <2>1, <2>2 DEF DelegationInv, SubagentInv, A!Settled
  <1>5. ToolsInv'
    BY AgentFacts
    DEF DelegationInv, ToolsInv, Kept, A!TimesOut, A!Goto, A!fileVars, A!lifeVars, A!objVars
  <1>6. LiveInv'
    BY AgentFacts DEF DelegationInv, A!Creating, LiveInv, A!TimesOut, A!Goto, A!lifeVars, A!objVars
  <1> QED BY <1>1, <1>2, <1>3, <1>4, <1>5, <1>6 DEF DelegationInv

LEMMA RunEndsCorrect ==
  ASSUME NEW o \in A!Objects, NEW outcome \in {"answered", "failed"}, DelegationInv, A!RunEnds(o, outcome)
  PROVE  DelegationInv'
  <1>1. A!TypeOK'
    BY AgentFacts DEF DelegationInv, A!TypeOK, A!Settled, A!RunEnds, A!Goto, A!fileVars, A!lifeVars
  <1>2. ServedInv'
    BY AgentFacts DEF DelegationInv, A!TypeOK, ServedInv, Started, A!RunEnds, A!Goto, A!lifeVars
  <1>3. PromptInv'
    BY AgentFacts DEF DelegationInv, A!TypeOK, A!Object, PromptInv, A!RunEnds, A!Goto
  <1>4. SubagentInv'
    <2> SUFFICES ASSUME NEW d \in Keys, A!IsSubagent(d)
                 PROVE  /\ \A g \in Gens : made[<<g, d>>] # None => stage'[d] # "free" /\ g = by[d]
                        /\ stage'[d] # "free" => owner[d] \in A!Objects /\ owner[d][2] = A!Parent(d)
                        /\ stage'[d] \notin A!Settled => owner[d] \in run'
                        /\ stage'[d] = "timedOut" /\ A!IsSubagent(A!Parent(d))
                             => stage'[A!Parent(d)] = "timedOut"
      BY DEF SubagentInv, A!RunEnds
    <2>1. \A k \in Keys : stage'[k] = stage[k] \/ (stage[k] = "prompting" /\ stage'[k] = outcome)
      BY DEF DelegationInv, A!TypeOK, A!RunEnds, A!Goto
    <2>2. stage[d] \notin A!Settled => owner[d] # o
      BY DEF A!RunEnds, A!Awaits
    <2>3. A!Parent(d) \in Keys /\ run' = run \ {o}
      BY AgentFacts DEF A!RunEnds
    <2>4. outcome \in A!Settled /\ outcome # "timedOut" /\ outcome # "free"
      BY DEF A!Settled
    <2> QED BY <2>1, <2>2, <2>3, <2>4 DEF DelegationInv, SubagentInv
  <1>5. ToolsInv'
    BY AgentFacts
    DEF DelegationInv, A!TypeOK, A!Settled, ToolsInv, Kept, A!RunEnds, A!Goto, A!fileVars,
        A!lifeVars
  <1>6. LiveInv'
    BY AgentFacts DEF DelegationInv, A!TypeOK, A!Creating, LiveInv, A!RunEnds, A!Goto, A!lifeVars
  <1> QED BY <1>1, <1>2, <1>3, <1>4, <1>5, <1>6 DEF DelegationInv

LEMMA DelegationInit == A!Init => DelegationInv
  <1> SUFFICES ASSUME A!Init PROVE DelegationInv
    OBVIOUS
  <1>1. A!TypeOK
    BY AgentFacts DEF A!Init, A!TypeOK, A!Objects, A!Settled, A!Files, A!FileKinds
  <1>2. ServedInv /\ PromptInv /\ LiveInv
    BY DEF A!Init, ServedInv, PromptInv, LiveInv, A!Object, A!Objects, A!Creating
  <1>3. SubagentInv
    BY DEF A!Init, SubagentInv, A!Objects, A!Settled
  <1>4. ToolsInv
    BY DEF A!Init, ToolsInv, A!Objects, A!Files
  <1> QED BY <1>1, <1>2, <1>3, <1>4 DEF DelegationInv

LEMMA DelegationStep == DelegationInv /\ [AllNext]_allVars => DelegationInv'
  <1> SUFFICES ASSUME DelegationInv, [AllNext]_allVars PROVE DelegationInv'
    OBVIOUS
  <1>1. CASE UNCHANGED agentVars
    BY <1>1 DEF agentVars, DelegationInv, A!TypeOK, ServedInv, Started, PromptInv, SubagentInv,
                ToolsInv, Kept, LiveInv, A!Object
  <1>2. CASE A!Next
    <2>1. CASE \/ A!ReadConfig \/ A!RegisterMethods \/ A!InitFails \/ A!Dispose \/ A!Reload
               \/ A!RegisterChannel \/ A!DeleteDefault
      BY <2>1, ReadConfigCorrect, RegisterMethodsCorrect, InitFailsCorrect, DisposeCorrect,
         ReloadCorrect, RegisterChannelCorrect, DeleteDefaultCorrect
    <2>2. CASE \E f \in A!Files : A!SaveBegins(f) \/ \E kind \in {"open", "strict"} : A!SaveEnds(f, kind)
      BY <2>2, SaveBeginsCorrect, SaveEndsCorrect
    <2>3. ASSUME NEW k \in Keys,
                 \/ A!FromChat(k) \/ A!LoadSubagentPersona(k) \/ A!LoadChannelPersona(k)
                 \/ A!EnsurePersona(k) \/ A!CopyEnds(k) \/ A!ReadPersona(k) \/ A!Create(k)
                 \/ A!CreateFails(k) \/ A!TimesOut(k)
                 \/ \E o \in A!Objects : A!Delegate(o, k)
          PROVE  DelegationInv'
      BY <2>3, FromChatCorrect, LoadSubagentPersonaCorrect, LoadChannelPersonaCorrect,
         EnsurePersonaCorrect, CopyEndsCorrect, ReadPersonaCorrect, CreateCorrect,
         CreateFailsCorrect, TimesOutCorrect, DelegateCorrect
    <2>4. CASE \E o \in A!Objects, outcome \in {"answered", "failed"} : A!RunEnds(o, outcome)
      BY <2>4, RunEndsCorrect
    <2> QED BY <1>2, <2>1, <2>2, <2>3, <2>4 DEF A!Next
  <1> QED BY <1>1, <1>2 DEF AllNext, InboundStep, AgentStep, allVars

(* Whoever works for an answered call: its run would have been awaited, so  *)
(* the call on it has settled, and with a run going on it can only have     *)
(* timed out.                                                               *)
LEMMA AnswersFollow == DelegationInv => A!AnswersComplete
  <1> SUFFICES ASSUME DelegationInv, NEW d \in Keys,
                      A!IsSubagent(d), A!Object(d) \in run, owner[d] # A!Nobody,
                      A!Object(A!Parent(d)) = owner[d], stage[A!Parent(d)] = "answered"
               PROVE  stage[d] = "timedOut" /\ ~A!IsSubagent(A!Parent(d))
    BY DEF A!AnswersComplete
  <1>1. A!Parent(d) \in Keys
    BY AgentFacts
  <1>2. owner[d] \notin run
    BY <1>1 DEF DelegationInv, PromptInv
  <1>3. stage[d] \in A!Settled /\ stage[d] \in {"prompting", "timedOut"}
    BY <1>2 DEF DelegationInv, SubagentInv, PromptInv
  <1>4. stage[d] = "timedOut"
    BY <1>3 DEF A!Settled
  <1> QED BY <1>4 DEF DelegationInv, SubagentInv

LEMMA SameCount == \A S : A!Cardinality(S) = Cardinality(S)
  BY DEF A!Cardinality, Cardinality

LEMMA OneSession == DelegationInv => A!OneLiveSession
  <1> SUFFICES ASSUME DelegationInv, NEW k \in Keys \ crossed
               PROVE  Cardinality({o \in cached \cup run : o[2] = k} \ disposed) <= 1
    BY SameCount DEF A!OneLiveSession
  <1> DEFINE S == {o \in cached \cup run : o[2] = k} \ disposed
  <1>1. S \subseteq {<<gen, k>>}
    BY DEF DelegationInv, A!TypeOK, A!Objects, LiveInv
  <1>2. S = {} \/ S = {<<gen, k>>}
    BY <1>1
  <1> HIDE DEF S
  <1>3. CASE S = {}
    BY <1>3, FS_EmptySet DEF S
  <1>4. CASE S = {<<gen, k>>}
    <2>1. Cardinality(S) = 1
      BY <1>4, FS_Singleton
    <2> QED BY <2>1 DEF S
  <1> QED BY <1>2, <1>3, <1>4

(* Delegated work is waited for or has timed out; a session has no tool     *)
(* that its whitelist leaves out; a chat has one live session: for any      *)
(* number of chats, depth of subagents, reloads and edits                   *)
(* (agent/index.ts, agent/persona.ts, agent/tools.ts).                      *)
THEOREM DelegationIsKept == AllSpec => []DelegationKept
  <1>1. AllInit => DelegationInv
    BY DelegationInit DEF AllInit
  <1>2. DelegationInv => DelegationKept
    <2> SUFFICES ASSUME DelegationInv
                 PROVE  A!TypeOK /\ A!AnswersComplete /\ A!WhitelistKept /\ A!OneLiveSession
      BY DEF DelegationKept
    <2>1. A!WhitelistKept
      BY DEF DelegationInv, ToolsInv, Kept, FileOf, A!WhitelistKept
    <2> QED BY <2>1, AnswersFollow, OneSession DEF DelegationInv
  <1> QED BY <1>1, <1>2, DelegationStep, PTL DEF AllSpec

----------------------------------------------------------------------------
(* Sequences of messages, for the order in which they are handed on.       *)

\* Only the members of F are in s twice.
Unique(s, F) ==
  \A i, j \in 1 .. Len(s) : i < j /\ s[i] = s[j] => s[i] \in F

\* A later message comes before an earlier one only if that is in M, or has come before.
Sorted(s, M) ==
  \A i, j \in 1 .. Len(s) :
    i < j /\ s[i] > s[j] /\ s[j] \notin M => \E k \in 1 .. i : s[k] = s[j]

\* The places of a sequence with one more member in its middle.
LEMMA Places ==
  ASSUME NEW S, NEW h \in Seq(S), NEW p \in Seq(S), NEW m \in S
  PROVE  /\ h \o p \in Seq(S) /\ Len(h \o p) = Len(h) + Len(p)
         /\ \A i \in 1 .. Len(h) + Len(p) :
              (h \o p)[i] = IF i <= Len(h) THEN h[i] ELSE p[i - Len(h)]
         /\ (h \o <<m>>) \o p \in Seq(S)
         /\ Len((h \o <<m>>) \o p) = Len(h) + 1 + Len(p)
         /\ \A i \in 1 .. Len(h) + 1 + Len(p) :
              ((h \o <<m>>) \o p)[i] = IF i <= Len(h) THEN h[i]
                                       ELSE IF i = Len(h) + 1 THEN m
                                       ELSE p[i - Len(h) - 1]
         /\ Len(h) \in Nat /\ Len(p) \in Nat
<1>1. /\ Len(h) \in Nat /\ Len(p) \in Nat
      /\ h \o p \in Seq(S) /\ Len(h \o p) = Len(h) + Len(p)
      /\ \A i \in 1 .. Len(h) + Len(p) :
              (h \o p)[i] = IF i <= Len(h) THEN h[i] ELSE p[i - Len(h)]
  OBVIOUS
<1>2. /\ h \o <<m>> \in Seq(S) /\ Len(h \o <<m>>) = Len(h) + 1
      /\ \A i \in 1 .. Len(h) + 1 : (h \o <<m>>)[i] = IF i <= Len(h) THEN h[i] ELSE m
  OBVIOUS
<1> DEFINE g == h \o <<m>>
<1> HIDE DEF g
<1>3. /\ g \o p \in Seq(S) /\ Len(g \o p) = Len(g) + Len(p)
      /\ \A i \in 1 .. Len(g) + Len(p) :
              (g \o p)[i] = IF i <= Len(g) THEN g[i] ELSE p[i - Len(g)]
  BY <1>2 DEF g
<1>4. g \in Seq(S) /\ Len(g) = Len(h) + 1
      /\ \A i \in 1 .. Len(h) + 1 : g[i] = IF i <= Len(h) THEN h[i] ELSE m
  BY <1>2 DEF g
<1>5. ASSUME NEW i \in 1 .. Len(h) + 1 + Len(p)
      PROVE  (g \o p)[i] = IF i <= Len(h) THEN h[i]
                                       ELSE IF i = Len(h) + 1 THEN m
                                       ELSE p[i - Len(h) - 1]
  BY <1>1, <1>3, <1>4
<1> QED
  BY <1>1, <1>3, <1>4, <1>5 DEF g

\* A message that was there already, or has no later one before it, keeps the order as the
\* last one.
LEMMA AppendKeeps ==
  ASSUME NEW s \in Seq(Updates), NEW m \in Updates, NEW F, NEW M,
         Unique(s, F), Sorted(s, M), In(m, s) => m \in F,
         m \in M \/ In(m, s) \/ \A i \in 1 .. Len(s) : s[i] <= m
  PROVE  Unique(Append(s, m), F) /\ Sorted(Append(s, m), M)
<1> DEFINE t == Append(s, m)
<1>1. /\ Len(s) \in Nat /\ Len(t) = Len(s) + 1
      /\ \A i \in 1 .. Len(s) : t[i] = s[i] /\ s[i] \in Updates
      /\ t[Len(s) + 1] = m
  OBVIOUS
<1> HIDE DEF t
<1>2. Unique(t, F)
  BY <1>1 DEF Unique, In
<1>3. ASSUME NEW i \in 1 .. Len(t), NEW j \in 1 .. Len(t), i < j, t[i] > t[j], t[j] \notin M
      PROVE  \E k \in 1 .. i : t[k] = t[j]
  <2>1. i \in 1 .. Len(s) /\ t[i] = s[i]
    BY <1>1, <1>3
  <2>2. CASE j <= Len(s)
    <3>1. \E k \in 1 .. i : s[k] = s[j]
      BY <1>1, <1>3, <2>1, <2>2 DEF Sorted
    <3> QED
      BY <1>1, <2>1, <2>2, <3>1
  <2>3. CASE j = Len(s) + 1
    <3>1. PICK n \in 1 .. Len(s) : s[n] = m
      BY <1>1, <1>3, <2>1, <2>3 DEF In, Updates
    <3>2. CASE n <= i
      BY <1>1, <2>1, <2>3, <3>1, <3>2
    <3>3. CASE i < n
      <4>1. \E k \in 1 .. i : s[k] = m
        BY <1>1, <1>3, <2>1, <2>3, <3>1, <3>3 DEF Sorted
      <4> QED
        BY <1>1, <2>1, <2>3, <4>1
    <3> QED
      BY <3>2, <3>3
  <2> QED
    BY <1>1, <2>2, <2>3
<1> QED
  BY <1>2, <1>3 DEF Sorted, t

\* A message that may overtake is put between what was handed on and what is buffered.
LEMMA InsertKeeps ==
  ASSUME NEW h \in Seq(Updates), NEW p \in Seq(Updates), NEW m \in Updates, NEW F, NEW M,
         Unique(h \o p, F), Sorted(h \o p, M), In(m, h \o p) => m \in F, m \in M,
         \A i \in 1 .. Len(p) : p[i] < m => In(p[i], h)
  PROVE  Unique((h \o <<m>>) \o p, F) /\ Sorted((h \o <<m>>) \o p, M)
<1> DEFINE s == h \o p
           t == (h \o <<m>>) \o p
           old(i) == IF i <= Len(h) THEN i ELSE i - 1
<1>1. /\ Len(h) \in Nat /\ Len(p) \in Nat /\ s \in Seq(Updates)
      /\ Len(s) = Len(h) + Len(p) /\ Len(t) = Len(h) + 1 + Len(p)
      /\ \A i \in 1 .. Len(h) : s[i] = h[i]
      /\ \A i \in 1 .. Len(p) : s[Len(h) + i] = p[i]
      /\ t[Len(h) + 1] = m
      /\ \A i \in 1 .. Len(t) : i <= Len(h) => t[i] = h[i] /\ t[i] = s[i]
      /\ \A i \in 1 .. Len(t) : i > Len(h) + 1 => t[i] = p[i - Len(h) - 1] /\ t[i] = s[i - 1]
  BY Places
<1> HIDE DEF s, t
<1>2. ASSUME NEW i \in 1 .. Len(t), i # Len(h) + 1
      PROVE  old(i) \in 1 .. Len(s) /\ t[i] = s[old(i)]
  BY <1>1, <1>2
<1>3. Unique(s, F) /\ Sorted(s, M) /\ (In(m, s) => m \in F)
  BY DEF s
<1>4. ASSUME NEW i \in 1 .. Len(t), NEW j \in 1 .. Len(t), i < j, t[i] = t[j]
      PROVE  t[i] \in F
  <2>1. CASE i = Len(h) + 1 \/ j = Len(h) + 1
    <3>1. In(m, s) /\ t[i] = m
      BY <1>1, <1>2, <1>4, <2>1 DEF In
    <3> QED
      BY <1>3, <3>1
  <2>2. CASE i # Len(h) + 1 /\ j # Len(h) + 1
    <3>1. old(i) < old(j) /\ s[old(i)] = s[old(j)]
      BY <1>1, <1>2, <1>4, <2>2
    <3> QED
      BY <1>2, <1>3, <2>2, <3>1 DEF Unique
  <2> QED
    BY <2>1, <2>2
<1>5. ASSUME NEW i \in 1 .. Len(t), NEW j \in 1 .. Len(t), i < j, t[i] > t[j], t[j] \notin M
      PROVE  \E k \in 1 .. i : t[k] = t[j]
  <2>0. j # Len(h) + 1
    BY <1>1, <1>5
  <2>1. CASE i = Len(h) + 1
    <3>1. j - Len(h) - 1 \in 1 .. Len(p) /\ t[j] = p[j - Len(h) - 1] /\ t[j] < m
      BY <1>1, <1>5, <2>1
    <3>2. In(t[j], h)
      BY <3>1
    <3>3. PICK k \in 1 .. Len(h) : h[k] = t[j]
      BY <3>2 DEF In
    <3>4. k \in 1 .. i /\ t[k] = h[k]
      BY <1>1, <2>1
    <3> QED
      BY <3>3, <3>4
  <2>2. CASE i # Len(h) + 1
    <3>1. /\ old(i) \in 1 .. Len(s) /\ old(j) \in 1 .. Len(s) /\ old(i) < old(j)
          /\ t[i] = s[old(i)] /\ t[j] = s[old(j)]
      BY <1>1, <1>2, <1>5, <2>0, <2>2
    <3>2. PICK k \in 1 .. old(i) : s[k] = s[old(j)]
      BY <1>3, <1>5, <3>1 DEF Sorted
    <3>3. CASE k <= Len(h)
      <4>1. k \in 1 .. i /\ k \in 1 .. Len(t) /\ t[k] = s[k]
        BY <1>1, <1>5, <3>2, <3>3
      <4> QED
        BY <3>1, <3>2, <4>1
    <3>4. CASE k > Len(h)
      <4>1. k + 1 \in 1 .. i /\ k + 1 \in 1 .. Len(t) /\ t[k + 1] = s[k]
        BY <1>1, <1>5, <2>2, <3>2, <3>4
      <4> QED
        BY <3>1, <3>2, <4>1
    <3> QED
      BY <1>1, <3>3, <3>4
  <2> QED
    BY <2>1, <2>2
<1> QED
  BY <1>4, <1>5 DEF Unique, Sorted, t

\* What was handed on is sorted by itself: of two messages the earlier is not only buffered.
LEMMA PrefixKeeps ==
  ASSUME NEW h \in Seq(Updates), NEW p \in Seq(Updates), NEW F, NEW M,
         Unique(h \o p, F), Sorted(h \o p, M)
  PROVE  /\ Unique(h, F) /\ Sorted(h, M)
         /\ \A m, n \in Updates : m < n /\ m \notin M /\ In(n, h) /\ In(m, h \o p) => In(m, h)
<1> DEFINE s == h \o p
<1>1. /\ Len(h) \in Nat /\ Len(p) \in Nat
      /\ Len(s) = Len(h) + Len(p)
      /\ \A i \in 1 .. Len(h) : s[i] = h[i]
  OBVIOUS
<1>2. Unique(s, F) /\ Sorted(s, M)
  OBVIOUS
<1> HIDE DEF s
<1>3. Unique(h, F)
  BY <1>1, <1>2 DEF Unique
<1>4. Sorted(h, M)
  BY <1>1, <1>2 DEF Sorted
<1>5. ASSUME NEW m \in Updates, NEW n \in Updates, m < n, m \notin M, In(n, h), In(m, s)
      PROVE  In(m, h)
  <2>1. PICK i \in 1 .. Len(h) : h[i] = n
    BY <1>5 DEF In
  <2>2. PICK j \in 1 .. Len(s) : s[j] = m
    BY <1>5 DEF In
  <2>3. CASE j <= i
    BY <1>1, <2>1, <2>2, <2>3 DEF In
  <2>4. CASE i < j
    <3>1. \E k \in 1 .. i : s[k] = m
      BY <1>1, <1>2, <1>5, <2>1, <2>2, <2>4 DEF Sorted, Updates
    <3> QED
      BY <1>1, <2>1, <3>1 DEF In
  <2> QED
    BY <1>1, <2>1, <2>2, <2>3, <2>4
<1> QED
  BY <1>3, <1>4, <1>5 DEF s

----------------------------------------------------------------------------
(* The inductive invariant.                                                *)

\* What was handed on for a chat and what is buffered, in one line.
Line(c) == handed[c] \o pending[c]
InLine(m) == In(m, Line(log[m].chat))

Media == {m \in Sent : log[m].kind = "media"}

\* A loop has an answer or an offset only while it waits for one or with the other.
AnswersInv == \A l \in Loops : /\ answer[l] # {} => loop[l] = "served"
                               /\ asked[l] # 0 => loop[l] = "asking"

\* No loop can get m again: it was confirmed, and no answer holds it.
Gone(m) == m <= confirmed /\ m \notin inbox /\ \A l \in Loops : m \notin answer[l]

\* ... or every request will confirm it, and all answers are past it.
Ahead(m) == /\ m < offset
            /\ \A n \in inbox : m < n
            /\ \A l \in Loops : /\ \A n \in answer[l] : m < n
                                /\ loop[l] = "asking" => m < asked[l]
Safe(m) == Gone(m) \/ Ahead(m)

\* What is filed under a chat is of that chat; what is buffered is text, and media is not.
FiledInv == /\ \A c \in Chats : \A m \in Updates :
                 In(m, Line(c)) => m \in Sent /\ log[m].chat = c
            /\ \A c \in Chats : \A m \in Updates : In(m, pending[c]) => log[m].kind = "text"
            /\ \A m \in Updates : downloads[m] > 0 => log[m].kind = "media"

\* A message can come again only while the dedupe cache has it, if one loop polls; without
\* the cache, only if it is forgotten.
SeenInv == ~overlapped => \A m \in seen : Safe(m)
DoneInv == \A m \in Sent \ (seen \cup forgotten) : InLine(m) \/ downloads[m] > 0 => Safe(m)

\* HandedOnce and InOrder, of what is handed on and buffered.
LinesInv == \A c \in Chats : Unique(Line(c), forgotten) /\ Sorted(Line(c), Media)
OnceInv == \A m \in Sent \ forgotten : /\ downloads[m] <= 1
                                       /\ downloads[m] > 0 => ~InLine(m)

\* A text that a later message of its chat has passed is in the line, or gone.
NoGapInv == \A m, n \in Sent :
              /\ m < n /\ log[m].kind = "text" /\ log[m].chat = log[n].chat
              /\ InLine(n) \/ downloads[n] > 0
              => InLine(m) \/ Gone(m)

\* What a download overtakes was handed on before.
OvertakenInv == \A m, n \in Sent :
                  /\ m < n /\ log[m].chat = log[n].chat
                  /\ downloads[n] > 0 /\ In(m, pending[log[m].chat])
                  => In(m, handed[log[m].chat])

LostInv == \A m \in lost : log[m].kind = "text" => Gone(m)

OrderInv == /\ AnswersInv /\ FiledInv /\ SeenInv /\ DoneInv /\ LinesInv /\ OnceInv
            /\ NoGapInv /\ OvertakenInv /\ LostInv

----------------------------------------------------------------------------
(* What no loop gets again.                                                *)

LEMMA NextAnswers ==
  ASSUME TypeOK, AnswersInv, [Next]_vars
  PROVE  AnswersInv'
<1> USE DEF AnswersInv, TypeOK
<1>1. ASSUME NEW l \in Loops, NEW place, Leave(l, place), loop[l] # "handling" \/ place = "off"
      PROVE  AnswersInv'
  BY <1>1 DEF Leave
<1>2. ASSUME NEW l \in Loops, Resume(l)
      PROVE  AnswersInv'
  BY <1>2 DEF Resume, Leave
<1>3. ASSUME NEW l \in Loops, Serve(l)
      PROVE  AnswersInv'
  BY <1>3 DEF Serve
<1>4. ASSUME NEW l \in Loops, StartOk(l)
      PROVE  AnswersInv'
  BY <1>4 DEF StartOk
<1>5. ASSUME NEW l \in Loops, Answered(l) \/ PollFails(l) \/ SleepEnds(l)
      PROVE  AnswersInv'
  BY <1>1, <1>2, <1>5 DEF Answered, PollFails, SleepEnds
<1>6. ASSUME NEW l \in Loops, NEW m \in Updates, Handle(l, m)
      PROVE  AnswersInv'
  BY <1>2, <1>6 DEF Handle, loopVars
<1>7. CASE Restart
  BY <1>7 DEF Restart
<1>8. CASE Crash
  BY <1>8 DEF Crash
<1>9. CASE UNCHANGED loopVars
  BY <1>9 DEF loopVars
<1> QED
  BY <1>3, <1>4, <1>5, <1>6, <1>7, <1>8, <1>9
  DEF Next, vars, Send, StartFails, FlushTimer, MediaReady, MediaFails, Expire, pollVars

\* What a step of the loop may do to the requests and the answers.
LEMMA NextSafe ==
  ASSUME TypeOK, AnswersInv, [Next]_vars, NEW m \in Sent
  PROVE  /\ Gone(m) => Gone(m)'
         /\ ~Crash /\ Safe(m) => Safe(m)'
<1>0. m \in Nat /\ Len(log) \in Nat /\ confirmed \in Nat /\ offset \in Nat
      /\ inbox \subseteq Nat /\ \A l \in Loops : answer[l] \subseteq Nat /\ asked[l] \in Nat
  BY DEF Sent, TypeOK
<1>1. ASSUME UNCHANGED <<confirmed, offset, inbox, loop, asked, answer>>
      PROVE  (Gone(m) => Gone(m)') /\ (Ahead(m) => Ahead(m)')
  BY <1>1 DEF Gone, Ahead
<1>2. ASSUME NEW l \in Loops, NEW place, Leave(l, place), place # "asking"
      PROVE  \A k \in Loops : /\ answer'[k] \subseteq answer[k]
                              /\ loop'[k] = "asking" => asked'[k] = asked[k] /\ loop[k] = "asking"
  BY <1>2 DEF Leave, TypeOK
<1>3. ASSUME NEW l \in Loops, Resume(l)
      PROVE  \A k \in Loops : /\ answer'[k] \subseteq answer[k]
                              /\ loop'[k] = "asking" => \/ asked'[k] = offset'
                                                        \/ asked'[k] = asked[k] /\ loop[k] = "asking"
  <2>1. CASE polling'
    BY <1>3, <2>1 DEF Resume, TypeOK
  <2>2. CASE ~polling'
    BY <1>2, <1>3, <2>2 DEF Resume
  <2> QED
    BY <2>1, <2>2
<1>4. ASSUME UNCHANGED <<confirmed, offset, inbox>>,
             \A k \in Loops : /\ answer'[k] \subseteq answer[k]
                              /\ loop'[k] = "asking" => \/ asked'[k] = offset'
                                                        \/ asked'[k] = asked[k] /\ loop[k] = "asking"
      PROVE  (Gone(m) => Gone(m)') /\ (Ahead(m) => Ahead(m)')
  BY <1>0, <1>4 DEF Gone, Ahead
<1>5. ASSUME NEW l \in Loops, Serve(l)
      PROVE  (Gone(m) => Gone(m)') /\ (Ahead(m) => Ahead(m)')
  <2>1. /\ UNCHANGED <<offset, inbox>> /\ loop[l] = "asking"
        /\ confirmed' = IF asked[l] > confirmed + 1 THEN asked[l] - 1 ELSE confirmed
        /\ \A k \in Loops : answer'[k] = IF k = l THEN confirmed' + 1 .. Len(log) ELSE answer[k]
        /\ \A k \in Loops : loop'[k] = "asking" => loop[k] = "asking" /\ asked'[k] = asked[k]
    BY <1>5 DEF Serve, TypeOK
  <2>2. confirmed <= confirmed' /\ confirmed' \in Nat
    BY <1>0, <2>1
  <2>3. Gone(m) => Gone(m)'
    BY <1>0, <2>1, <2>2 DEF Gone
  <2>4. ASSUME Ahead(m)
        PROVE  Ahead(m)'
    <3>1. m <= confirmed'
      BY <1>0, <2>1, <2>4 DEF Ahead
    <3> QED
      BY <1>0, <2>1, <2>2, <2>4, <3>1 DEF Ahead
  <2> QED
    BY <2>3, <2>4
<1>6. ASSUME NEW l \in Loops, StartOk(l)
      PROVE  (Gone(m) => Gone(m)') /\ (Ahead(m) => Ahead(m)')
  BY <1>4, <1>6 DEF StartOk, serverVars, TypeOK
<1>7. ASSUME NEW l \in Loops, Answered(l)
      PROVE  (Gone(m) => Gone(m)') /\ (Ahead(m) => Ahead(m)')
  <2>1. UNCHANGED <<confirmed, offset>> /\ inbox' = answer[l]
    BY <1>7 DEF Answered, serverVars
  <2>2. \A k \in Loops : /\ answer'[k] \subseteq answer[k]
                         /\ loop'[k] = "asking" => \/ asked'[k] = offset'
                                                   \/ asked'[k] = asked[k] /\ loop[k] = "asking"
    BY <1>2, <1>3, <1>7 DEF Answered
  <2> QED
    BY <1>0, <2>1, <2>2 DEF Gone, Ahead
<1>8. ASSUME NEW l \in Loops, PollFails(l)
      PROVE  (Gone(m) => Gone(m)') /\ (Ahead(m) => Ahead(m)')
  <2>1. \E place \in {"off", "asleep"} : Leave(l, place)
    BY <1>8 DEF PollFails
  <2> QED
    BY <1>2, <1>4, <1>8, <2>1 DEF PollFails, serverVars
<1>9. ASSUME NEW l \in Loops, SleepEnds(l)
      PROVE  (Gone(m) => Gone(m)') /\ (Ahead(m) => Ahead(m)')
  BY <1>3, <1>4, <1>9 DEF SleepEnds, serverVars
<1>10. ASSUME NEW l \in Loops, NEW n \in Updates, Handle(l, n)
       PROVE  (Gone(m) => Gone(m)') /\ (Ahead(m) => Ahead(m)')
  <2>1. confirmed' = confirmed /\ n \in inbox /\ inbox' = inbox \ {n} /\ offset' = n + 1
    BY <1>10 DEF Handle, serverVars
  <2>2. \A k \in Loops : /\ answer'[k] \subseteq answer[k]
                         /\ loop'[k] = "asking" => \/ asked'[k] = offset'
                                                   \/ asked'[k] = asked[k] /\ loop[k] = "asking"
    BY <1>3, <1>10 DEF Handle, loopVars
  <2> QED
    BY <1>0, <2>1, <2>2 DEF Gone, Ahead
<1>11. CASE Restart
  <2>1. UNCHANGED <<confirmed, offset, inbox>>
        /\ \A k \in Loops : /\ answer'[k] \subseteq answer[k]
                            /\ loop'[k] = "asking" => asked'[k] = asked[k] /\ loop[k] = "asking"
    BY <1>11 DEF Restart, serverVars, TypeOK
  <2> QED
    BY <1>4, <2>1 DEF Safe
<1>12. CASE Crash
  BY <1>12 DEF Crash, Gone, serverVars
<1>13. ASSUME ~Crash, ~Restart,
              \A l \in Loops : ~Serve(l) /\ ~StartOk(l) /\ ~Answered(l) /\ ~PollFails(l)
                               /\ ~SleepEnds(l) /\ \A n \in Updates : ~Handle(l, n)
       PROVE  UNCHANGED <<confirmed, offset, inbox, loop, asked, answer>>
  BY <1>13 DEF Next, vars, Send, StartFails, FlushTimer, MediaReady, MediaFails, Expire,
               serverVars, pollVars, loopVars
<1> QED
  BY <1>1, <1>5, <1>6, <1>7, <1>8, <1>9, <1>10, <1>11, <1>12, <1>13 DEF Safe

----------------------------------------------------------------------------
(* The lines.                                                              *)

\* A chat's line stays as it is; what moves in it moves from the buffer to the agent.
Same(c) == /\ Line(c)' = Line(c)
           /\ \A m : In(m, handed[c]) => In(m, handed'[c])
           /\ \A m : In(m, pending'[c]) => In(m, pending[c])

LEMMA LineTyped ==
  ASSUME TypeOK, NEW c \in Chats
  PROVE  /\ handed[c] \in Seq(Updates) /\ pending[c] \in Seq(Updates)
         /\ Line(c) \in Seq(Updates)
         /\ \A m : In(m, Line(c)) <=> In(m, handed[c]) \/ In(m, pending[c])
         /\ \A m : In(m, handed[c]) \/ In(m, pending[c]) => m \in Updates
<1>1. handed[c] \in Seq(Updates) /\ pending[c] \in Seq(Updates)
  BY DEF TypeOK
<1>2. \A s \in Seq(Updates) : \A m : In(m, s) => m \in Updates
  BY DEF In
<1> QED
  BY <1>1, <1>2, Concat DEF Line

LEMMA MessageTyped ==
  ASSUME TypeOK, NEW m \in Sent
  PROVE  /\ m \in Updates /\ m \in Nat /\ log[m] \in Message /\ log[m].chat \in Chats
         /\ log[m].kind \in Kinds
<1>1. m \in Updates /\ m \in Nat /\ log[m] \in Message
  BY InboundAssumption DEF TypeOK, Sent, Updates
<1> QED
  BY <1>1 DEF Message

LEMMA MessageTypedNext ==
  ASSUME TypeOK'
  PROVE  \A m \in Sent' : m \in Updates /\ m \in Nat /\ log'[m].chat \in Chats
<1>1. log' \in Seq(Message) /\ Len(log') <= MaxMsgs
  BY DEF TypeOK
<1>2. \A m \in Sent' : m \in Updates /\ m \in Nat /\ log'[m] \in Message
  BY <1>1, InboundAssumption DEF Sent, Updates
<1> QED
  BY <1>2 DEF Message

\* A flush moves all that is buffered.
LEMMA FlushLine ==
  ASSUME TypeOK, NEW c \in Chats,
         pending'[c] = <<>>, handed'[c] = handed[c] \o pending[c]
  PROVE  Same(c) /\ \A m : ~In(m, pending'[c])
<1>1. /\ handed[c] \in Seq(Updates) /\ pending[c] \in Seq(Updates)
      /\ handed[c] \o pending[c] \in Seq(Updates)
      /\ \A m : In(m, handed[c] \o pending[c]) <=> In(m, handed[c]) \/ In(m, pending[c])
  BY LineTyped DEF Line
<1>2. \A s \in Seq(Updates) : s \o <<>> = s
  OBVIOUS
<1>3. \A m : ~In(m, <<>>)
  BY DEF In
<1> QED
  BY <1>1, <1>2, <1>3 DEF Same, Line

LEMMA KeptLine ==
  ASSUME NEW c, pending'[c] = pending[c], handed'[c] = handed[c]
  PROVE  Same(c)
BY DEF Same, Line

\* A push puts the message at the end of its chat's line.
LEMMA PushLine ==
  ASSUME TypeOK, NEW c \in Chats, NEW m \in Updates, Push(c, m)
  PROVE  /\ \A d \in Chats : d # c => Same(d)
         /\ Line(c)' = Append(Line(c), m)
         /\ \A n : In(n, handed[c]) => In(n, handed'[c])
         /\ \A n : In(n, pending'[c]) => In(n, pending[c]) \/ n = m
<1> DEFINE batch == Append(pending[c], m)
<1>1. /\ handed[c] \in Seq(Updates) /\ pending[c] \in Seq(Updates)
      /\ handed \in [Chats -> Seq(Updates)] /\ pending \in [Chats -> Seq(Updates)]
  BY DEF TypeOK
<1>2. /\ batch \in Seq(Updates)
      /\ \A n : In(n, batch) => In(n, pending[c]) \/ n = m
      /\ handed[c] \o batch = Append(handed[c] \o pending[c], m)
      /\ handed[c] \o batch \in Seq(Updates)
      /\ (handed[c] \o batch) \o <<>> = handed[c] \o batch
  <2>1. \A n : In(n, batch) => In(n, pending[c]) \/ n = m
    BY <1>1 DEF In
  <2> QED
    BY <1>1, <2>1
<1>3. \A n : ~In(n, <<>>)
  BY DEF In
<1>4. \A n : In(n, handed[c]) => In(n, handed[c] \o batch)
  BY <1>1, <1>2, Concat
<1>5. \/ pending' = [pending EXCEPT ![c] = <<>>] /\ handed' = [handed EXCEPT ![c] = @ \o batch]
      \/ pending' = [pending EXCEPT ![c] = batch] /\ handed' = handed
  BY DEF Push, HandOn
<1> HIDE DEF batch
<1>6. \A d \in Chats : d # c => handed'[d] = handed[d] /\ pending'[d] = pending[d]
  BY <1>1, <1>5
<1>7. \/ pending'[c] = <<>> /\ handed'[c] = handed[c] \o batch
      \/ pending'[c] = batch /\ handed'[c] = handed[c]
  BY <1>1, <1>5
<1>8. Line(c)' = handed[c] \o batch
  BY <1>2, <1>7 DEF Line
<1>9. /\ \A n : In(n, handed[c]) => In(n, handed'[c])
      /\ \A n : In(n, pending'[c]) => In(n, pending[c]) \/ n = m
  BY <1>2, <1>3, <1>4, <1>7
<1> QED
  BY <1>2, <1>6, <1>8, <1>9, KeptLine DEF Line

----------------------------------------------------------------------------
(* Steps that put nothing new into a line.                                 *)

\* The log only grows, at its end.
LEMMA LogGrows ==
  ASSUME TypeOK, [Next]_vars
  PROVE  /\ Sent \subseteq Sent'
         /\ \A m \in Sent : log'[m] = log[m]
         /\ \A m \in Sent' \ Sent : \A n \in Sent : n < m
<1>1. Len(log) \in Nat /\ log \in Seq(Message)
  BY DEF TypeOK
<1>2. CASE log' = log
  BY <1>1, <1>2 DEF Sent
<1>3. ASSUME NEW c \in Chats, NEW k \in Kinds, Send(c, k)
      PROVE  /\ Sent \subseteq Sent'
             /\ \A m \in Sent : log'[m] = log[m]
             /\ \A m \in Sent' \ Sent : \A n \in Sent : n < m
  <2>1. Len(log') = Len(log) + 1 /\ \A m \in 1 .. Len(log) : log'[m] = log[m]
    BY <1>1, <1>3 DEF Send
  <2> QED
    BY <1>1, <2>1 DEF Sent
<1>4. (\A c \in Chats, k \in Kinds : ~Send(c, k)) => log' = log
  BY DEF Next, vars, Serve, StartOk, StartFails, Answered, PollFails, SleepEnds, Handle,
         FlushTimer, MediaReady, MediaFails, Expire, Restart, Crash, serverVars
<1> QED
  BY <1>2, <1>3, <1>4

\* If the lines stay, no download begins and nothing is forgotten by the cache but by the
\* rule, the invariant stays.
LEMMA Calm ==
  ASSUME TypeOK, TypeOK', AnswersInv', OrderInv, [Next]_vars, ~Crash,
         \A c \in Chats : Same(c),
         \A m \in Updates : downloads'[m] <= downloads[m],
         seen' \subseteq seen, forgotten \subseteq forgotten',
         overlapped => overlapped' /\ \A m \in seen \ seen' : m \in forgotten',
         \A m \in lost' \ lost : m \in Sent /\ log[m].kind = "media"
  PROVE  OrderInv'
<1>1. /\ Sent \subseteq Sent'
      /\ \A m \in Sent : log'[m] = log[m]
      /\ \A m \in Sent' \ Sent : \A n \in Sent : n < m
  BY LogGrows
<1>2. \A m \in Sent : (Gone(m) => Gone(m)') /\ (Safe(m) => Safe(m)')
  BY NextSafe DEF OrderInv
<1>3. \A c \in Chats : \A m \in Updates : In(m, Line(c)') => m \in Sent /\ log[m].chat = c
  BY DEF OrderInv, FiledInv, Same
<1>4. \A m \in Updates : downloads'[m] > 0 => downloads[m] > 0 /\ m \in Sent
  <2>1. /\ downloads \in [Updates -> Nat] /\ downloads' \in [Updates -> Nat]
        /\ \A m \in Updates : downloads[m] > 0 => m \in Sent
    BY DEF TypeOK
  <2>2. \A m \in Updates : downloads'[m] \in Nat /\ downloads[m] \in Nat
    BY <2>1
  <2> QED
    BY <2>1, <2>2
<1>5. \A m \in Sent : m \in Updates /\ m \in Nat /\ log[m].chat \in Chats
  BY MessageTyped
<1>6. ASSUME NEW m \in Sent', InLine(m)'
      PROVE  m \in Sent /\ InLine(m)
  <2>1. m \in Updates /\ log'[m].chat \in Chats
    BY MessageTypedNext
  <2>2. PICK c \in Chats : c = log'[m].chat
    BY <2>1
  <2>3. In(m, Line(c)')
    BY <1>6, <2>2 DEF InLine, Line
  <2>4. m \in Sent /\ log[m].chat = c
    BY <1>3, <2>1, <2>3
  <2>5. Line(c)' = Line(c)
    BY DEF Same
  <2> QED
    BY <2>3, <2>4, <2>5 DEF InLine
<1>7. \A m \in Sent : InLine(m) => InLine(m)'
  BY <1>1, <1>5 DEF InLine, Same
<1>8. FiledInv'
  <2>1. \A c \in Chats : \A m \in Updates : In(m, Line(c)') => m \in Sent' /\ log'[m].chat = c
    BY <1>1, <1>3
  <2>2. ASSUME NEW c \in Chats, NEW m \in Updates, In(m, pending'[c])
        PROVE  log'[m].kind = "text"
    <3>1. In(m, pending[c])
      BY <2>2 DEF Same
    <3>2. m \in Sent /\ log[m].kind = "text"
      BY <3>1, LineTyped DEF OrderInv, FiledInv
    <3> QED
      BY <1>1, <3>2
  <2>3. \A m \in Updates : downloads'[m] > 0 => log'[m].kind = "media"
    BY <1>1, <1>4 DEF OrderInv, FiledInv
  <2> QED
    BY <2>1, <2>2, <2>3 DEF FiledInv
<1>9. SeenInv'
  BY <1>2 DEF OrderInv, SeenInv, TypeOK
<1>10. ASSUME NEW m \in Sent', m \notin seen', m \notin forgotten',
              InLine(m)' \/ downloads'[m] > 0
       PROVE  Safe(m)'
  <2>1. m \in Sent /\ (InLine(m) \/ downloads[m] > 0) /\ m \notin forgotten
    <3>1. m \in Updates
      BY MessageTypedNext
    <3> QED
      BY <1>4, <1>6, <1>10, <3>1
  <2>2. CASE m \notin seen
    BY <1>2, <2>1, <2>2 DEF OrderInv, DoneInv
  <2>3. CASE m \in seen
    <3>1. ~overlapped
      BY <1>10, <2>3
    <3> QED
      BY <1>2, <2>1, <2>3, <3>1 DEF OrderInv, SeenInv
  <2> QED
    BY <2>2, <2>3
<1>11. DoneInv'
  BY <1>10 DEF DoneInv
<1>12. LinesInv'
  <2>1. Media \subseteq Media'
    BY <1>1 DEF Media
  <2>2. ASSUME NEW c \in Chats
        PROVE  Unique(Line(c)', forgotten') /\ Sorted(Line(c)', Media')
    BY <2>1 DEF OrderInv, LinesInv, Same, Unique, Sorted
  <2> QED
    BY <2>2 DEF LinesInv
<1>13. OnceInv'
  <2>1. ASSUME NEW m \in Sent', m \notin forgotten'
        PROVE  downloads'[m] <= 1 /\ (downloads'[m] > 0 => ~InLine(m)')
    <3>1. m \in Updates /\ downloads'[m] \in Nat
      BY MessageTypedNext DEF TypeOK
    <3>2. CASE m \in Sent
      <4>1. m \in Updates /\ downloads[m] \in Nat /\ downloads'[m] <= downloads[m]
        BY <3>1 DEF TypeOK
      <4> QED
        BY <1>4, <1>6, <2>1, <3>1, <3>2, <4>1 DEF OrderInv, OnceInv
    <3>3. CASE m \notin Sent
      BY <1>4, <3>1, <3>3
    <3> QED
      BY <3>2, <3>3
  <2> QED
    BY <2>1 DEF OnceInv
<1>14. NoGapInv'
  <2>1. ASSUME NEW m \in Sent', NEW n \in Sent', m < n, log'[m].kind = "text",
               log'[m].chat = log'[n].chat, InLine(n)' \/ downloads'[n] > 0
        PROVE  InLine(m)' \/ Gone(m)'
    <3>1. m \in Nat /\ n \in Updates /\ n \in Nat
      BY MessageTypedNext
    <3>2. n \in Sent /\ (InLine(n) \/ downloads[n] > 0)
      BY <1>4, <1>6, <2>1, <3>1
    <3>3. m \in Sent
      BY <1>1, <2>1, <3>1, <3>2
    <3>4. InLine(m) \/ Gone(m)
      BY <1>1, <2>1, <3>2, <3>3 DEF OrderInv, NoGapInv
    <3> QED
      BY <1>2, <1>7, <3>3, <3>4
  <2> QED
    BY <2>1 DEF NoGapInv
<1>15. OvertakenInv'
  <2>1. ASSUME NEW m \in Sent', NEW n \in Sent', m < n, log'[m].chat = log'[n].chat,
               downloads'[n] > 0, In(m, pending'[log'[m].chat])
        PROVE  In(m, handed'[log'[m].chat])
    <3>1. n \in Updates /\ n \in Nat /\ m \in Nat
      BY MessageTypedNext
    <3>2. n \in Sent /\ downloads[n] > 0
      BY <1>4, <2>1, <3>1
    <3>3. m \in Sent /\ log'[m] = log[m] /\ log'[n] = log[n] /\ log[m].chat \in Chats
      BY <1>1, <1>5, <2>1, <3>1, <3>2
    <3>4. In(m, pending[log[m].chat])
      BY <2>1, <3>3 DEF Same
    <3>5. In(m, handed[log[m].chat])
      BY <2>1, <3>2, <3>3, <3>4 DEF OrderInv, OvertakenInv
    <3> QED
      BY <3>3, <3>5 DEF Same
  <2> QED
    BY <2>1 DEF OvertakenInv
<1>16. LostInv'
  BY <1>1, <1>2 DEF OrderInv, LostInv, TypeOK
<1> QED
  BY <1>8, <1>9, <1>11, <1>12, <1>13, <1>14, <1>15, <1>16 DEF OrderInv

----------------------------------------------------------------------------
(* Steps that do.                                                          *)

\* A message the loop takes up and does not know: it was not safe, so it was not handed on
\* before, or is forgotten; what came before it in its chat is accounted for; and it is
\* safe afterwards, if this is the only loop.
LEMMA TakenUp ==
  ASSUME IInv, OrderInv, NEW l \in Loops, NEW m \in Updates, Handle(l, m), m \notin seen
  PROVE  /\ m \in Sent /\ ~Gone(m)
         /\ InLine(m) \/ downloads[m] > 0 => m \in forgotten
         /\ \A n \in Sent : n < m /\ log[n].kind = "text" => InLine(n) \/ Gone(n)
         /\ ~overlapped => Safe(m)'
<1>1. m \in inbox /\ m \in Sent /\ inbox \subseteq Nat /\ m \in Nat /\ Len(log) \in Nat
  BY DEF Handle, IInv, TypeOK, Sent
<1>2. ~Gone(m) /\ ~Safe(m)
  BY <1>1 DEF Safe, Gone, Ahead
<1>3. InLine(m) \/ downloads[m] > 0 => m \in forgotten
  BY <1>1, <1>2 DEF OrderInv, DoneInv
<1>4. ASSUME NEW n \in Sent, n < m, log[n].kind = "text"
      PROVE  InLine(n) \/ Gone(n)
  <2>1. n \notin inbox
    BY <1>1, <1>4 DEF Handle, Sent
  <2>2. Accounted(n)
    BY <1>1, <1>4, <2>1 DEF IInv, PassedInv, Passed, Behind
  <2>3. log[n].chat \in Chats /\ n \in Updates
    BY <1>4, MessageTyped DEF IInv
  <2>4. HandedOn(n) \/ In(n, pending[log[n].chat]) => InLine(n)
    BY <2>3, LineTyped DEF IInv, HandedOn, InLine
  <2>5. ~(downloads[n] > 0)
    BY <1>4, <2>3 DEF OrderInv, FiledInv
  <2>6. n \in lost => Gone(n)
    BY <1>4 DEF OrderInv, LostInv
  <2> QED
    BY <1>4, <2>2, <2>4, <2>5, <2>6 DEF Accounted
<1>5. ASSUME ~overlapped
      PROVE  Safe(m)'
  <2>1. offset' = m + 1 /\ inbox' = inbox \ {m} /\ \A n \in inbox' : m < n
    BY <1>1 DEF Handle
  <2>2. \A k \in Loops : answer[k] # {} => loop[k] = "served"
    BY DEF OrderInv, AnswersInv
  <2>3. loop[l] = "handling" /\ \A k \in Loops : k # l => loop[k] = "off"
    BY <1>5 DEF Handle, IInv, LoopInv, Live
  <2>4. \A k \in Loops : /\ answer'[k] \subseteq answer[k]
                         /\ loop'[k] = "asking" => loop[k] = "asking" \/ asked'[k] = offset'
    <3>1. CASE UNCHANGED loopVars
      BY <3>1 DEF loopVars
    <3>2. CASE Resume(l)
      BY <3>2 DEF Resume, Leave, IInv, TypeOK
    <3> QED
      BY <3>1, <3>2 DEF Handle
  <2>5. \A k \in Loops : answer'[k] = {} /\ (loop'[k] = "asking" => asked'[k] = offset')
    BY <2>2, <2>3, <2>4
  <2> QED
    BY <1>1, <2>1, <2>5 DEF Safe, Ahead
<1> QED
  BY <1>1, <1>2, <1>3, <1>4, <1>5

\* What is in a line was sent to its chat.
LEMMA LineFiled ==
  ASSUME TypeOK, FiledInv, NEW c \in Chats, NEW m, In(m, Line(c))
  PROVE  m \in Updates /\ m \in Sent /\ log[m].chat = c /\ InLine(m)
BY LineTyped DEF FiledInv, InLine

\* Whether a message is in its line, while nothing is sent.
LEMMA LineNext ==
  ASSUME log' = log, NEW m, NEW c, log[m].chat = c
  PROVE  InLine(m)' <=> In(m, Line(c)')
BY DEF InLine, Line

\* A text is put at the end of its line.
LEMMA TextOrder ==
  ASSUME IInv, TypeOK', OrderInv, AnswersInv', NEW l \in Loops, NEW m \in Updates,
         Handle(l, m), m \notin seen, log[m].kind = "text",
         seen' = seen \cup {m}, Push(log[m].chat, m), downloads' = downloads
  PROVE  OrderInv'
<1>1. /\ m \in Sent /\ ~Gone(m)
      /\ InLine(m) \/ downloads[m] > 0 => m \in forgotten
      /\ \A n \in Sent : n < m /\ log[n].kind = "text" => InLine(n) \/ Gone(n)
      /\ ~overlapped => Safe(m)'
  BY TakenUp
<1>2. TypeOK /\ log[m].chat \in Chats
  BY <1>1, ChatTyped DEF IInv
<1>c. PICK c \in Chats : c = log[m].chat
  BY <1>2
<1>3. /\ \A d \in Chats : d # c => Same(d)
      /\ Line(c)' = Append(Line(c), m)
      /\ \A n : In(n, handed[c]) => In(n, handed'[c])
      /\ \A n : In(n, pending'[c]) => In(n, pending[c]) \/ n = m
  BY <1>2, <1>c, PushLine
<1>4. UNCHANGED <<log, lost, forgotten, overlapped>> /\ Sent' = Sent /\ Media' = Media
  BY DEF Handle, serverVars, historyVars, Sent, Media
<1>5. [Next]_vars /\ ~Crash
  <2>1. Next
    BY DEF Next
  <2>2. inbox # {}
    BY DEF Handle
  <2> QED
    BY <2>1, <2>2 DEF Crash, Quiet
<1>6. \A n \in Sent : (Gone(n) => Gone(n)') /\ (Safe(n) => Safe(n)')
  BY <1>2, <1>5, NextSafe DEF OrderInv
<1>7. \A n \in Sent : n \in Updates /\ n \in Nat /\ log[n].chat \in Chats
  BY <1>2, MessageTyped
<1>8. Line(c) \in Seq(Updates) /\ \A n : In(n, Append(Line(c), m)) <=> In(n, Line(c)) \/ n = m
  <2>1. Line(c) \in Seq(Updates)
    BY <1>2, LineTyped
  <2> QED
    BY <2>1 DEF In
<1>9. \A d \in Chats : \A n : In(n, Line(d)') <=> In(n, Line(d)) \/ (d = c /\ n = m)
  BY <1>3, <1>8 DEF Same
<1>10. \A n \in Sent : InLine(n)' <=> InLine(n) \/ n = m
  BY <1>c, <1>4, <1>7, <1>9, LineNext DEF InLine
<1>11. FiledInv'
  <2>1. \A d \in Chats : \A n \in Updates : In(n, Line(d)') => n \in Sent /\ log[n].chat = d
    BY <1>1, <1>9, <1>c DEF OrderInv, FiledInv
  <2>2. \A d \in Chats : \A n \in Updates : In(n, pending'[d]) => log[n].kind = "text"
    BY <1>3 DEF OrderInv, FiledInv, Same
  <2> QED
    BY <1>4, <2>1, <2>2 DEF OrderInv, FiledInv
<1>12. SeenInv'
  BY <1>1, <1>2, <1>4, <1>6 DEF OrderInv, SeenInv, TypeOK
<1>13. DoneInv'
  BY <1>4, <1>6, <1>10 DEF OrderInv, DoneInv
<1>14. LinesInv'
  <2>1. ASSUME NEW d \in Chats
        PROVE  Unique(Line(d)', forgotten) /\ Sorted(Line(d)', Media)
    <3>1. Unique(Line(d), forgotten) /\ Sorted(Line(d), Media)
      BY DEF OrderInv, LinesInv
    <3>2. CASE d = c
      <4>1. In(m, Line(c)) => m \in forgotten
        BY <1>c, <1>1 DEF InLine
      <4>2. ASSUME ~In(m, Line(c)), NEW i \in 1 .. Len(Line(c))
            PROVE  Line(c)[i] <= m
        <5>1. In(Line(c)[i], Line(c))
          BY DEF In
        <5>2. PICK n \in Sent : n = Line(c)[i] /\ log[n].chat = c /\ InLine(n)
          BY <1>2, <5>1, LineFiled DEF OrderInv
        <5>3. ~(m < n)
          BY <1>1, <1>c, <4>2, <5>2 DEF OrderInv, NoGapInv, InLine
        <5> QED
          BY <1>1, <1>7, <5>2, <5>3
      <4> QED
        BY <1>3, <1>8, <3>1, <3>2, <4>1, <4>2, AppendKeeps
    <3>3. CASE d # c
      BY <1>3, <3>1, <3>3 DEF Same
    <3> QED
      BY <3>2, <3>3
  <2> QED
    BY <1>4, <2>1 DEF LinesInv
<1>15. OnceInv'
  <2>1. ~(downloads[m] > 0)
    BY DEF OrderInv, FiledInv
  <2> QED
    BY <1>4, <1>10, <2>1 DEF OrderInv, OnceInv
<1>16. NoGapInv'
  <2>1. ASSUME NEW i \in Sent, NEW j \in Sent, i < j, log[i].kind = "text",
               log[i].chat = log[j].chat, InLine(j)' \/ downloads[j] > 0
        PROVE  InLine(i)' \/ Gone(i)'
    <3>1. CASE j = m
      BY <1>1, <1>6, <1>10, <2>1, <3>1
    <3>2. CASE j # m
      <4>1. InLine(i) \/ Gone(i)
        BY <1>10, <2>1, <3>2 DEF OrderInv, NoGapInv
      <4> QED
        BY <1>6, <1>10, <4>1
    <3> QED
      BY <3>1, <3>2
  <2> QED
    BY <1>4, <2>1 DEF NoGapInv
<1>17. OvertakenInv'
  <2>1. ASSUME NEW i \in Sent, NEW j \in Sent, i < j, log[i].chat = log[j].chat,
               downloads[j] > 0, In(i, pending'[log[i].chat])
        PROVE  In(i, handed'[log[i].chat])
    <3>1. CASE In(i, pending[log[i].chat])
      <4>1. In(i, handed[log[i].chat])
        BY <2>1, <3>1 DEF OrderInv, OvertakenInv
      <4> QED
        BY <1>3, <1>7, <4>1 DEF Same
    <3>2. CASE ~In(i, pending[log[i].chat])
      <4>1. i = m
        BY <1>3, <1>7, <2>1, <3>2 DEF Same
      <4>2. InLine(m)
        BY <1>1, <2>1, <4>1 DEF OrderInv, NoGapInv
      <4>3. In(m, handed[c])
        BY <1>c, <1>2, <3>2, <4>1, <4>2, LineTyped DEF InLine
      <4> QED
        BY <1>3, <1>c, <4>1, <4>3
    <3> QED
      BY <3>1, <3>2
  <2> QED
    BY <1>4, <2>1 DEF OvertakenInv
<1>18. LostInv'
  BY <1>2, <1>4, <1>6 DEF OrderInv, LostInv, TypeOK
<1> QED
  BY <1>11, <1>12, <1>13, <1>14, <1>15, <1>16, <1>17, <1>18 DEF OrderInv

\* Media flushes what its chat has buffered, and its download begins.
LEMMA MediaOrder ==
  ASSUME IInv, TypeOK', OrderInv, AnswersInv', NEW l \in Loops, NEW m \in Updates,
         Handle(l, m), m \notin seen, log[m].kind = "media",
         seen' = seen \cup {m}, Flush(log[m].chat),
         downloads' = [downloads EXCEPT ![m] = @ + 1]
  PROVE  OrderInv'
<1>1. /\ m \in Sent /\ ~Gone(m)
      /\ InLine(m) \/ downloads[m] > 0 => m \in forgotten
      /\ \A n \in Sent : n < m /\ log[n].kind = "text" => InLine(n) \/ Gone(n)
      /\ ~overlapped => Safe(m)'
  BY TakenUp
<1>2. TypeOK /\ log[m].chat \in Chats
  BY <1>1, ChatTyped DEF IInv
<1>3. PICK c \in Chats : c = log[m].chat
  BY <1>2
<1>4. (\A d \in Chats : Same(d)) /\ \A n : ~In(n, pending'[c])
  <2>1. \A d \in Chats : /\ pending'[d] = IF d = c THEN <<>> ELSE pending[d]
                         /\ handed'[d] = IF d = c THEN handed[d] \o pending[d] ELSE handed[d]
    BY <1>2, <1>3 DEF Flush, HandOn, TypeOK
  <2> QED
    BY <1>2, <2>1, FlushLine, KeptLine
<1>5. UNCHANGED <<log, lost, forgotten, overlapped>> /\ Sent' = Sent /\ Media' = Media
  BY DEF Handle, serverVars, historyVars, Sent, Media
<1>6. [Next]_vars /\ ~Crash
  <2>1. Next
    BY DEF Next
  <2>2. inbox # {}
    BY DEF Handle
  <2> QED
    BY <2>1, <2>2 DEF Crash, Quiet
<1>7. \A n \in Sent : (Gone(n) => Gone(n)') /\ (Safe(n) => Safe(n)')
  BY <1>2, <1>6, NextSafe DEF OrderInv
<1>8. \A n \in Sent : n \in Updates /\ n \in Nat /\ log[n].chat \in Chats
  BY <1>2, MessageTyped
<1>9. \A n \in Updates : /\ downloads[n] \in Nat
                         /\ downloads'[n] = IF n = m THEN downloads[n] + 1 ELSE downloads[n]
  BY <1>2 DEF TypeOK
<1>10. \A n \in Sent : InLine(n)' <=> InLine(n)
  BY <1>4, <1>5, <1>8, LineNext DEF InLine, Same
<1>11. FiledInv'
  <2>1. \A d \in Chats : \A n \in Updates : In(n, Line(d)') => n \in Sent /\ log[n].chat = d
    BY <1>4 DEF OrderInv, FiledInv, Same
  <2>2. \A d \in Chats : \A n \in Updates : In(n, pending'[d]) => log[n].kind = "text"
    BY <1>4 DEF OrderInv, FiledInv, Same
  <2>3. \A n \in Updates : downloads'[n] > 0 => log[n].kind = "media"
    BY <1>9 DEF OrderInv, FiledInv
  <2> QED
    BY <1>5, <2>1, <2>2, <2>3 DEF FiledInv
<1>12. SeenInv'
  BY <1>1, <1>2, <1>5, <1>7 DEF OrderInv, SeenInv, TypeOK
<1>13. DoneInv'
  BY <1>5, <1>7, <1>8, <1>9, <1>10 DEF OrderInv, DoneInv
<1>14. LinesInv'
  <2>1. \A d \in Chats : Unique(Line(d)', forgotten) /\ Sorted(Line(d)', Media)
    BY <1>4 DEF OrderInv, LinesInv, Same
  <2> QED
    BY <1>5, <2>1 DEF LinesInv
<1>15. OnceInv'
  <2>1. ASSUME NEW n \in Sent \ forgotten
        PROVE  downloads'[n] <= 1 /\ (downloads'[n] > 0 => ~InLine(n))
    <3>1. CASE n = m
      BY <1>1, <1>9, <3>1
    <3>2. CASE n # m
      BY <1>8, <1>9, <3>2 DEF OrderInv, OnceInv
    <3> QED
      BY <3>1, <3>2
  <2> QED
    BY <1>5, <1>10, <2>1 DEF OnceInv
<1>16. NoGapInv'
  <2>1. ASSUME NEW i \in Sent, NEW j \in Sent, i < j, log[i].kind = "text",
               log[i].chat = log[j].chat, InLine(j) \/ downloads'[j] > 0
        PROVE  InLine(i) \/ Gone(i)
    <3>1. CASE j = m
      BY <1>1, <2>1, <3>1
    <3>2. CASE j # m
      BY <1>8, <1>9, <2>1, <3>2 DEF OrderInv, NoGapInv
    <3> QED
      BY <3>1, <3>2
  <2> QED
    BY <1>5, <1>7, <1>10, <2>1 DEF NoGapInv
<1>17. OvertakenInv'
  <2>1. ASSUME NEW i \in Sent, NEW j \in Sent, i < j, log[i].chat = log[j].chat,
               downloads'[j] > 0, In(i, pending'[log[i].chat])
        PROVE  In(i, handed'[log[i].chat])
    <3>1. j # m
      BY <1>3, <1>4, <2>1
    <3>2. downloads[j] > 0 /\ In(i, pending[log[i].chat])
      BY <1>4, <1>8, <1>9, <2>1, <3>1 DEF Same
    <3>3. In(i, handed[log[i].chat])
      BY <2>1, <3>2 DEF OrderInv, OvertakenInv
    <3> QED
      BY <1>4, <1>8, <3>3 DEF Same
  <2> QED
    BY <1>5, <2>1 DEF OvertakenInv
<1>18. LostInv'
  BY <1>2, <1>5, <1>7 DEF OrderInv, LostInv, TypeOK
<1> QED
  BY <1>11, <1>12, <1>13, <1>14, <1>15, <1>16, <1>17, <1>18 DEF OrderInv

\* A download that is through is put before what its chat has buffered.
LEMMA ReadyOrder ==
  ASSUME TypeOK, TypeOK', OrderInv, AnswersInv', NEW m \in Updates, MediaReady(m)
  PROVE  OrderInv'
<1>1. /\ downloads[m] > 0 /\ m \in Sent /\ log[m].kind = "media" /\ m \in Media
      /\ log[m].chat \in Chats
  <2>1. downloads[m] > 0 /\ m \in Sent /\ log[m].kind = "media"
    BY DEF MediaReady, TypeOK, OrderInv, FiledInv
  <2> QED
    BY <2>1, ChatTyped DEF Media
<1>2. PICK c \in Chats : c = log[m].chat
  BY <1>1
<1>3. /\ \A d \in Chats : handed'[d] = IF d = c THEN handed[c] \o <<m>> ELSE handed[d]
      /\ pending' = pending
  BY <1>2 DEF MediaReady, HandOn, TypeOK
<1>4. \A n \in Updates : /\ downloads[n] \in Nat
                         /\ downloads'[n] = IF n = m THEN downloads[n] - 1 ELSE downloads[n]
  BY DEF MediaReady, TypeOK
<1>5. UNCHANGED <<log, lost, forgotten, overlapped, seen>> /\ Sent' = Sent /\ Media' = Media
  BY DEF MediaReady, serverVars, historyVars, Sent, Media
<1>6. [Next]_vars /\ \A n \in Sent : (Gone(n) => Gone(n)') /\ (Safe(n) => Safe(n)')
  <2>1. \A n \in Sent : (Gone(n) <=> Gone(n)') /\ (Ahead(n) <=> Ahead(n)')
    BY DEF MediaReady, serverVars, pollVars, loopVars, Gone, Ahead
  <2>2. Next
    BY DEF Next
  <2> QED
    BY <2>1, <2>2 DEF Safe
<1>7. \A n \in Sent : n \in Updates /\ n \in Nat /\ log[n].chat \in Chats
  BY MessageTyped
<1>8. /\ handed[c] \in Seq(Updates) /\ pending[c] \in Seq(Updates)
      /\ \A n : In(n, Line(c)) <=> In(n, handed[c]) \/ In(n, pending[c])
      /\ \A n : In(n, handed[c]) \/ In(n, pending[c]) => n \in Updates
  BY LineTyped
<1>9. /\ handed[c] \o <<m>> \in Seq(Updates)
      /\ \A n : In(n, handed[c] \o <<m>>) <=> In(n, handed[c]) \/ n = m
      /\ \A n : In(n, (handed[c] \o <<m>>) \o pending[c])
                 <=> In(n, handed[c]) \/ n = m \/ In(n, pending[c])
  <2>1. <<m>> \in Seq(Updates) /\ \A n : In(n, <<m>>) <=> n = m
    BY DEF In
  <2>2. /\ handed[c] \o <<m>> \in Seq(Updates)
        /\ \A n : In(n, handed[c] \o <<m>>) <=> In(n, handed[c]) \/ n = m
    BY <1>8, <2>1, Concat
  <2> QED
    BY <1>8, <2>2, Concat
<1>10. /\ Line(c)' = (handed[c] \o <<m>>) \o pending[c]
       /\ \A d \in Chats : d # c => Line(d)' = Line(d)
       /\ \A d \in Chats : \A n : In(n, Line(d)') <=> In(n, Line(d)) \/ (d = c /\ n = m)
       /\ \A d \in Chats : \A n : In(n, handed[d]) => In(n, handed'[d])
  <2>1. /\ Line(c)' = (handed[c] \o <<m>>) \o pending[c]
        /\ \A d \in Chats : d # c => Line(d)' = Line(d)
    BY <1>3 DEF Line
  <2> QED
    BY <1>3, <1>8, <1>9, <2>1
<1>11. \A n \in Sent : InLine(n)' <=> InLine(n) \/ n = m
  BY <1>2, <1>5, <1>7, <1>10, LineNext DEF InLine
<1>12. FiledInv'
  <2>1. \A d \in Chats : \A n \in Updates : In(n, Line(d)') => n \in Sent /\ log[n].chat = d
    BY <1>1, <1>2, <1>10 DEF OrderInv, FiledInv
  <2>2. \A n \in Updates : downloads'[n] > 0 => log[n].kind = "media"
    BY <1>1, <1>4 DEF OrderInv, FiledInv
  <2> QED
    BY <1>3, <1>5, <2>1, <2>2 DEF OrderInv, FiledInv
<1>13. SeenInv'
  BY <1>5, <1>6 DEF OrderInv, SeenInv, TypeOK
<1>14. DoneInv'
  <2>1. \A n \in Sent : InLine(n)' \/ downloads'[n] > 0 => InLine(n) \/ downloads[n] > 0
    BY <1>1, <1>4, <1>7, <1>11
  <2> QED
    BY <1>5, <1>6, <2>1 DEF OrderInv, DoneInv
<1>15. LinesInv'
  <2>1. In(m, Line(c)) => m \in forgotten
    BY <1>1, <1>2 DEF OrderInv, OnceInv, InLine
  <2>2. ASSUME NEW i \in 1 .. Len(pending[c]), pending[c][i] < m
        PROVE  In(pending[c][i], handed[c])
    <3>1. In(pending[c][i], pending[c])
      BY DEF In
    <3>2. PICK n \in Sent : n = pending[c][i] /\ log[n].chat = c
      BY <1>8, <3>1, LineFiled DEF OrderInv
    <3> QED
      BY <1>1, <1>2, <2>2, <3>1, <3>2 DEF OrderInv, OvertakenInv
  <2>3. ASSUME NEW d \in Chats
        PROVE  Unique(Line(d)', forgotten) /\ Sorted(Line(d)', Media)
    <3>1. Unique(Line(d), forgotten) /\ Sorted(Line(d), Media)
      BY DEF OrderInv, LinesInv
    <3>2. CASE d = c
      <4>1. Unique(handed[c] \o pending[c], forgotten) /\ Sorted(handed[c] \o pending[c], Media)
        BY <3>1, <3>2 DEF Line
      <4>2. In(m, handed[c] \o pending[c]) => m \in forgotten
        BY <2>1 DEF Line
      <4> QED
        <5>1. /\ Unique((handed[c] \o <<m>>) \o pending[c], forgotten)
              /\ Sorted((handed[c] \o <<m>>) \o pending[c], Media)
          BY <1>1, <1>8, <2>2, <4>1, <4>2, InsertKeeps
        <5> QED
          BY <1>10, <3>2, <5>1
    <3>3. CASE d # c
      BY <1>10, <3>1, <3>3
    <3> QED
      BY <3>2, <3>3
  <2> QED
    BY <1>5, <2>3 DEF LinesInv
<1>16. OnceInv'
  <2>1. ASSUME NEW n \in Sent \ forgotten
        PROVE  downloads'[n] <= 1 /\ (downloads'[n] > 0 => ~InLine(n) /\ n # m)
    <3>1. downloads[n] <= 1 /\ (downloads[n] > 0 => ~InLine(n))
      BY DEF OrderInv, OnceInv
    <3> QED
      BY <1>1, <1>4, <1>7, <3>1
  <2> QED
    BY <1>5, <1>11, <2>1 DEF OnceInv
<1>17. NoGapInv'
  <2>1. ASSUME NEW i \in Sent, NEW j \in Sent, i < j, log[i].kind = "text",
               log[i].chat = log[j].chat, InLine(j)' \/ downloads'[j] > 0
        PROVE  InLine(i) \/ Gone(i)
    <3>1. InLine(j) \/ downloads[j] > 0
      BY <1>1, <1>4, <1>7, <1>11, <2>1
    <3> QED
      BY <2>1, <3>1 DEF OrderInv, NoGapInv
  <2> QED
    BY <1>5, <1>6, <1>11, <2>1 DEF NoGapInv
<1>18. OvertakenInv'
  <2>1. ASSUME NEW i \in Sent, NEW j \in Sent, i < j, log[i].chat = log[j].chat,
               downloads'[j] > 0, In(i, pending[log[i].chat])
        PROVE  In(i, handed'[log[i].chat])
    <3>1. downloads[j] > 0
      BY <1>4, <1>7, <2>1
    <3> QED
      BY <1>7, <1>10, <2>1, <3>1 DEF OrderInv, OvertakenInv
  <2> QED
    BY <1>3, <1>5, <2>1 DEF OvertakenInv
<1>19. LostInv'
  BY <1>5, <1>6 DEF OrderInv, LostInv, TypeOK
<1> QED
  BY <1>12, <1>13, <1>14, <1>15, <1>16, <1>17, <1>18, <1>19 DEF OrderInv

\* A crash keeps what was handed on, and forgets of that what the server may serve again.
LEMMA CrashOrder ==
  ASSUME TypeOK, TypeOK', OrderInv, AnswersInv', Crash
  PROVE  OrderInv'
<1>1. /\ UNCHANGED <<log, confirmed, inbox, handed>> /\ inbox = {} /\ seen' = {}
      /\ pending' = [c \in Chats |-> <<>>]
      /\ downloads' = [m \in Updates |-> 0]
      /\ Sent' = Sent /\ Media' = Media /\ overlapped' = FALSE
      /\ \A l \in Loops : answer'[l] = {}
  BY DEF Crash, Quiet, serverVars, Sent, Media
<1>2. forgotten' = forgotten \cup {m \in Sent : m > confirmed /\ (m < offset \/ m \in seen)}
  BY DEF Crash
<1>3. \A m \in lost' \ lost : m \in 1 .. confirmed
  BY DEF Crash
<1>4. confirmed \in Nat /\ Sent \subseteq Nat
  <2>1. Len(log) \in Nat /\ confirmed \in 0 .. Len(log)
    BY DEF TypeOK
  <2> QED
    BY <2>1 DEF Sent
<1>5. \A m \in Sent : m <= confirmed => Gone(m)'
  BY <1>1 DEF Gone
<1>6. \A m \in Sent : Gone(m) => Gone(m)'
  BY <1>5 DEF Gone
<1>7. \A m \in Sent : m \in Updates /\ m \in Nat /\ log[m].chat \in Chats
  BY MessageTyped
<1>8. /\ \A c \in Chats : Line(c)' = handed[c]
      /\ \A c \in Chats : \A m : ~In(m, pending'[c])
      /\ \A c \in Chats : \A m : In(m, handed[c]) => In(m, Line(c))
  <2>1. \A c \in Chats : /\ handed[c] \in Seq(Updates)
                         /\ \A m : In(m, handed[c]) => In(m, Line(c))
    BY LineTyped
  <2>2. \A s \in Seq(Updates) : s \o <<>> = s
    OBVIOUS
  <2>3. \A m : ~In(m, <<>>)
    BY DEF In
  <2>4. \A c \in Chats : pending'[c] = <<>> /\ handed'[c] = handed[c]
    BY <1>1
  <2> QED
    BY <2>1, <2>2, <2>3, <2>4 DEF Line
<1>9. \A m \in Sent : InLine(m)' <=> In(m, handed[log[m].chat])
  BY <1>1, <1>7, <1>8, LineNext
<1>10. \A m \in Updates : ~(downloads'[m] > 0)
  BY <1>1
<1>11. FiledInv'
  <2>1. \A c \in Chats : \A m \in Updates : In(m, Line(c)') => m \in Sent /\ log[m].chat = c
    BY <1>8 DEF OrderInv, FiledInv
  <2> QED
    BY <1>1, <1>8, <1>10, <2>1 DEF FiledInv
<1>12. SeenInv'
  BY <1>1 DEF SeenInv
<1>13. DoneInv'
  <2>1. ASSUME NEW m \in Sent, m \notin forgotten', InLine(m)'
        PROVE  Gone(m)'
    <3>1. InLine(m) /\ m \notin forgotten
      BY <1>2, <1>7, <1>8, <1>9, <2>1 DEF InLine
    <3>2. CASE m \in seen
      BY <1>2, <1>4, <1>5, <2>1, <3>2
    <3>3. CASE m \notin seen
      <4>1. Safe(m)
        BY <3>1, <3>3 DEF OrderInv, DoneInv
      <4>2. CASE Gone(m)
        BY <1>6, <4>2
      <4>3. CASE Ahead(m)
        BY <1>2, <1>4, <1>5, <2>1, <4>3 DEF Ahead
      <4> QED
        BY <4>1, <4>2, <4>3 DEF Safe
    <3> QED
      BY <3>2, <3>3
  <2> QED
    BY <1>1, <1>7, <1>10, <2>1 DEF DoneInv, Safe
<1>14. LinesInv' /\ \A c \in Chats : \A m, n \in Updates :
         m < n /\ m \notin Media /\ In(n, handed[c]) /\ In(m, Line(c)) => In(m, handed[c])
  <2>1. ASSUME NEW c \in Chats
        PROVE  /\ Unique(handed[c], forgotten) /\ Sorted(handed[c], Media)
               /\ \A m, n \in Updates :
                    m < n /\ m \notin Media /\ In(n, handed[c]) /\ In(m, Line(c))
                    => In(m, handed[c])
    <3>1. /\ handed[c] \in Seq(Updates) /\ pending[c] \in Seq(Updates)
          /\ Unique(handed[c] \o pending[c], forgotten)
          /\ Sorted(handed[c] \o pending[c], Media)
      BY LineTyped DEF OrderInv, LinesInv, Line
    <3> QED
      BY <3>1, PrefixKeeps DEF Line
  <2>2. \A c \in Chats : Unique(Line(c)', forgotten') /\ Sorted(Line(c)', Media)
    BY <1>2, <1>8, <2>1 DEF Unique
  <2> QED
    BY <1>1, <2>1, <2>2 DEF LinesInv
<1>15. OnceInv'
  <2>1. \A m \in Sent : downloads'[m] = 0
    BY <1>1, <1>7
  <2> QED
    BY <1>1, <2>1 DEF OnceInv
<1>16. NoGapInv'
  <2>1. ASSUME NEW m \in Sent, NEW n \in Sent, m < n, log[m].kind = "text",
               log[m].chat = log[n].chat, InLine(n)'
        PROVE  InLine(m)' \/ Gone(m)'
    <3>1. In(n, handed[log[n].chat]) /\ InLine(n)
      BY <1>7, <1>8, <1>9, <2>1 DEF InLine
    <3>2. CASE InLine(m)
      <4>1. m \notin Media
        BY <2>1 DEF Media
      <4>2. In(m, handed[log[m].chat])
        BY <1>7, <1>14, <2>1, <3>1, <3>2, <4>1 DEF InLine
      <4> QED
        BY <1>9, <4>2
    <3>3. CASE ~InLine(m)
      BY <1>6, <2>1, <3>1, <3>3 DEF OrderInv, NoGapInv
    <3> QED
      BY <3>2, <3>3
  <2> QED
    BY <1>1, <1>7, <1>10, <2>1 DEF NoGapInv
<1>17. OvertakenInv'
  BY <1>1, <1>7, <1>10 DEF OvertakenInv
<1>18. LostInv'
  <2>1. \A m \in lost' : m \in Sent
    BY <1>1 DEF TypeOK
  <2> QED
    BY <1>1, <1>3, <1>5, <1>6, <2>1 DEF OrderInv, LostInv, TypeOK
<1> QED
  BY <1>11, <1>12, <1>13, <1>14, <1>15, <1>16, <1>17, <1>18 DEF OrderInv

----------------------------------------------------------------------------
(* Every step, and the theorem.                                            *)

LEMMA DownloadsTyped ==
  ASSUME TypeOK
  PROVE  downloads \in [Updates -> Nat] /\ \A m \in Updates : downloads[m] \in Nat
BY DEF TypeOK

LEMMA NextOrder ==
  ASSUME IInv, TypeOK', OrderInv, [Next]_vars
  PROVE  OrderInv'
<1>1. TypeOK /\ AnswersInv /\ AnswersInv'
  BY NextAnswers DEF IInv, OrderInv
<1>2. ASSUME ~Crash, UNCHANGED <<batchVars, historyVars>>
      PROVE  OrderInv'
  <2>1. \A c \in Chats : Same(c)
    BY <1>2, KeptLine DEF batchVars
  <2>2. \A m \in Updates : downloads'[m] <= downloads[m]
    BY <1>1, <1>2, DownloadsTyped DEF batchVars
  <2> QED
    BY <1>1, <1>2, <2>1, <2>2, Calm DEF batchVars, historyVars
<1>3. ASSUME NEW l \in Loops, NEW m \in Updates, Handle(l, m)
      PROVE  OrderInv'
  <2>1. UNCHANGED historyVars /\ ~Crash
    BY <1>3 DEF Handle, Crash, Quiet
  <2>2. CASE UNCHANGED batchVars
    BY <1>2, <2>1, <2>2
  <2>3. CASE /\ log[m].kind = "text" /\ m \notin seen /\ seen' = seen \cup {m}
             /\ Push(log[m].chat, m) /\ UNCHANGED downloads
    BY <1>1, <1>3, <2>3, TextOrder
  <2>4. CASE /\ log[m].kind = "media" /\ m \notin seen /\ seen' = seen \cup {m}
             /\ Flush(log[m].chat) /\ downloads' = [downloads EXCEPT ![m] = @ + 1]
    BY <1>1, <1>3, <2>4, MediaOrder
  <2> QED
    BY <1>3, <2>2, <2>3, <2>4 DEF Handle, Receive, Duplicate
<1>4. ASSUME NEW c \in Chats, FlushTimer(c)
      PROVE  OrderInv'
  <2>1. UNCHANGED <<seen, downloads, historyVars>> /\ ~Crash
    BY <1>1, <1>4 DEF FlushTimer, Crash, boundVars, TypeOK
  <2>2. \A d \in Chats : /\ pending'[d] = IF d = c THEN <<>> ELSE pending[d]
                         /\ handed'[d] = IF d = c THEN handed[d] \o pending[d] ELSE handed[d]
    BY <1>1, <1>4 DEF FlushTimer, Flush, HandOn, TypeOK
  <2>3. \A d \in Chats : Same(d)
    BY <1>1, <2>2, FlushLine, KeptLine
  <2>4. \A m \in Updates : downloads'[m] <= downloads[m]
    BY <1>1, <2>1, DownloadsTyped
  <2> QED
    BY <1>1, <2>1, <2>3, <2>4, Calm DEF historyVars
<1>5. ASSUME NEW m \in Updates, MediaFails(m)
      PROVE  OrderInv'
  <2>1. UNCHANGED <<seen, pending, handed, forgotten, overlapped>> /\ lost' = lost \cup {m}
    BY <1>5 DEF MediaFails
  <2>2. ~Crash
    BY <1>5 DEF MediaFails, Crash, boundVars, TypeOK
  <2>3. \A c \in Chats : Same(c)
    BY <2>1, KeptLine
  <2>4. \A n \in Updates : downloads'[n] <= downloads[n]
    BY <1>1, <1>5, DownloadsTyped DEF MediaFails
  <2>5. m \in Sent /\ log[m].kind = "media"
    BY <1>1, <1>5 DEF MediaFails, TypeOK, OrderInv, FiledInv
  <2> QED
    BY <1>1, <2>1, <2>2, <2>3, <2>4, <2>5, Calm
<1>6. ASSUME NEW m \in Updates, Expire(m)
      PROVE  OrderInv'
  <2>1. /\ UNCHANGED <<pending, handed, downloads, lost, overlapped>> /\ seen' = seen \ {m}
        /\ forgotten' = IF overlapped THEN forgotten \cup {m} ELSE forgotten
    BY <1>6 DEF Expire
  <2>2. ~Crash
    BY <1>1, <1>6 DEF Expire, Crash, TypeOK
  <2>3. \A c \in Chats : Same(c)
    BY <2>1, KeptLine
  <2>4. \A n \in Updates : downloads'[n] <= downloads[n]
    BY <1>1, <2>1, DownloadsTyped
  <2> QED
    BY <1>1, <2>1, <2>2, <2>3, <2>4, Calm
<1>7. CASE Restart /\ ~Crash
  <2>1. ~Crash
    BY <1>7
  <2>2. \A c \in Chats : pending'[c] = <<>> /\ handed'[c] = handed[c] \o pending[c]
    BY <1>7 DEF Restart
  <2>3. \A c \in Chats : Same(c)
    BY <1>1, <2>2, FlushLine
  <2>4. PICK failed \in SUBSET {m \in Updates : downloads[m] > 0} :
          /\ downloads' = [m \in Updates |-> IF m \in failed THEN 0 ELSE downloads[m]]
          /\ lost' = lost \cup failed
    BY <1>7 DEF Restart
  <2>5. \A m \in Updates : downloads'[m] <= downloads[m]
    <3>1. \A m \in Updates : downloads[m] \in Nat
      BY <1>1, DownloadsTyped
    <3> QED
      BY <2>4, <3>1
  <2>6. \A m \in failed : m \in Sent /\ log[m].kind = "media"
    BY <1>1, <2>4 DEF TypeOK, OrderInv, FiledInv
  <2>7. seen' = seen /\ forgotten' = forgotten /\ (overlapped => overlapped')
    BY <1>7 DEF Restart
  <2> QED
    BY <1>1, <2>1, <2>3, <2>4, <2>5, <2>6, <2>7, Calm
<1>8. ASSUME NEW m \in Updates, MediaReady(m)
      PROVE  OrderInv'
  BY <1>1, <1>8, ReadyOrder
<1>9. CASE Crash
  BY <1>1, <1>9, CrashOrder
<1>10. ASSUME NEW c \in Chats, NEW k \in Kinds, Send(c, k)
       PROVE  UNCHANGED <<batchVars, historyVars>>
  BY <1>10 DEF Send
<1>11. ASSUME NEW l \in Loops,
              Serve(l) \/ StartOk(l) \/ Answered(l) \/ PollFails(l) \/ SleepEnds(l)
       PROVE  UNCHANGED <<batchVars, historyVars>>
  BY <1>11 DEF Serve, StartOk, Answered, PollFails, SleepEnds
<1>12. CASE StartFails
  BY <1>2, <1>9, <1>12 DEF StartFails
<1>13. CASE UNCHANGED vars
  BY <1>2, <1>9, <1>13 DEF vars
<1> QED
  BY <1>2, <1>3, <1>4, <1>5, <1>6, <1>7, <1>8, <1>9, <1>10, <1>11, <1>12, <1>13 DEF Next

LEMMA InitOrder ==
  ASSUME Init
  PROVE  OrderInv
<1>1. /\ Len(log) = 0 /\ log = <<>> /\ seen = {} /\ lost = {}
      /\ \A c \in Chats : handed[c] = <<>> /\ pending[c] = <<>>
      /\ \A m \in Updates : downloads[m] = 0
      /\ \A l \in Loops : answer[l] = {} /\ asked[l] = 0
  BY DEF Init
<1>2. Sent = {}
  BY <1>1 DEF Sent
<1>3. (\A c \in Chats : Line(c) = <<>>) /\ Len(<<>>) = 0
  <2>1. <<>> \o <<>> = <<>> /\ Len(<<>>) = 0
    OBVIOUS
  <2> QED
    BY <1>1, <2>1 DEF Line
<1>4. AnswersInv /\ SeenInv /\ DoneInv /\ OnceInv /\ NoGapInv /\ OvertakenInv /\ LostInv
  BY <1>1, <1>2
  DEF AnswersInv, SeenInv, DoneInv, OnceInv, NoGapInv, OvertakenInv, LostInv
<1>5. FiledInv
  BY <1>1, <1>3 DEF FiledInv, In
<1>6. LinesInv
  <2>1. \A c \in Chats : Len(Line(c)) = 0
    BY <1>3
  <2>2. \A c \in Chats : \A i \in 1 .. Len(Line(c)) : FALSE
    BY <2>1
  <2> QED
    BY <2>2 DEF LinesInv, Unique, Sorted
<1> QED
  BY <1>4, <1>5, <1>6 DEF OrderInv

\* The lines stay in order, whatever is served again (TelegramAdapter.pollLoop,
\* BaseChannelAdapter.receive).
THEOREM OrderInvariance == Spec => []OrderInv
<1>1. Init => OrderInv
  BY InitOrder
<1>2. IInv /\ IInv' /\ OrderInv /\ [Next]_vars => OrderInv'
  BY NextOrder DEF IInv
<1> QED
  BY <1>1, <1>2, Invariance, PTL DEF Spec

\* What holds of the lines holds of what was handed on.
LEMMA OrderImplies ==
  ASSUME TypeOK, OrderInv
  PROVE  HandedInOrder
<1> SUFFICES ASSUME NEW c \in Chats, NEW i \in 1 .. Len(handed[c]),
                    NEW j \in 1 .. Len(handed[c]), i < j
             PROVE  /\ handed[c][i] = handed[c][j] => handed[c][i] \in forgotten
                    /\ handed[c][i] > handed[c][j] =>
                         \/ \E k \in 1 .. i : handed[c][k] = handed[c][j]
                         \/ log[handed[c][j]].kind = "media"
  BY DEF HandedInOrder, HandedOnce, InOrder
<1>1. /\ handed[c] \in Seq(Updates) /\ pending[c] \in Seq(Updates)
      /\ Unique(handed[c] \o pending[c], forgotten)
      /\ Sorted(handed[c] \o pending[c], Media)
  BY LineTyped DEF OrderInv, LinesInv, Line
<1>2. Unique(handed[c], forgotten) /\ Sorted(handed[c], Media)
  BY <1>1, PrefixKeeps
<1> QED
  BY <1>2 DEF Unique, Sorted, Media

\* For any number of chats, messages, loops and faults: a message is handed to the agent
\* once, and in the order of its chat, but for what was forgotten and for media
\* (BaseChannelAdapter.receive and the poll loop's offset).
THEOREM HandedOnceInOrder == Spec => []HandedInOrder
<1>1. TypeOK /\ OrderInv => HandedInOrder
  BY OrderImplies
<1> QED
  BY <1>1, OrderInvariance, Invariance, PTL DEF IInv

================================================================================
