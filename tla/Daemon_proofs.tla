---------------------------- MODULE Daemon_proofs ----------------------------
(***************************************************************************)
(* Daemon, as MCLive runs it: one boot process at a time, and none that    *)
(* outlives the supervisor with a live event loop, for any number of boot  *)
(* processes and any order of signals, timers, drains and crashes.         *)
(***************************************************************************)
EXTENDS MCLive, TLAPS, FiniteSetTheorems

(* Boot processes one after the other: whoever is not the supervisor's      *)
(* child was never spawned, or is gone and its exit was handled; what is    *)
(* respawned for is the end of the child.                                   *)
OrderInv ==
    /\ \A b \in Boots : b # child /\ boot[b] # "none" => boot[b] = "gone" /\ b \in reaped
    /\ \A b \in reaped : boot[b] = "gone"
    /\ respawn => child \in reaped
    /\ child \in Boots => boot[child] # "none"

(* A boot that was sent a signal was spawned, and while it lives it has the *)
(* signal yet to handle or is shutting down, which the 8 seconds leave time *)
(* for; signals are sent and the timer is set by a supervisor that stops.   *)
SignalInv ==
    /\ \A b \in killed : boot[b] # "none" /\ (b \in D!Alive => b \in term \cup shutting)
    /\ hard => stopping
    /\ killed # {} => stopping
    /\ sup = "gate" => child = NoBoot

(* What NoStrayBoot says, without counting.                                 *)
StrayInv == sup = "exited" => D!Alive \subseteq wedged

DaemonInv == D!TypeOK /\ OrderInv /\ SignalInv /\ StrayInv

-----------------------------------------------------------------------------
(* The instance counts as FiniteSets does.                                  *)
LEMMA SameCardinality == \A S : D!Cardinality(S) = Cardinality(S)
  BY DEF D!Cardinality, Cardinality

(* The invariant contains the property: whoever lives is the child.         *)
LEMMA DaemonInvExcludesStrays == DaemonInv => D!NoStrayBoot
  <1> SUFFICES ASSUME DaemonInv PROVE D!NoStrayBoot
    OBVIOUS
  <1>1. D!Alive \subseteq {child}
    BY DEF DaemonInv, OrderInv, D!Alive
  <1>2. D!Alive = {} \/ D!Alive = {child}
    BY <1>1
  <1>3. Cardinality(D!Alive) <= 1
    <2>1. CASE D!Alive = {}
      BY <2>1, FS_EmptySet
    <2>2. CASE D!Alive = {child}
      BY <2>2, FS_Singleton
    <2> QED BY <1>2, <2>1, <2>2
  <1> QED BY <1>3, SameCardinality DEF DaemonInv, StrayInv, D!NoStrayBoot

LEMMA InitCorrect == D!Init => DaemonInv
  BY LiveAssumption DEF D!Init, DaemonInv, D!TypeOK, OrderInv, SignalInv, StrayInv, D!Alive, D!Quits

-----------------------------------------------------------------------------
(* The supervisor's steps.                                                  *)

(* A spawn: the child before it is gone, if there was one.                  *)
LEMMA SpawnCorrect ==
  ASSUME DaemonInv, D!SpawnBoot, sup' = "up", respawn' = FALSE,
         child = NoBoot \/ child \in reaped,
         UNCHANGED <<stopping, killed, hard, reaped, code, term, shutting, restarting, hangs, wedged>>
  PROVE  DaemonInv'
  <1> PICK b \in Boots : /\ boot[b] = "none"
                         /\ boot' = [boot EXCEPT ![b] = "starting"]
                         /\ child' = b
    BY DEF D!SpawnBoot
  <1>1. D!TypeOK'
    BY DEF DaemonInv, D!TypeOK, D!Quits
  <1>2. OrderInv'
    BY LiveAssumption DEF DaemonInv, D!TypeOK, OrderInv
  <1>3. SignalInv' /\ StrayInv'
    BY DEF DaemonInv, D!TypeOK, SignalInv, StrayInv, D!Alive
  <1> QED BY <1>1, <1>2, <1>3 DEF DaemonInv

LEMMA GateCorrect == DaemonInv /\ D!Gate => DaemonInv'
  <1> SUFFICES ASSUME DaemonInv, D!Gate PROVE DaemonInv'
    OBVIOUS
  <1>0. sup = "gate" /\ child = NoBoot
    BY DEF DaemonInv, SignalInv, D!Gate
  <1>1. CASE sup' = "up" /\ D!SpawnBoot
    <2>1. respawn = FALSE
      BY <1>0, LiveAssumption DEF DaemonInv, D!TypeOK, OrderInv
    <2> QED BY <1>0, <1>1, <2>1, SpawnCorrect DEF D!Gate
  <1>2. CASE sup' = "exited" /\ UNCHANGED <<boot, child>>
    <2>1. \A b \in Boots : b # child
      BY <1>0, LiveAssumption
    <2>2. D!Alive = {}
      BY <2>1 DEF DaemonInv, OrderInv, D!Alive
    <2>3. D!TypeOK' /\ OrderInv'
      BY <1>2 DEF DaemonInv, D!Gate, D!TypeOK, OrderInv
    <2>4. SignalInv' /\ StrayInv'
      BY <1>2, <2>2 DEF DaemonInv, D!Gate, SignalInv, StrayInv, D!Alive
    <2> QED BY <2>3, <2>4 DEF DaemonInv
  <1> QED BY <1>1, <1>2 DEF D!Gate

LEMMA RespawnCorrect == DaemonInv /\ D!Respawn => DaemonInv'
  BY SpawnCorrect DEF DaemonInv, OrderInv, D!Respawn

(* The first signal finds a child that was sent none; so the supervisor     *)
(* leaves at once only if it never spawned one.                             *)
LEMMA ForwardCorrect == DaemonInv /\ D!Forward => DaemonInv'
  <1> SUFFICES ASSUME DaemonInv, D!Forward PROVE DaemonInv'
    OBVIOUS
  <1>0. child \notin killed /\ stopping' = TRUE
    BY DEF DaemonInv, SignalInv, D!Forward
  <1>1. CASE child = NoBoot
    <2>1. \A b \in Boots : b # child
      BY <1>1, LiveAssumption
    <2>2. D!Alive = {}
      BY <2>1 DEF DaemonInv, OrderInv, D!Alive
    <2>3. sup' = "exited" /\ UNCHANGED <<hard, killed, boot, code, term>>
      BY <1>1 DEF D!Forward
    <2>4. D!TypeOK' /\ OrderInv'
      BY <2>3 DEF DaemonInv, D!Forward, D!TypeOK, OrderInv
    <2>5. SignalInv' /\ StrayInv'
      BY <2>2, <2>3 DEF DaemonInv, D!Forward, SignalInv, StrayInv, D!Alive
    <2> QED BY <2>4, <2>5 DEF DaemonInv
  <1>2. CASE child # NoBoot
    <2>1. D!Kill(child) /\ hard' = TRUE /\ sup' = sup /\ child \in Boots /\ sup # "exited"
      BY <1>0, <1>2 DEF DaemonInv, D!TypeOK, D!Forward
    <2>2. UNCHANGED <<child, respawn, reaped, shutting, restarting, hangs, wedged>>
      BY DEF D!Forward
    <2>3. CASE boot[child] = "starting"
      <3>1. /\ boot' = [boot EXCEPT ![child] = "gone"] /\ code' = [code EXCEPT ![child] = "signal"]
            /\ killed' = killed \cup {child} /\ term' = term
        BY <2>1, <2>3 DEF D!Kill, D!Quit
      <3>2. D!TypeOK'
        BY <1>0, <2>1, <2>2, <3>1 DEF DaemonInv, D!TypeOK, D!Quits
      <3>3. OrderInv'
        BY <2>1, <2>2, <2>3, <3>1 DEF DaemonInv, D!TypeOK, OrderInv
      <3>4. SignalInv' /\ StrayInv'
        BY <1>0, <2>1, <2>2, <3>1 DEF DaemonInv, D!TypeOK, SignalInv, StrayInv, D!Alive
      <3> QED BY <3>2, <3>3, <3>4 DEF DaemonInv
    <2>4. CASE boot[child] # "starting"
      <3>1. boot' = boot /\ code' = code
        BY <2>1, <2>4 DEF D!Kill
      <3>2. killed' \in {killed, killed \cup {child}} /\ term' \in {term, term \cup {child}}
        BY <2>1 DEF D!Kill
      <3>3. D!TypeOK'
        BY <1>0, <2>1, <2>2, <3>1, <3>2 DEF DaemonInv, D!TypeOK, D!Quits
      <3>4. OrderInv'
        BY <2>2, <3>1 DEF DaemonInv, OrderInv
      <3>5. child \in D!Alive => child \in term'
        BY <2>1, <2>4 DEF D!Kill, D!Alive
      <3>6. boot[child] # "none" /\ term \subseteq term' /\ killed' \subseteq killed \cup {child}
        BY <2>1, <3>2 DEF DaemonInv, OrderInv
      <3>7. D!Alive' = D!Alive
        BY <3>1 DEF D!Alive
      <3>8. SignalInv' /\ StrayInv'
        BY <1>0, <2>1, <2>2, <3>1, <3>5, <3>6, <3>7 DEF DaemonInv, SignalInv, StrayInv
      <3> QED BY <3>3, <3>4, <3>8 DEF DaemonInv
    <2> QED BY <2>3, <2>4
  <1> QED BY <1>1, <1>2

(* The exit event is that of the child, the last one that lived.            *)
LEMMA ReapCorrect == ASSUME NEW b \in Boots PROVE DaemonInv /\ D!Reap(b) => DaemonInv'
  <1> SUFFICES ASSUME DaemonInv, D!Reap(b) PROVE DaemonInv'
    OBVIOUS
  <1>1. b = child
    BY DEF DaemonInv, OrderInv, D!Reap
  <1>2. D!Alive = {} /\ D!Alive' = {}
    BY <1>1 DEF DaemonInv, OrderInv, D!Reap, D!Alive, D!bootVars
  <1>a. reaped' = reaped \cup {b} /\ sup' \in {sup, "exited"} /\ respawn' \in {respawn, TRUE}
    BY DEF D!Reap
  <1>b. /\ killed \subseteq Boots /\ reaped \subseteq Boots /\ term \subseteq Boots
        /\ shutting \subseteq Boots /\ restarting \subseteq Boots /\ hangs \subseteq Boots
        /\ wedged \subseteq Boots
    BY DEF DaemonInv, D!TypeOK
  <1>c. UNION {killed, reaped', term, shutting, restarting, hangs, wedged} \subseteq Boots
    BY <1>a, <1>b
  <1>d. sup' \in {"gate", "up", "exited"} /\ {stopping, respawn', hard} \subseteq BOOLEAN
    BY <1>a DEF DaemonInv, D!TypeOK
  <1>3. D!TypeOK'
    BY <1>c, <1>d DEF DaemonInv, D!TypeOK, D!Reap, D!bootVars
  <1>4. OrderInv'
    BY <1>1 DEF DaemonInv, OrderInv, D!Reap, D!bootVars
  <1>5. SignalInv' /\ StrayInv'
    BY <1>2 DEF DaemonInv, SignalInv, StrayInv, D!Reap, D!bootVars
  <1> QED BY <1>3, <1>4, <1>5 DEF DaemonInv

(* The last resort: whoever still lives was sent a signal before, and is    *)
(* blocked, for otherwise the signal or its timer would have come first.    *)
LEMMA HardTimerCorrect == DaemonInv /\ D!HardTimer => DaemonInv'
  <1> SUFFICES ASSUME DaemonInv, D!HardTimer PROVE DaemonInv'
    OBVIOUS
  <1>0. /\ sup' = "exited" /\ hard /\ stopping
        /\ UNCHANGED <<stopping, child, respawn, hard, reaped, term, shutting, restarting, hangs, wedged>>
    BY DEF DaemonInv, SignalInv, D!HardTimer
  <1>a. D!Alive \subseteq {child}
    BY DEF DaemonInv, OrderInv, D!Alive
  <1>1. CASE child \in D!Alive /\ child \notin killed
    <2>1. /\ boot' = [boot EXCEPT ![child] = "gone"] /\ code' = [code EXCEPT ![child] = "signal"]
          /\ killed' = killed \cup {child} /\ child \in Boots
      BY <1>1 DEF D!HardTimer, D!Quit, D!Alive
    <2>2. D!TypeOK'
      BY <1>0, <2>1 DEF DaemonInv, D!TypeOK, D!Quits
    <2>3. OrderInv'
      BY <1>0, <2>1 DEF DaemonInv, D!TypeOK, OrderInv
    <2>4. D!Alive' = {}
      BY <1>a, <2>1 DEF DaemonInv, D!TypeOK, D!Alive
    <2>5. SignalInv' /\ StrayInv'
      BY <1>0, <2>1, <2>4 DEF DaemonInv, D!TypeOK, SignalInv, StrayInv
    <2> QED BY <2>2, <2>3, <2>5 DEF DaemonInv
  <1>2. CASE ~(child \in D!Alive /\ child \notin killed)
    <2>1. UNCHANGED <<boot, code, killed>>
      BY <1>2 DEF D!HardTimer
    <2>2. D!Alive' = D!Alive
      BY <2>1 DEF D!Alive
    <2>3. D!Alive \subseteq wedged
      BY <1>a, <1>2 DEF DaemonInv, SignalInv, D!HardTimer, D!Sooner
    <2>4. D!TypeOK' /\ OrderInv'
      BY <1>0, <2>1 DEF DaemonInv, D!TypeOK, OrderInv
    <2>5. SignalInv' /\ StrayInv'
      BY <1>0, <2>1, <2>2, <2>3 DEF DaemonInv, SignalInv, StrayInv
    <2> QED BY <2>4, <2>5 DEF DaemonInv
  <1> QED BY <1>1, <1>2

-----------------------------------------------------------------------------
(* The steps of a boot process, of which there are three kinds: it ends, it *)
(* goes on to another phase of its life, or its event loop blocks.          *)

LEMMA QuitCorrect ==
  ASSUME NEW b \in Boots, NEW c \in D!Quits, DaemonInv, D!Quit(b, c),
         boot[b] # "none",
         UNCHANGED <<D!supVars, term, shutting, restarting, hangs, wedged>>
  PROVE  DaemonInv'
  <1>0. boot' = [boot EXCEPT ![b] = "gone"] /\ code' = [code EXCEPT ![b] = c]
    BY DEF D!Quit
  <1>1. D!TypeOK'
    BY <1>0 DEF DaemonInv, D!TypeOK, D!supVars
  <1>2. OrderInv'
    BY <1>0 DEF DaemonInv, D!TypeOK, OrderInv, D!supVars
  <1>3. D!Alive' \subseteq D!Alive
    BY <1>0 DEF DaemonInv, D!TypeOK, D!Alive
  <1>4. SignalInv' /\ StrayInv'
    BY <1>0, <1>3 DEF DaemonInv, D!TypeOK, SignalInv, StrayInv, D!supVars
  <1> QED BY <1>1, <1>2, <1>4 DEF DaemonInv

LEMMA LivesCorrect ==
  ASSUME NEW b \in Boots, NEW s \in {"serving", "draining"}, DaemonInv, b \in D!Alive,
         boot' = [boot EXCEPT ![b] = s],
         term' \subseteq Boots, shutting' \subseteq Boots, restarting' \subseteq Boots,
         hangs' \subseteq Boots,
         term \cup shutting \subseteq term' \cup shutting',
         UNCHANGED <<D!supVars, code, wedged>>
  PROVE  DaemonInv'
  <1>1. D!TypeOK'
    BY DEF DaemonInv, D!TypeOK, D!supVars
  <1>2. OrderInv'
    BY DEF DaemonInv, D!TypeOK, OrderInv, D!supVars, D!Alive
  <1>3. D!Alive' = D!Alive
    BY DEF DaemonInv, D!TypeOK, D!Alive
  <1>4. SignalInv' /\ StrayInv'
    BY <1>3 DEF DaemonInv, D!TypeOK, SignalInv, StrayInv, D!supVars
  <1> QED BY <1>1, <1>2, <1>4 DEF DaemonInv

LEMMA SameLifeCorrect ==
  ASSUME DaemonInv, term' \subseteq Boots, term \cup shutting \subseteq term' \cup shutting',
         wedged \subseteq wedged', wedged' \subseteq Boots,
         UNCHANGED <<D!supVars, boot, code, shutting, restarting, hangs>>
  PROVE  DaemonInv'
  <1>1. D!TypeOK' /\ OrderInv'
    BY DEF DaemonInv, D!TypeOK, OrderInv, D!supVars
  <1>2. D!Alive' = D!Alive
    BY DEF D!Alive
  <1>3. SignalInv' /\ StrayInv'
    BY <1>2 DEF DaemonInv, SignalInv, StrayInv, D!supVars
  <1> QED BY <1>1, <1>3 DEF DaemonInv

LEMMA BootCorrect ==
  ASSUME NEW b \in Boots, DaemonInv,
         \/ D!BootUp(b) \/ D!Crash(b) \/ D!Wedge(b) \/ D!RestartProcess(b) \/ D!Shutdown(b)
         \/ D!Drained(b) \/ D!Forced(b)
  PROVE  DaemonInv'
  <1>0. /\ term \subseteq Boots /\ shutting \subseteq Boots /\ restarting \subseteq Boots
        /\ hangs \subseteq Boots /\ wedged \subseteq Boots
    BY DEF DaemonInv, D!TypeOK
  <1>1. CASE D!BootUp(b)
    <2>1. CASE boot' = [boot EXCEPT ![b] = "serving"] /\ UNCHANGED code
      BY <1>0, <1>1, <2>1, LivesCorrect DEF D!BootUp, D!Alive
    <2>2. CASE D!Quit(b, "bad")
      BY <1>1, <2>2, QuitCorrect DEF D!BootUp, D!Quits
    <2> QED BY <1>1, <2>1, <2>2 DEF D!BootUp
  <1>2. CASE D!Crash(b)
    BY <1>2, QuitCorrect DEF D!Crash, D!Alive, D!Quits
  <1>3. CASE D!Wedge(b)
    BY <1>0, <1>3, SameLifeCorrect DEF D!Wedge
  <1>4. CASE D!RestartProcess(b)
    BY <1>0, <1>4, LivesCorrect DEF D!RestartProcess, D!Drain, D!Runs, D!Alive
  <1>5. CASE D!Shutdown(b)
    <2>1. CASE b \in shutting
      BY <1>0, <1>5, <2>1, SameLifeCorrect DEF D!Shutdown
    <2>2. CASE b \notin shutting
      <3>1. /\ shutting' = shutting \cup {b} /\ term' = term \ {b}
            /\ boot' = [boot EXCEPT ![b] = "draining"]
            /\ hangs' \in {hangs, hangs \cup {b}}
            /\ b \in D!Alive
            /\ UNCHANGED <<D!supVars, code, restarting, wedged>>
        BY <1>5, <2>2 DEF D!Shutdown, D!Drain, D!Runs, D!Alive
      <3> QED BY <1>0, <3>1, LivesCorrect
    <2> QED BY <2>1, <2>2
  <1>6. CASE D!Drained(b)
    BY <1>6, QuitCorrect DEF D!Drained, D!Runs, D!Quits
  <1>7. CASE D!Forced(b)
    BY <1>7, QuitCorrect DEF D!Forced, D!Runs, D!Quits
  <1> QED BY <1>1, <1>2, <1>3, <1>4, <1>5, <1>6, <1>7

-----------------------------------------------------------------------------
LEMMA NextCorrect == DaemonInv /\ [AllNext]_allVars => DaemonInv'
  <1> SUFFICES ASSUME DaemonInv, [AllNext]_allVars PROVE DaemonInv'
    OBVIOUS
  <1>1. CASE UNCHANGED daemonVars
    BY <1>1 DEF daemonVars, DaemonInv, D!TypeOK, OrderInv, SignalInv, StrayInv, D!Alive
  <1>2. CASE D!Next
    <2>1. CASE D!Gate \/ D!Respawn \/ D!HardTimer \/ D!Forward
      BY <2>1, GateCorrect, RespawnCorrect, HardTimerCorrect, ForwardCorrect
    <2>2. CASE \E b \in Boots : D!Reap(b)
      BY <2>2, ReapCorrect
    <2>3. CASE \E b \in Boots :
                 \/ D!BootUp(b) \/ D!Crash(b) \/ D!Wedge(b) \/ D!RestartProcess(b)
                 \/ D!Shutdown(b) \/ D!Drained(b) \/ D!Forced(b)
      BY <2>3, BootCorrect
    <2> QED BY <1>2, <2>1, <2>2, <2>3 DEF D!Next, D!Internal
  <1> QED BY <1>1, <1>2 DEF AllNext, ConversationStep, DaemonStep, allVars

(* The invariant of the supervisor and its boot processes holds in every    *)
(* behaviour.                                                               *)
THEOREM Invariance == AllSpec => []DaemonInv
  <1>1. AllInit => DaemonInv
    BY InitCorrect DEF AllInit
  <1>2. AllSpec => AllInit /\ [][AllNext]_allVars
    BY PTL DEF AllSpec
  <1> QED BY <1>1, <1>2, NextCorrect, PTL

(* Never two boot processes, and none that outlives the supervisor unless   *)
(* its event loop is blocked: not the one respawned after the supervisor    *)
(* was told to stop, not one that hangs in its drain (index.ts, boot.ts).   *)
THEOREM NoBootStrays == AllSpec => []NoStrayBoot
  <1>1. DaemonInv => NoStrayBoot
    BY DaemonInvExcludesStrays DEF DaemonInv, NoStrayBoot
  <1> QED BY <1>1, Invariance, PTL
=============================================================================
