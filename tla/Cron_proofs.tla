---------------------------- MODULE Cron_proofs ----------------------------
(***************************************************************************)
(* Proofs about Cron, for any sets of tasks, fires and calls and any       *)
(* number of days, reloads and restarts: the inductive invariant IInv and  *)
(* the safety invariants the runs check.                                   *)
(***************************************************************************)
EXTENDS MCCron, TLAPS

USE CronAssumption DEF jobVars, initVars, fileVars, callVars, fireVars, agentVars, lockHist, fileHist

Typed == TypeOK /\ Provenance

----------------------------------------------------------------------------
(* Frames: firing tasks and calling methods touch different state.         *)

\* What the lock invariants read.
lockState == <<activeTasks, task, state, run, forced, stuck>>

\* What the invariants about jobs, timers and files read, but for `stale`.
fileState == <<jobs, ticking, phase, listed, unread, found, disk, tmp, target, step, patch, botched, diverged>>

\* A fire, a run or midnight changes no job, no timer of a job, no file and no call.
LEMMA FireFrame ==
  ASSUME \/ \E f \in Fires : FireStep(f)
         \/ AgentStep \/ Midnight
  PROVE  UNCHANGED fileState /\ \A c \in Calls : c \in stale' <=> c \in stale
<1> DEFINE Goal == UNCHANGED fileState /\ \A c \in Calls : c \in stale' <=> c \in stale
<1> USE DEF fileState
<1>1. ASSUME NEW f \in Fires, NEW t \in Tasks,
             Tick(f, t) \/ TickHooked(f, t) \/ RunNow(f, t)
      PROVE  Goal
  BY <1>1 DEF Tick, TickHooked, RunNow
<1>2. ASSUME NEW f \in Fires, NEW t \in Tasks, ZombieTick(f, t) PROVE Goal
  BY <1>2 DEF ZombieTick
<1>3. ASSUME NEW f \in Fires,
             \/ HookPasses(f) \/ HookRefuses(f) \/ Prompt(f) \/ Rejects(f)
             \/ TimesOut(f) \/ Settles(f)
      PROVE  Goal
  BY <1>3 DEF HookPasses, HookRefuses, Prompt, Rejects, TimesOut, Settles
<1>4. ASSUME NEW t \in Tasks, NEW d \in DayRange,
             RunEnds(t, d) \/ SubagentEnds(t, d) \/ FollowUp(t, d)
      PROVE  Goal
  BY <1>4 DEF RunEnds, SubagentEnds, FollowUp
<1>5. CASE Midnight
  BY <1>5 DEF Midnight
<1> HIDE DEF Goal
<1>6. ASSUME NEW f \in Fires, FireStep(f) PROVE Goal
  BY <1>6, <1>1, <1>2, <1>3, Zenon DEF FireStep
<1>7. ASSUME AgentStep PROVE Goal
  BY <1>4, <1>7, Zenon DEF AgentStep
<1>8. QED
  BY <1>5, <1>6, <1>7, Zenon DEF Goal

\* Reading the directory and the files changes nothing but what init holds and the record of
\* calls that overlap it.
LEMMA ReadFrame ==
  ASSUME ReadDir \/ ReadDirFails \/ \E t \in Tasks : ReadFile(t) \/ ReadFails(t)
  PROVE  /\ Loading /\ UNCHANGED lockState
         /\ UNCHANGED <<jobs, ticking, phase, disk, tmp, target, step, patch, stale, botched>>
<1> USE DEF lockState
<1>1. CASE ReadDir \/ ReadDirFails
  BY <1>1 DEF ReadDir, ReadDirFails
<1>2. ASSUME NEW t \in Tasks, ReadFile(t) \/ ReadFails(t)
      PROVE  /\ Loading /\ UNCHANGED lockState
             /\ UNCHANGED <<jobs, ticking, phase, disk, tmp, target, step, patch, stale, botched>>
  BY <1>2 DEF ReadFile, ReadFails
<1>3. QED
  BY <1>1, <1>2

\* A step of init reads, places the jobs, or stops at one it cannot place.
LEMMA InitSteps ==
  ASSUME InitStep
  PROVE  \/ ReadDir \/ ReadDirFails \/ \E t \in Tasks : ReadFile(t) \/ ReadFails(t)
         \/ Load
         \/ LoadFails
  BY Zenon DEF InitStep

\* A call other than cron.remove leaves fires, runs and the lock alone, and so does a load.
LEMMA CallFrame ==
  ASSUME \/ \E c \in Calls : CallStep(c) /\ \A t \in Tasks : ~Remove(c, t)
         \/ InitStep \/ Midnight
  PROVE  UNCHANGED lockState
<1> USE DEF lockState
<1>1. ASSUME NEW c \in Calls, NEW t \in Tasks, NEW valid \in BOOLEAN, Add(c, t, valid)
      PROVE  UNCHANGED lockState
  BY <1>1 DEF Add
<1>2. ASSUME NEW c \in Calls, NEW t \in Tasks, NEW enable \in {"keep", "on", "off"},
             NEW reschedule \in BOOLEAN, Update(c, t, enable, reschedule)
      PROVE  UNCHANGED lockState
  BY <1>2 DEF Update
<1>3. ASSUME NEW c \in Calls, NEW t \in Tasks, UpdateThrows(c, t) PROVE UNCHANGED lockState
  BY <1>3 DEF UpdateThrows
<1>4. ASSUME NEW c \in Calls,
             \/ WriteTmp(c) \/ Placed(c) \/ Renamed(c) \/ WriteFails(c)
             \/ Unlinked(c) \/ UnlinkFails(c)
      PROVE  UNCHANGED lockState
  BY <1>4 DEF WriteTmp, Placed, Renamed, WriteFails, Unlinked, UnlinkFails
<1>5. CASE Load \/ LoadFails \/ Midnight
  BY <1>5 DEF Load, LoadFails, AddJobs, Midnight
<1> HIDE DEF lockState
<1>8. CASE InitStep
  BY <1>5, <1>8, ReadFrame, InitSteps
<1>6. ASSUME NEW c \in Calls, CallStep(c), \A t \in Tasks : ~Remove(c, t)
      PROVE  UNCHANGED lockState
  BY <1>6, <1>1, <1>2, <1>3, <1>4, Zenon DEF CallStep
<1>7. QED
  BY <1>5, <1>6, <1>8

----------------------------------------------------------------------------
(* TypeOK and Provenance.                                                  *)

\* The process starts typed: the preset tasks loaded, nothing fired, nothing called.
LEMMA TypeInit == Init => Typed
<1> SUFFICES ASSUME Init PROVE Typed
  OBVIOUS
<1>1. NoTasks \in [Tasks -> Def \cup {None}]
  BY DEF NoTasks
<1>2. Seeded \in {d \in Def : d.valid}
  BY DEF Seeded, Def
<1>3. jobs \in [Tasks -> {d \in Def : d.valid} \cup {None}]
  <2>1. jobs = [t \in Tasks |-> IF t \in Preset THEN Seeded ELSE None]
    BY DEF Init
  <2> HIDE DEF Def
  <2>2. QED
    BY <1>2, <2>1
<1>4. disk \in [Tasks -> Def \cup {None}]
  BY <1>3 DEF Init
<1>5. TypeOK
  <2>1. 1 \in DayRange /\ loads \in 0 .. MaxLoads
    BY DEF Init, DayRange
  <2>2. run \in [Tasks -> [DayRange -> Fires \cup {None}]] /\ key \in [Fires -> DayRange]
    BY <2>1 DEF Init
  <2> HIDE DEF Def
  <2>3. QED
    BY <1>1, <1>3, <1>4, <2>1, <2>2 DEF Init, TypeOK, FireStates, CallSteps
<1>6. Provenance
  BY DEF Init, Provenance
<1>7. QED
  BY <1>5, <1>6 DEF Typed

\* No fire, completion or call puts a value of another kind into the state.
LEMMA TypeStep == Typed /\ [Next]_vars => TypeOK'
<1> SUFFICES ASSUME TypeOK, Provenance, [Next]_vars PROVE TypeOK'
  BY DEF Typed
<1> USE DEF TypeOK, FireStates, CallSteps, DayRange
<1>1. ASSUME NEW f \in Fires, NEW t \in Tasks,
             Tick(f, t) \/ TickHooked(f, t) \/ RunNow(f, t) \/ ZombieTick(f, t)
      PROVE  TypeOK'
  <2>1. CASE Tick(f, t)
    BY <2>1 DEF Tick, Execute
  <2>2. CASE TickHooked(f, t)
    BY <2>2 DEF TickHooked
  <2>3. CASE RunNow(f, t)
    BY <2>3 DEF RunNow, Execute
  <2>4. CASE ZombieTick(f, t)
    BY <2>4 DEF ZombieTick, Execute
  <2>5. QED
    BY <1>1, <2>1, <2>2, <2>3, <2>4
<1>2. ASSUME NEW f \in Fires, HookPasses(f) \/ HookRefuses(f) PROVE TypeOK'
  <2>1. task[f] \in Tasks
    BY <1>2 DEF HookPasses, HookRefuses, Provenance
  <2>2. CASE HookPasses(f)
    BY <2>1, <2>2 DEF HookPasses, Execute
  <2>3. CASE HookRefuses(f)
    BY <2>1, <2>3 DEF HookRefuses
  <2>4. QED
    BY <1>2, <2>2, <2>3
<1>3. ASSUME NEW f \in Fires, Prompt(f) PROVE TypeOK'
  <2>1. task[f] \in Tasks
    BY <1>3 DEF Prompt, Provenance
  <2>2. run' \in [Tasks -> [DayRange -> Fires \cup {None}]]
    BY <1>3, <2>1 DEF Prompt
  <2>3. QED
    BY <1>3, <2>1, <2>2 DEF Prompt
<1>4. ASSUME NEW f \in Fires, Rejects(f) \/ TimesOut(f) \/ Settles(f) PROVE TypeOK'
  BY <1>4 DEF Rejects, TimesOut, Settles
<1>5. ASSUME NEW t \in Tasks, NEW d \in DayRange,
             RunEnds(t, d) \/ SubagentEnds(t, d) \/ FollowUp(t, d)
      PROVE  TypeOK'
  <2>1. run' \in [Tasks -> [DayRange -> Fires \cup {None}]]
    <3>1. CASE run' = [run EXCEPT ![t][d] = None]
      BY <3>1
    <3>2. ASSUME NEW f \in Fires, run' = [run EXCEPT ![t][d] = f]
          PROVE  run' \in [Tasks -> [DayRange -> Fires \cup {None}]]
      BY <3>2
    <3>3. QED
      BY <1>5, <3>1, <3>2 DEF RunEnds, SubagentEnds, FollowUp
  <2>2. QED
    BY <1>5, <2>1 DEF RunEnds, SubagentEnds, FollowUp, OnAgentCompleted
<1>6. CASE Midnight
  BY <1>6 DEF Midnight
<1>7. ASSUME NEW c \in Calls, NEW t \in Tasks, NEW valid \in BOOLEAN, Add(c, t, valid)
      PROVE  TypeOK'
  BY <1>7 DEF Add, Begin, Def
<1>8. ASSUME NEW c \in Calls, NEW t \in Tasks, NEW enable \in {"keep", "on", "off"},
             NEW reschedule \in BOOLEAN, Update(c, t, enable, reschedule)
      PROVE  TypeOK'
  BY <1>8 DEF Update, Begin, NextStep, Def
<1>9. ASSUME NEW c \in Calls, NEW t \in Tasks, UpdateThrows(c, t) \/ Remove(c, t) PROVE TypeOK'
  <2>1. CASE UpdateThrows(c, t)
    BY <2>1 DEF UpdateThrows, Begin
  <2>2. CASE Remove(c, t)
    BY <2>2 DEF Remove, Begin, NextStep
  <2>3. QED
    BY <1>9, <2>1, <2>2
<1>10. ASSUME NEW c \in Calls, step[c] # "new" PROVE target[c] \in Tasks
  BY <1>10 DEF Provenance
<1>11. ASSUME NEW c \in Calls, WriteTmp(c) PROVE TypeOK'
  BY <1>10, <1>11 DEF WriteTmp
<1>12. ASSUME NEW c \in Calls, Placed(c) PROVE TypeOK'
  <2>1. patch[c] \in Def /\ target[c] \in Tasks
    BY <1>12 DEF Placed, Provenance
  <2>2. QED
    BY <1>12, <2>1 DEF Placed, Rename, Returns
<1>13. ASSUME NEW c \in Calls, Renamed(c) \/ WriteFails(c) PROVE TypeOK'
  <2>1. CASE Renamed(c)
    BY <1>10, <2>1 DEF Renamed, Rename, Returns
  <2>2. CASE WriteFails(c)
    BY <1>10, <2>2 DEF WriteFails, Returns
  <2>3. QED
    BY <1>13, <2>1, <2>2
<1>14. ASSUME NEW c \in Calls, Unlinked(c) \/ UnlinkFails(c) PROVE TypeOK'
  <2>1. CASE Unlinked(c)
    BY <1>10, <2>1 DEF Unlinked, Returns
  <2>2. CASE UnlinkFails(c)
    BY <1>10, <2>2 DEF UnlinkFails, Returns
  <2>3. QED
    BY <1>14, <2>1, <2>2
<1>15. CASE Reload
  <2>1. NoTasks \in [Tasks -> {d \in Def : d.valid} \cup {None}] /\ NoTasks \in [Tasks -> Def \cup {None}]
    BY DEF NoTasks
  <2>2. loads' \in 0 .. MaxLoads
    BY <1>15 DEF Reload
  <2>3. stale' \subseteq Calls \cup Fires /\ zombies' \subseteq Tasks /\ forced' \subseteq Tasks
    BY <1>15 DEF Reload
  <2>4. QED
    BY <1>15, <2>1, <2>2, <2>3 DEF Reload, StartsToLoad
<1>16. ASSUME ReadDir \/ ReadDirFails \/ \E t \in Tasks : ReadFile(t) \/ ReadFails(t)
       PROVE  TypeOK'
  <2>1. CASE ReadDir \/ ReadDirFails
    <3>1. Present \subseteq Tasks /\ Underway \subseteq Tasks
      BY DEF Present, Underway, InFlight, Provenance
    <3>2. QED
      BY <2>1, <3>1 DEF ReadDir, ReadDirFails
  <2>2. ASSUME NEW t \in Tasks, ReadFile(t) \/ ReadFails(t) PROVE TypeOK'
    BY <2>2 DEF ReadFile, ReadFails
  <2>3. QED
    BY <1>16, <2>1, <2>2
<1>17. CASE Load \/ LoadFails
  <2>1. \A t \in Loadable : found[t] \in {d \in Def : d.valid}
    BY DEF Loadable, Found
  <2>2. ASSUME NEW S \in SUBSET Loadable, AddJobs(S)
        PROVE  /\ jobs' \in [Tasks -> {d \in Def : d.valid} \cup {None}]
               /\ strays' \subseteq Tasks
    BY <2>1, <2>2 DEF AddJobs
  <2>3. Underway \subseteq Tasks /\ NoTasks \in [Tasks -> Def \cup {None}]
    BY DEF Underway, InFlight, Provenance, NoTasks
  <2>4. CASE Load
    <3>1. /\ jobs' \in [Tasks -> {d \in Def : d.valid} \cup {None}]
          /\ strays' \subseteq Tasks
      BY <2>2, <2>4 DEF Load
    <3>2. QED
      BY <2>3, <2>4, <3>1 DEF Load
  <2>5. CASE LoadFails
    <3>1. PICK S \in SUBSET Loadable : AddJobs(S) /\ ticking' = ticking \ S
      BY <2>5 DEF LoadFails
    <3>2. /\ jobs' \in [Tasks -> {d \in Def : d.valid} \cup {None}]
          /\ strays' \subseteq Tasks
      BY <2>2, <3>1
    <3>3. QED
      BY <2>3, <2>5, <3>1, <3>2 DEF LoadFails
  <2>6. QED
    BY <1>17, <2>4, <2>5
<1>18. ASSUME ProcessEnds, phase' \in {"booting", "down"}, loads' \in 0 .. MaxLoads, UNCHANGED day
       PROVE  TypeOK'
  BY <1>18 DEF ProcessEnds, StartsToLoad, NoTasks
<1>24. CASE Restart \/ BootFails
  <2>1. ProcessEnds /\ phase' \in {"booting", "down"} /\ loads' \in 0 .. MaxLoads /\ UNCHANGED day
    BY <1>24 DEF Restart, BootFails, ProcessEnds
  <2>2. QED
    BY <1>18, <2>1
<1>19. CASE UNCHANGED vars
  BY <1>19 DEF vars
<1> HIDE DEF TypeOK, FireStates, CallSteps
<1>20. ASSUME NEW f \in Fires, FireStep(f) PROVE TypeOK'
  BY <1>1, <1>2, <1>3, <1>4, <1>20, Zenon DEF FireStep
<1>21. ASSUME NEW c \in Calls, CallStep(c) PROVE TypeOK'
  BY <1>7, <1>8, <1>9, <1>11, <1>12, <1>13, <1>14, <1>21, Zenon DEF CallStep
<1>22. CASE AgentStep
  BY <1>5, <1>22, Zenon DEF AgentStep
<1>23. QED
  BY <1>6, <1>15, <1>16, <1>17, <1>19, <1>20, <1>21, <1>22, <1>24, InitSteps, Zenon DEF Next

\* A fire keeps its task, a call its target, and a call writes only what it has made.
LEMMA ProvenanceStep == Typed /\ [Next]_vars => Provenance'
<1> SUFFICES ASSUME TypeOK, Provenance, [Next]_vars PROVE Provenance'
  BY DEF Typed
<1> USE DEF TypeOK, CallSteps
<1>1. ASSUME UNCHANGED <<target, step, patch>>, \A c \in Calls : c \in stale' <=> c \in stale,
             \A f \in Fires : state'[f] # "new" => task'[f] \in Tasks
      PROVE  Provenance'
  BY <1>1 DEF Provenance
<1>2. ASSUME NEW f \in Fires, FireStep(f) PROVE \A g \in Fires : state'[g] # "new" => task'[g] \in Tasks
  <2>1. ASSUME NEW t \in Tasks, Tick(f, t) \/ TickHooked(f, t) \/ RunNow(f, t) \/ ZombieTick(f, t)
        PROVE  \A g \in Fires : state'[g] # "new" => task'[g] \in Tasks
    BY <2>1 DEF Tick, TickHooked, RunNow, ZombieTick, Execute, Provenance
  <2>2. ASSUME HookPasses(f)
        PROVE  \A g \in Fires : state'[g] # "new" => task'[g] \in Tasks
    BY <2>2 DEF HookPasses, Execute, Provenance
  <2>3. ASSUME HookRefuses(f) \/ Prompt(f) \/ Rejects(f) \/ TimesOut(f) \/ Settles(f)
        PROVE  \A g \in Fires : state'[g] # "new" => task'[g] \in Tasks
    BY <2>3 DEF HookRefuses, Prompt, Rejects, TimesOut, Settles, Provenance
  <2>4. QED
    BY <1>2, <2>1, <2>2, <2>3, Zenon DEF FireStep
<1>3. ASSUME NEW f \in Fires, FireStep(f) PROVE Provenance'
  BY <1>1, <1>2, <1>3, FireFrame DEF fileState
<1>4. CASE AgentStep \/ Midnight
  <2>1. UNCHANGED <<state, task>>
    BY <1>4 DEF AgentStep, Midnight, RunEnds, SubagentEnds, FollowUp
  <2>2. QED
    BY <1>1, <1>4, <2>1, FireFrame DEF fileState, Provenance
<1>5. ASSUME NEW c \in Calls, NEW t \in Tasks, NEW valid \in BOOLEAN, Add(c, t, valid)
      PROVE  Provenance'
  BY <1>5 DEF Add, Begin, Def, Provenance
<1>6. ASSUME NEW c \in Calls, NEW t \in Tasks, NEW enable \in {"keep", "on", "off"},
             NEW reschedule \in BOOLEAN, Update(c, t, enable, reschedule)
      PROVE  Provenance'
  <2>1. patch'[c] \in Def
    BY <1>6 DEF Update, Def
  <2>2. QED
    BY <1>6, <2>1 DEF Update, Begin, NextStep, Provenance
<1>7. ASSUME NEW c \in Calls, NEW t \in Tasks, UpdateThrows(c, t) PROVE Provenance'
  BY <1>7 DEF UpdateThrows, Begin, Provenance
<1>8. ASSUME NEW c \in Calls, NEW t \in Tasks, Remove(c, t) PROVE Provenance'
  BY <1>8 DEF Remove, Begin, NextStep, Provenance
<1>9. ASSUME NEW c \in Calls, WriteTmp(c) PROVE Provenance'
  BY <1>9 DEF WriteTmp, Provenance
<1>10. ASSUME NEW c \in Calls, step[c] # "new", Returns(c), UNCHANGED <<state, task, target>>
       PROVE  Provenance'
  <2>1. \A b \in Calls \ {c} : step'[b] = step[b] /\ patch'[b] = patch[b] /\ (b \in stale' <=> b \in stale)
    BY <1>10 DEF Returns
  <2>2. step'[c] = "done" /\ c \notin stale'
    BY <1>10 DEF Returns
  <2>3. QED
    BY <1>10, <2>1, <2>2 DEF Provenance
<1>11. ASSUME NEW c \in Calls,
              Placed(c) \/ Renamed(c) \/ WriteFails(c) \/ Unlinked(c) \/ UnlinkFails(c)
       PROVE  Provenance'
  BY <1>10, <1>11 DEF Placed, Renamed, WriteFails, Unlinked, UnlinkFails
<1>12. CASE Reload
  BY <1>12 DEF Reload, Provenance, InFlight
<1>13. CASE Restart \/ BootFails
  <2>1. ProcessEnds
    BY <1>13 DEF Restart, BootFails
  <2>2. QED
    BY <2>1 DEF ProcessEnds, Provenance, InFlight
<1>17. CASE InitStep
  <2>1. CASE Load \/ LoadFails
    BY <2>1 DEF Load, LoadFails, Provenance
  <2>2. CASE ReadDir \/ ReadDirFails \/ \E t \in Tasks : ReadFile(t) \/ ReadFails(t)
    BY <2>2, ReadFrame DEF lockState, Provenance
  <2>3. QED
    BY <1>17, <2>1, <2>2, InitSteps
<1>14. CASE UNCHANGED vars
  BY <1>14 DEF vars, Provenance
<1> HIDE DEF TypeOK, CallSteps
<1>15. ASSUME NEW c \in Calls, CallStep(c) PROVE Provenance'
  BY <1>5, <1>6, <1>7, <1>8, <1>9, <1>11, <1>15, Zenon DEF CallStep
<1>16. QED
  BY <1>3, <1>4, <1>12, <1>13, <1>14, <1>15, <1>17, Zenon DEF Next

\* At all times every value is of its kind and knows what it belongs to.
LEMMA TypedStep == Typed /\ [Next]_vars => Typed'
  BY TypeStep, ProvenanceStep DEF Typed

----------------------------------------------------------------------------
(* LockInv: the lock.                                                      *)

\* A fire of t that is about to execute, or a run of t.
Backed(t) == \/ \E f \in Fires : task[f] = t /\ state[f] = "calling"
             \/ Running(t)

\* Nothing is locked when the process starts.
LEMMA LockInit == Init => LockInv
  BY DEF Init, LockInv

\* Whatever ends the execution behind a lock releases the lock or is recorded as lost.
LEMMA LockStep == Typed /\ LockInv /\ [Next]_vars => LockInv'
<1> SUFFICES ASSUME TypeOK, Provenance, LockInv, [Next]_vars PROVE LockInv'
  BY DEF Typed
<1>0. \A t \in activeTasks : Backed(t) \/ t \in stuck
  BY DEF LockInv, Backed
<1>1. ASSUME \A t \in activeTasks' : Backed(t)' \/ t \in stuck' PROVE LockInv'
  BY <1>1 DEF LockInv, Backed
<1>2. ASSUME NEW f \in Fires, NEW t \in Tasks, Tick(f, t) PROVE LockInv'
  <2>1. Backed(t)'
    BY <1>2 DEF Tick, Execute, Backed, TypeOK
  <2>2. ASSUME NEW u \in Tasks, Backed(u) PROVE Backed(u)'
    BY <1>2, <2>2 DEF Tick, Execute, Backed, Running, TypeOK
  <2>3. activeTasks' = activeTasks \cup {t} /\ stuck' = stuck /\ activeTasks \subseteq Tasks
    BY <1>2 DEF Tick, TypeOK
  <2>4. QED
    BY <1>0, <1>1, <2>1, <2>2, <2>3
<1>3. ASSUME NEW f \in Fires, NEW t \in Tasks, TickHooked(f, t) PROVE LockInv'
  BY <1>0, <1>1, <1>3 DEF TickHooked, Backed, Running, TypeOK
<1>4. ASSUME NEW f \in Fires, NEW t \in Tasks, RunNow(f, t) \/ ZombieTick(f, t) PROVE LockInv'
  BY <1>0, <1>1, <1>4 DEF RunNow, ZombieTick, Execute, Backed, Running, TypeOK
<1>5. ASSUME NEW f \in Fires, HookPasses(f) PROVE LockInv'
  <2>1. PICK t \in Tasks : t = task[f]
    BY <1>5 DEF HookPasses, Provenance
  <2>2. Backed(t)'
    BY <1>5, <2>1 DEF HookPasses, Execute, Backed, TypeOK
  <2>3. ASSUME NEW u \in Tasks, Backed(u) PROVE Backed(u)'
    BY <1>5, <2>3 DEF HookPasses, Execute, Backed, Running, TypeOK
  <2>4. activeTasks' \subseteq activeTasks \cup {t} /\ stuck' = stuck /\ activeTasks \subseteq Tasks
    BY <1>5, <2>1 DEF HookPasses, TypeOK
  <2>5. QED
    BY <1>0, <1>1, <2>2, <2>3, <2>4
<1>6. ASSUME NEW f \in Fires, HookRefuses(f) PROVE LockInv'
  <2>1. UNCHANGED <<activeTasks, task, run, stuck>> /\ state' = [state EXCEPT ![f] = "off"]
        /\ state[f] = "hook"
    BY <1>6 DEF HookRefuses
  <2>2. QED
    BY <1>0, <1>1, <2>1 DEF Backed, Running, TypeOK
<1>7. ASSUME NEW f \in Fires, Prompt(f) PROVE LockInv'
  <2>1. task[f] \in Tasks /\ key[f] \in DayRange
    BY <1>7 DEF Prompt, Provenance, TypeOK
  <2>2. \A t \in Tasks, d \in DayRange : run[t][d] # None => run'[t][d] # None
    BY <1>7, <2>1 DEF Prompt, TypeOK
  <2>3. run'[task[f]][key[f]] # None
    BY <1>7, <2>1 DEF Prompt, TypeOK
  <2>4. ASSUME NEW u \in Tasks, Backed(u) PROVE Backed(u)'
    BY <1>7, <2>1, <2>2, <2>3, <2>4 DEF Prompt, Backed, Running, TypeOK
  <2>5. UNCHANGED <<activeTasks, stuck>> /\ activeTasks \subseteq Tasks
    BY <1>7 DEF Prompt, TypeOK
  <2>6. QED
    BY <1>0, <1>1, <2>4, <2>5
<1>8. ASSUME NEW f \in Fires, Rejects(f) PROVE LockInv'
  <2>1. /\ UNCHANGED <<activeTasks, task, run>> /\ state' = [state EXCEPT ![f] = "off"]
        /\ stuck' = stuck \cup ({task[f]} \cap activeTasks)
    BY <1>8 DEF Rejects
  <2>2. QED
    BY <1>0, <1>1, <2>1 DEF Backed, Running, TypeOK
<1>9. ASSUME NEW f \in Fires, TimesOut(f) \/ Settles(f) PROVE LockInv'
  BY <1>0, <1>1, <1>9 DEF TimesOut, Settles, Backed, Running, TypeOK
<1>10. ASSUME NEW t \in Tasks, OnAgentCompleted(t), UNCHANGED <<task, state>>,
              \A u \in Tasks \ {t} : run'[u] = run[u]
       PROVE  LockInv'
  <2>1. ASSUME NEW u \in Tasks \ {t}, Backed(u) PROVE Backed(u)'
    BY <1>10, <2>1 DEF Backed, Running
  <2>2. QED
    BY <1>0, <1>1, <1>10, <2>1 DEF OnAgentCompleted, TypeOK
<1>11. ASSUME NEW t \in Tasks, NEW d \in DayRange, RunEnds(t, d) \/ SubagentEnds(t, d) PROVE LockInv'
  BY <1>10, <1>11 DEF RunEnds, SubagentEnds, TypeOK
<1>12. ASSUME NEW t \in Tasks, NEW d \in DayRange, FollowUp(t, d) PROVE LockInv'
  <2>1. ASSUME NEW u \in Tasks, Backed(u) PROVE Backed(u)'
    BY <1>12, <2>1 DEF FollowUp, Backed, Running, TypeOK
  <2>2. UNCHANGED <<activeTasks, stuck>> /\ activeTasks \subseteq Tasks
    BY <1>12 DEF FollowUp, TypeOK
  <2>3. QED
    BY <1>0, <1>1, <2>1, <2>2
<1>13. ASSUME NEW c \in Calls, NEW t \in Tasks, Remove(c, t) PROVE LockInv'
  <2>1. /\ UNCHANGED <<task, state, run>>
        /\ activeTasks' = activeTasks \ {t} /\ stuck' = stuck \ {t}
    BY <1>13 DEF Remove
  <2>2. QED
    BY <1>0, <1>1, <2>1 DEF Backed, Running, TypeOK
<1>14. CASE Reload \/ Restart \/ BootFails
  BY <1>1, <1>14 DEF Reload, Restart, BootFails, ProcessEnds, StartsToLoad
<1>15. ASSUME UNCHANGED lockState PROVE LockInv'
  BY <1>0, <1>1, <1>15 DEF lockState, Backed, Running
<1>16. ASSUME NEW c \in Calls, CallStep(c) PROVE LockInv'
  BY <1>13, <1>15, <1>16, CallFrame
<1>17. ASSUME NEW f \in Fires, FireStep(f) PROVE LockInv'
  BY <1>2, <1>3, <1>4, <1>5, <1>6, <1>7, <1>8, <1>9, <1>17, Zenon DEF FireStep
<1>18. CASE AgentStep
  BY <1>11, <1>12, <1>18, Zenon DEF AgentStep
<1>19. CASE Midnight \/ InitStep
  BY <1>15, <1>19, CallFrame
<1>20. CASE UNCHANGED vars
  BY <1>15, <1>20 DEF vars, lockState
<1>21. QED
  BY <1>14, <1>16, <1>17, <1>18, <1>19, <1>20, Zenon DEF Next

----------------------------------------------------------------------------
(* OneRunUnlessForced: the lock does its work.                             *)

\* f is about to execute t.
Calling(f, t) == task[f] = t /\ state[f] = "calling"

\* t is executed once at most, and is locked while it is.
Single(t) == /\ Running(t) => t \in activeTasks
             /\ \A f \in Fires : Calling(f, t) => t \in activeTasks /\ ~Running(t)
             /\ \A f, g \in Fires : Calling(f, t) /\ Calling(g, t) => f = g
             /\ \A d, e \in DayRange : run[t][d] # None /\ run[t][e] # None => d = e

\* The property, task by task.
LEMMA OnceIsSingle == OneRunUnlessForced <=> \A t \in Tasks \ forced : Single(t)
  BY DEF OneRunUnlessForced, Single, Calling

\* A step that brings t no fire, no run and no change of its lock keeps t single.
LEMMA SingleFrame ==
  ASSUME NEW t \in Tasks, Single(t),
         \A f \in Fires : Calling(f, t)' => Calling(f, t),
         run'[t] = run[t],
         t \in activeTasks' <=> t \in activeTasks
  PROVE  Single(t)'
<1>1. Running(t)' <=> Running(t)
  BY DEF Running
<1>2. QED
  BY <1>1 DEF Single

\* Nothing runs when the process starts.
LEMMA OnceInit == Init => OneRunUnlessForced
<1> SUFFICES ASSUME Init PROVE OneRunUnlessForced
  OBVIOUS
<1>1. \A t \in Tasks : ~Running(t)
  BY DEF Init, Running
<1>2. \A f \in Fires : state[f] = "new"
  BY DEF Init
<1>3. \A t \in Tasks, d \in DayRange : run[t][d] = None
  BY DEF Init
<1>4. QED
  BY <1>1, <1>2, <1>3 DEF OneRunUnlessForced

\* A fire takes a lock that is free, its run needs no second one, and every step that
\* goes past the lock, or gives it up early, is on record.
LEMMA OnceStep == Typed /\ OneRunUnlessForced /\ [Next]_vars => OneRunUnlessForced'
<1> SUFFICES ASSUME TypeOK, Provenance, [Next]_vars, \A t \in Tasks \ forced : Single(t)
             PROVE  OneRunUnlessForced'
  BY OnceIsSingle DEF Typed
<1>1. ASSUME \A t \in Tasks \ forced' : Single(t)' PROVE OneRunUnlessForced'
  <2>1. OneRunUnlessForced' <=> (\A t \in Tasks \ forced : Single(t))'
    BY OnceIsSingle, PTL
  <2>2. QED
    BY <1>1, <2>1
<1>2. ASSUME NEW t \in Tasks, ~Busy(t)' PROVE Single(t)'
  BY <1>2 DEF Busy, Single, Calling, Running
<1>3. ASSUME NEW f \in Fires, NEW t \in Tasks, state[f] # "calling", t \notin activeTasks, Execute(f, t),
             activeTasks' = activeTasks \cup {t}, UNCHANGED <<run, forced>>
      PROVE  OneRunUnlessForced'
  <2>1. Single(t)' \/ t \in forced
    <3>1. SUFFICES ASSUME t \notin forced PROVE Single(t)'
      OBVIOUS
    <3>2. ~Running(t) /\ \A g \in Fires : ~Calling(g, t)
      BY <1>3, <3>1 DEF Single
    <3>3. ~Running(t)' /\ \A g \in Fires : Calling(g, t)' => g = f
      BY <1>3, <3>2 DEF Execute, Calling, Running, TypeOK
    <3>4. QED
      BY <1>3, <3>3 DEF Single, Running
  <2>2. ASSUME NEW u \in Tasks \ forced, u # t PROVE Single(u)'
    <3>1. \A g \in Fires : Calling(g, u)' => Calling(g, u)
      BY <1>3, <2>2 DEF Execute, Calling, TypeOK
    <3>2. QED
      BY <1>3, <2>2, <3>1, SingleFrame
  <2>3. QED
    BY <1>1, <1>3, <2>1, <2>2
<1>4. ASSUME NEW f \in Fires, NEW t \in Tasks, Execute(f, t), UNCHANGED run,
             activeTasks' \in {activeTasks, activeTasks \cup {t}}, forced' = forced \cup {t}
      PROVE  OneRunUnlessForced'
  <2>1. ASSUME NEW u \in Tasks \ forced, u # t PROVE Single(u)'
    <3>1. \A g \in Fires : Calling(g, u)' => Calling(g, u)
      BY <1>4, <2>1 DEF Execute, Calling, TypeOK
    <3>2. QED
      BY <1>4, <2>1, <3>1, SingleFrame
  <2>2. QED
    BY <1>1, <1>4, <2>1
<1>5. ASSUME NEW f \in Fires, NEW t \in Tasks, Tick(f, t) PROVE OneRunUnlessForced'
  BY <1>3, <1>5 DEF Tick
<1>6. ASSUME \A f \in Fires : state'[f] = "calling" => state[f] = "calling" /\ task'[f] = task[f],
             UNCHANGED <<activeTasks, run>>,
             \A t \in forced \ forced' : ~Busy(t)'
      PROVE  OneRunUnlessForced'
  <2>1. ASSUME NEW u \in Tasks \ forced PROVE Single(u)'
    <3>1. \A g \in Fires : Calling(g, u)' => Calling(g, u)
      BY <1>6 DEF Calling
    <3>2. QED
      BY <1>6, <2>1, <3>1, SingleFrame
  <2>2. QED
    BY <1>1, <1>2, <1>6, <2>1
<1>7. ASSUME NEW f \in Fires, NEW t \in Tasks, TickHooked(f, t) PROVE OneRunUnlessForced'
  BY <1>6, <1>7 DEF TickHooked, TypeOK
<1>8. ASSUME NEW f \in Fires, NEW t \in Tasks, RunNow(f, t) \/ ZombieTick(f, t)
      PROVE  OneRunUnlessForced'
  BY <1>4, <1>8 DEF RunNow, ZombieTick
<1>9. ASSUME NEW f \in Fires, HookPasses(f) PROVE OneRunUnlessForced'
  <2>1. PICK t \in Tasks : t = task[f]
    BY <1>9 DEF HookPasses, Provenance
  <2>2. CASE f \in stale \/ t \in activeTasks
    BY <1>4, <1>9, <2>1, <2>2 DEF HookPasses
  <2>3. CASE ~(f \in stale \/ t \in activeTasks)
    BY <1>3, <1>9, <2>1, <2>3 DEF HookPasses
  <2>4. QED
    BY <2>2, <2>3
<1>10. ASSUME NEW f \in Fires, HookRefuses(f) PROVE OneRunUnlessForced'
  <2>1. \A t \in forced \ forced' : ~Busy(t)'
    BY <1>10 DEF HookRefuses
  <2>2. QED
    BY <1>6, <1>10, <2>1 DEF HookRefuses, TypeOK
<1>11. ASSUME NEW f \in Fires, Rejects(f) PROVE OneRunUnlessForced'
  <2>1. \A t \in forced \ forced' : ~Busy(t)'
    BY <1>11 DEF Rejects
  <2>2. QED
    BY <1>6, <1>11, <2>1 DEF Rejects, TypeOK
<1>12. ASSUME NEW f \in Fires, TimesOut(f) \/ Settles(f) PROVE OneRunUnlessForced'
  BY <1>6, <1>12 DEF TimesOut, Settles, TypeOK
<1>13. ASSUME NEW f \in Fires, Prompt(f) PROVE OneRunUnlessForced'
  <2>1. PICK t \in Tasks : t = task[f]
    BY <1>13 DEF Prompt, Provenance
  <2>2. /\ UNCHANGED <<activeTasks, task, forced>> /\ state' = [state EXCEPT ![f] = "prompted"]
        /\ run' = IF run[t][key[f]] = None THEN [run EXCEPT ![t][key[f]] = f] ELSE run
        /\ key[f] \in DayRange /\ Calling(f, t)
    BY <1>13, <2>1 DEF Prompt, Calling, TypeOK
  <2>3. \A g \in Fires, u \in Tasks : Calling(g, u)' => Calling(g, u) /\ g # f
    BY <2>2 DEF Calling, TypeOK
  <2>4. ASSUME t \notin forced PROVE Single(t)'
    <3>1. t \in activeTasks /\ ~Running(t) /\ \A g \in Fires : Calling(g, t) => g = f
      BY <2>2, <2>4 DEF Single
    <3>2. \A d \in DayRange : run'[t][d] # None => d = key[f]
      BY <2>2, <3>1 DEF Running, TypeOK
    <3>3. QED
      BY <2>2, <2>3, <3>1, <3>2 DEF Single
  <2>5. ASSUME NEW u \in Tasks \ forced, u # t PROVE Single(u)'
    <3>1. run'[u] = run[u]
      BY <2>2, <2>5 DEF TypeOK
    <3>2. QED
      BY <2>2, <2>3, <2>5, <3>1, SingleFrame
  <2>6. QED
    BY <1>1, <2>2, <2>4, <2>5
<1>14. ASSUME NEW t \in Tasks, UNCHANGED <<task, state>>, forced \cup {t} \subseteq forced',
              \A u \in Tasks \ {t} : run'[u] = run[u] /\ (u \in activeTasks' <=> u \in activeTasks)
       PROVE  OneRunUnlessForced'
  <2>1. ASSUME NEW u \in Tasks \ forced, u # t PROVE Single(u)'
    <3>1. \A g \in Fires : Calling(g, u)' => Calling(g, u)
      BY <1>14 DEF Calling
    <3>2. QED
      BY <1>14, <2>1, <3>1, SingleFrame
  <2>2. QED
    BY <1>1, <1>14, <2>1
<1>15. ASSUME NEW t \in Tasks, NEW d \in DayRange, SubagentEnds(t, d) \/ FollowUp(t, d)
       PROVE  OneRunUnlessForced'
  BY <1>14, <1>15 DEF SubagentEnds, FollowUp, OnAgentCompleted, TypeOK
<1>16. ASSUME NEW t \in Tasks, NEW d \in DayRange, RunEnds(t, d) PROVE OneRunUnlessForced'
  <2>1. /\ UNCHANGED <<task, state>> /\ run' = [run EXCEPT ![t][d] = None] /\ run[t][d] # None
        /\ activeTasks' \in {activeTasks, activeTasks \ {t}}
        /\ \A u \in forced \ forced' : ~Busy(u)'
    BY <1>16 DEF RunEnds, OnAgentCompleted
  <2>2. ASSUME t \notin forced PROVE Single(t)'
    <3>1. \A e \in DayRange : run[t][e] # None => e = d
      BY <2>1, <2>2 DEF Single
    <3>2. Running(t) /\ \A g \in Fires : ~Calling(g, t)
      BY <2>1, <2>2 DEF Single, Running
    <3>3. \A e \in DayRange : run'[t][e] = None
      BY <2>1, <3>1 DEF TypeOK
    <3>4. QED
      BY <2>1, <3>2, <3>3 DEF Single, Running, Calling
  <2>3. ASSUME NEW u \in Tasks \ forced, u # t PROVE Single(u)'
    <3>1. run'[u] = run[u]
      BY <2>1, <2>3 DEF TypeOK
    <3>2. \A g \in Fires : Calling(g, u)' => Calling(g, u)
      BY <2>1 DEF Calling
    <3>3. QED
      BY <2>1, <2>3, <3>1, <3>2, SingleFrame
  <2>4. QED
    BY <1>1, <1>2, <2>1, <2>2, <2>3
<1>17. ASSUME NEW c \in Calls, NEW t \in Tasks, Remove(c, t) PROVE OneRunUnlessForced'
  <2>1. /\ UNCHANGED <<task, state, run>> /\ activeTasks' = activeTasks \ {t}
        /\ forced' = IF Busy(t) THEN forced \cup {t} ELSE forced
    BY <1>17 DEF Remove
  <2>2. CASE Busy(t)
    BY <1>14, <2>1, <2>2
  <2>3. CASE ~Busy(t)
    <3>1. ~Busy(t)'
      BY <2>1, <2>3 DEF Busy, Running
    <3>2. ASSUME NEW u \in Tasks \ forced, u # t PROVE Single(u)'
      <4>1. \A g \in Fires : Calling(g, u)' => Calling(g, u)
        BY <2>1 DEF Calling
      <4>2. QED
        BY <2>1, <3>2, <4>1, SingleFrame
    <3>3. QED
      BY <1>1, <1>2, <2>1, <2>3, <3>1, <3>2
  <2>4. QED
    BY <2>2, <2>3
<1>18. CASE Reload
  <2>1. \A t \in Tasks \ forced' : ~Busy(t) /\ UNCHANGED <<task, state, run>>
    BY <1>18 DEF Reload
  <2>2. \A t \in Tasks \ forced' : ~Busy(t)'
    BY <2>1 DEF Busy, Running
  <2>3. QED
    BY <1>1, <1>2, <2>2
<1>19. CASE Restart \/ BootFails
  <2>1. \A t \in Tasks : ~Busy(t)'
    BY <1>19 DEF Restart, BootFails, ProcessEnds, Busy, Running
  <2>2. QED
    BY <1>1, <1>2, <2>1
<1>20. ASSUME UNCHANGED lockState PROVE OneRunUnlessForced'
  BY <1>6, <1>20 DEF lockState
<1>21. ASSUME NEW c \in Calls, CallStep(c) PROVE OneRunUnlessForced'
  BY <1>17, <1>20, <1>21, CallFrame
<1>22. ASSUME NEW f \in Fires, FireStep(f) PROVE OneRunUnlessForced'
  BY <1>5, <1>7, <1>8, <1>9, <1>10, <1>11, <1>12, <1>13, <1>22, Zenon DEF FireStep
<1>23. CASE AgentStep
  BY <1>15, <1>16, <1>23, Zenon DEF AgentStep
<1>24. CASE Midnight \/ InitStep
  BY <1>20, <1>24, CallFrame
<1>25. CASE UNCHANGED vars
  BY <1>20, <1>25 DEF vars, lockState
<1>26. QED
  BY <1>18, <1>19, <1>21, <1>22, <1>23, <1>24, <1>25, Zenon DEF Next

----------------------------------------------------------------------------
(* TimerInv: the timers.                                                   *)

\* A definition is a record, never None.
LEMMA Defined == ASSUME NEW d \in Def PROVE d # None
  OBVIOUS

\* The preset tasks are started when the process starts.
LEMMA TimerInit == Init => TimerInv
<1>1. Seeded # None /\ Seeded.enabled
  BY Defined DEF Seeded, Def
<1>2. QED
  BY <1>1 DEF Init, TimerInv

\* A timer is started or stopped together with every change of its job's `enabled`.
LEMMA TimerStep == Typed /\ TimerInv /\ [Next]_vars => TimerInv'
<1> SUFFICES ASSUME TypeOK, Provenance, TimerInv, [Next]_vars PROVE TimerInv'
  BY DEF Typed
<1> DEFINE On(t) == t \in ticking <=> (jobs[t] # None /\ jobs[t].enabled)
<1>0. botched \cap ticking = {} /\ (phase = "up" \/ Loading => \A t \in Tasks \ botched : On(t))
  BY DEF TimerInv
<1>1. ASSUME botched' \cap ticking' = {},
             phase' = "up" \/ Loading' => \A t \in Tasks \ botched' : On(t)'
      PROVE  TimerInv'
  BY <1>1 DEF TimerInv
<1>2. ASSUME UNCHANGED <<phase, ticking, jobs, botched>> PROVE TimerInv'
  BY <1>0, <1>1, <1>2 DEF Loading
<1>3. ASSUME NEW t \in Tasks, UNCHANGED phase, \A u \in Tasks \ {t} : On(u)' <=> On(u),
             \/ On(t)' /\ botched' = botched \ {t} /\ ticking' \subseteq ticking \cup {t}
             \/ (On(t) => On(t)') /\ botched' = botched /\ ticking' = ticking
             \/ botched' = botched \cup {t} /\ ticking' = ticking \ {t}
      PROVE  TimerInv'
  BY <1>0, <1>1, <1>3 DEF Loading
<1>4. ASSUME NEW c \in Calls, NEW t \in Tasks, NEW valid \in BOOLEAN, Add(c, t, valid)
      PROVE  TimerInv'
  BY <1>2, <1>4 DEF Add
<1>5. ASSUME NEW c \in Calls, NEW t \in Tasks, NEW enable \in {"keep", "on", "off"},
             NEW reschedule \in BOOLEAN, Update(c, t, enable, reschedule)
      PROVE  TimerInv'
  <2> DEFINE new == [rev |-> c, valid |-> TRUE,
                     enabled |-> IF enable = "keep" THEN jobs[t].enabled ELSE enable = "on"]
             retime == reschedule \/ enable # "keep"
  <2>1. new \in Def /\ new # None /\ jobs[t] # None
    <3>1. jobs[t] # None /\ jobs[t] \in Def
      BY <1>5 DEF Update, TypeOK
    <3>2. jobs[t].enabled \in BOOLEAN
      BY <3>1 DEF Def
    <3>3. new \in Def
      BY <3>2 DEF Def
    <3>4. QED
      BY <3>1, <3>3, Defined
  <2>2. /\ jobs' = [jobs EXCEPT ![t] = new] /\ UNCHANGED phase
        /\ ticking' = IF ~retime THEN ticking
                      ELSE IF new.enabled THEN ticking \cup {t} ELSE ticking \ {t}
        /\ botched' = IF retime THEN botched \ {t} ELSE botched
    BY <1>5 DEF Update
  <2>3. jobs'[t] = new /\ \A u \in Tasks \ {t} : jobs'[u] = jobs[u]
    BY <2>2 DEF TypeOK
  <2>4. \A u \in Tasks \ {t} : On(u)' <=> On(u)
    BY <2>2, <2>3
  <2>5. CASE retime
    BY <1>3, <2>1, <2>2, <2>3, <2>4, <2>5
  <2>6. CASE ~retime
    <3>1. new.enabled = jobs[t].enabled
      BY <2>6
    <3>2. On(t) => On(t)'
      BY <2>1, <2>2, <2>3, <2>6, <3>1
    <3>3. QED
      BY <1>3, <2>2, <2>4, <2>6, <3>2
  <2>7. QED
    BY <2>5, <2>6
<1>6. ASSUME NEW c \in Calls, NEW t \in Tasks, UpdateThrows(c, t) PROVE TimerInv'
  BY <1>3, <1>6 DEF UpdateThrows
<1>7. ASSUME NEW c \in Calls, NEW t \in Tasks, Remove(c, t) PROVE TimerInv'
  BY <1>3, <1>7 DEF Remove, TypeOK
<1>8. ASSUME NEW c \in Calls, Placed(c) PROVE TimerInv'
  <2>1. PICK t \in Tasks : t = target[c]
    BY <1>8 DEF Placed, Provenance
  <2>2. patch[c] \in Def /\ patch[c] # None /\ patch[c].enabled
    BY <1>8, Defined DEF Placed, Provenance
  <2>3. CASE c \in stale \/ ~patch[c].valid
    BY <1>2, <1>8, <2>3 DEF Placed
  <2>4. CASE ~(c \in stale \/ ~patch[c].valid)
    <3>1. /\ jobs' = [jobs EXCEPT ![t] = patch[c]] /\ ticking' = ticking \cup {t}
          /\ botched' = botched \ {t} /\ UNCHANGED phase
      BY <1>8, <2>1, <2>4 DEF Placed
    <3>2. QED
      BY <1>3, <2>2, <3>1 DEF TypeOK
  <2>5. QED
    BY <2>3, <2>4
<1>9. ASSUME NEW c \in Calls,
             WriteTmp(c) \/ Renamed(c) \/ WriteFails(c) \/ Unlinked(c) \/ UnlinkFails(c)
      PROVE  TimerInv'
  BY <1>2, <1>9 DEF WriteTmp, Renamed, WriteFails, Unlinked, UnlinkFails
<1>10. CASE Reload \/ Restart \/ BootFails
  BY <1>1, <1>10 DEF Reload, Restart, BootFails, ProcessEnds, StartsToLoad, NoTasks
<1>11. CASE Load
  <2>1. \A t \in Found : jobs'[t] = found[t] /\ found[t] # None /\ (t \in ticking' <=> found[t].enabled)
    BY <1>11 DEF Load, AddJobs, Found
  <2>2. \A t \in Tasks \ Found : jobs'[t] = jobs[t]
    BY <1>11 DEF Load, AddJobs
  <2>3. \A t \in Tasks : t \in ticking => jobs[t] # None /\ jobs[t].enabled
    BY <1>0, <1>11 DEF Load, AllRead
  <2>4. \A t \in Tasks \ Found : t \in ticking' <=> jobs'[t] # None /\ jobs'[t].enabled
    BY <1>11, <2>2, <2>3 DEF Load
  <2>5. \A t \in Tasks : On(t)'
    BY <2>1, <2>4
  <2>6. botched' = {}
    BY <1>11 DEF Load
  <2>7. botched' \cap ticking' = {}
    BY <2>6
  <2> HIDE DEF On
  <2>8. QED
    BY <1>1, <2>5, <2>7
<1>12. CASE LoadFails
  <2>1. botched' = botched /\ ticking' \subseteq ticking
    BY <1>12 DEF LoadFails
  <2>2. QED
    BY <1>0, <1>1, <1>12, <2>1 DEF LoadFails, Loading
<1>13. CASE ReadDir \/ ReadDirFails \/ \E t \in Tasks : ReadFile(t) \/ ReadFails(t)
  BY <1>2, <1>13, ReadFrame
<1>14. CASE UNCHANGED vars
  BY <1>2, <1>14 DEF vars
<1>15. ASSUME NEW c \in Calls, CallStep(c) PROVE TimerInv'
  BY <1>4, <1>5, <1>6, <1>7, <1>8, <1>9, <1>15, Zenon DEF CallStep
<1>16. ASSUME (\E f \in Fires : FireStep(f)) \/ AgentStep \/ Midnight PROVE TimerInv'
  BY <1>2, <1>16, FireFrame DEF fileState
<1>17. QED
  BY <1>10, <1>11, <1>12, <1>13, <1>14, <1>15, <1>16, InitSteps, Zenon DEF Next

----------------------------------------------------------------------------
(* Origins, AddsInv and LoadingInv: where jobs and files come from.        *)

\* Only the preset tasks are there when the process starts.
LEMMA OriginsInit == Init => Origins
  BY DEF Init, Origins, NoTasks

\* A job or a file appears only in a call about it, or by a load of the file.
LEMMA OriginsStep == Typed /\ Origins /\ [Next]_vars => Origins'
<1> SUFFICES ASSUME TypeOK, Provenance, Origins, [Next]_vars PROVE Origins'
  BY DEF Typed
<1> DEFINE There(t) == jobs[t] # None \/ disk[t] # None \/ found[t] # None
<1>1. ASSUME \A c \in Calls : target[c] # None => target'[c] = target[c],
             \A t \in Tasks : There(t)' => There(t) \/ \E c \in Calls : target'[c] = t
      PROVE  Origins'
  <2>1. SUFFICES ASSUME NEW t \in Tasks, There(t)' PROVE t \in Preset \/ \E c \in Calls : target'[c] = t
    BY DEF Origins
  <2>2. CASE There(t)
    BY <1>1, <2>2 DEF Origins
  <2>3. QED
    BY <1>1, <2>1, <2>2
<1>2. ASSUME NEW c \in Calls, NEW t \in Tasks, Begin(c, t) PROVE \A b \in Calls : target[b] # None => target'[b] = target[b]
  BY <1>2 DEF Begin, Provenance, TypeOK
<1>3. ASSUME NEW c \in Calls, NEW t \in Tasks, NEW valid \in BOOLEAN, Add(c, t, valid)
      PROVE  Origins'
  BY <1>1, <1>2, <1>3 DEF Add
<1>4. ASSUME NEW c \in Calls, NEW t \in Tasks, NEW enable \in {"keep", "on", "off"},
             NEW reschedule \in BOOLEAN, Update(c, t, enable, reschedule)
      PROVE  Origins'
  <2>1. Begin(c, t) /\ UNCHANGED <<disk, found>> /\ jobs[t] # None /\ \A u \in Tasks \ {t} : jobs'[u] = jobs[u]
    BY <1>4 DEF Update, TypeOK
  <2>2. QED
    BY <1>1, <1>2, <2>1
<1>5. ASSUME NEW c \in Calls, NEW t \in Tasks, UpdateThrows(c, t) PROVE Origins'
  BY <1>1, <1>2, <1>5 DEF UpdateThrows
<1>6. ASSUME NEW c \in Calls, NEW t \in Tasks, Remove(c, t) PROVE Origins'
  BY <1>1, <1>2, <1>6 DEF Remove, TypeOK
<1>7. ASSUME NEW c \in Calls,
             \/ WriteTmp(c) \/ Placed(c) \/ Renamed(c) \/ WriteFails(c)
             \/ Unlinked(c) \/ UnlinkFails(c)
      PROVE  Origins'
  <2>1. UNCHANGED <<target, found>> /\ \A u \in Tasks \ {target[c]} : jobs'[u] = jobs[u] /\ disk'[u] = disk[u]
    BY <1>7 DEF WriteTmp, Placed, Rename, Renamed, WriteFails, Unlinked, UnlinkFails, TypeOK
  <2>2. QED
    BY <1>1, <2>1
<1>8. CASE Reload \/ Restart \/ BootFails
  BY <1>1, <1>8 DEF Reload, Restart, BootFails, ProcessEnds, StartsToLoad, NoTasks
<1>9. CASE Load \/ LoadFails
  BY <1>1, <1>9 DEF Load, LoadFails, AddJobs, NoTasks
<1>10. CASE ReadDir \/ ReadDirFails \/ \E t \in Tasks : ReadFile(t) \/ ReadFails(t)
  <2>1. \A t \in Tasks : found'[t] # None => found[t] # None \/ disk[t] # None
    BY <1>10 DEF ReadDir, ReadDirFails, ReadFile, ReadFails, TypeOK
  <2>2. QED
    BY <1>1, <1>10, <2>1, ReadFrame
<1>11. CASE UNCHANGED vars
  BY <1>1, <1>11 DEF vars
<1>12. ASSUME NEW c \in Calls, CallStep(c) PROVE Origins'
  BY <1>3, <1>4, <1>5, <1>6, <1>7, <1>12, Zenon DEF CallStep
<1>13. ASSUME (\E f \in Fires : FireStep(f)) \/ AgentStep \/ Midnight PROVE Origins'
  BY <1>1, <1>13, FireFrame DEF fileState
<1>14. QED
  BY <1>8, <1>9, <1>10, <1>11, <1>12, <1>13, InitSteps, Zenon DEF Next

\* No call is in flight when the process starts.
LEMMA AddsInit == Init => AddsInv
  BY DEF Init, AddsInv

\* Nobody else can be about the task of a cron.add in flight: it is not in the map yet.
LEMMA AddsStep == Typed /\ Origins /\ AddsInv /\ [Next]_vars => AddsInv'
<1> SUFFICES ASSUME TypeOK, Provenance, Origins, AddsInv, [Next]_vars PROVE AddsInv'
  BY DEF Typed
<1> DEFINE Adding(c) == step[c] \in {"adding", "placing"}
<1>1. ASSUME \A c \in Calls : Adding(c)' => /\ Adding(c)
                                           /\ jobs'[target[c]] = None /\ disk'[target[c]] = None
                                           /\ found'[target[c]] = None,
             UNCHANGED target
      PROVE  AddsInv'
  BY <1>1 DEF AddsInv
<1>2. ASSUME NEW c \in Calls, NEW t \in Tasks, Begin(c, t), jobs[t] # None,
             \A b \in Calls : Adding(b)' => Adding(b) /\ b # c,
             \A u \in Tasks \ {t} : jobs'[u] = jobs[u] /\ disk'[u] = disk[u], UNCHANGED found
      PROVE  AddsInv'
  <2>1. \A b \in Calls \ {c} : target'[b] = target[b]
    BY <1>2 DEF Begin, TypeOK
  <2>2. target'[c] = t
    BY <1>2 DEF Begin, TypeOK
  <2>3. \A b \in Calls : Adding(b) => target[b] # t /\ target[b] \in Tasks
    BY <1>2 DEF AddsInv, Provenance
  <2>4. QED
    BY <1>2, <2>1, <2>2, <2>3 DEF AddsInv
<1>3. ASSUME NEW c \in Calls, NEW t \in Tasks, NEW valid \in BOOLEAN, Add(c, t, valid)
      PROVE  AddsInv'
  <2>1. t \notin Preset /\ \A b \in Calls : target[b] # t
    BY <1>3 DEF Add
  <2>2. jobs[t] = None /\ disk[t] = None /\ found[t] = None
    BY <2>1 DEF Origins
  <2>3. /\ UNCHANGED <<jobs, disk, found>> /\ target' = [target EXCEPT ![c] = t] /\ step[c] = "new"
        /\ step' = [step EXCEPT ![c] = "adding"]
    BY <1>3 DEF Add, Begin
  <2>4. \A b \in Calls \ {c} : target'[b] = target[b] /\ step'[b] = step[b]
    BY <2>3 DEF TypeOK
  <2>5. target'[c] = t
    BY <2>3 DEF TypeOK
  <2>6. QED
    BY <2>1, <2>2, <2>3, <2>4, <2>5 DEF AddsInv
<1>4. ASSUME NEW c \in Calls, NEW t \in Tasks, NEW enable \in {"keep", "on", "off"},
             NEW reschedule \in BOOLEAN, Update(c, t, enable, reschedule)
      PROVE  AddsInv'
  <2>1. step' = [step EXCEPT ![c] = NextStep(t, "writing")] /\ NextStep(t, "writing") \in {"done", "writing"}
    BY <1>4 DEF Update, NextStep
  <2>2. /\ Begin(c, t) /\ UNCHANGED <<disk, found>> /\ jobs[t] # None
        /\ \A u \in Tasks \ {t} : jobs'[u] = jobs[u]
    BY <1>4 DEF Update, TypeOK
  <2>3. \A b \in Calls : Adding(b)' => Adding(b) /\ b # c
    BY <2>1 DEF TypeOK
  <2>4. QED
    BY <1>2, <2>2, <2>3
<1>5. ASSUME NEW c \in Calls, NEW t \in Tasks, UpdateThrows(c, t) PROVE AddsInv'
  BY <1>2, <1>5 DEF UpdateThrows, TypeOK
<1>6. ASSUME NEW c \in Calls, NEW t \in Tasks, Remove(c, t) PROVE AddsInv'
  <2>1. step' = [step EXCEPT ![c] = NextStep(t, "unlinking")] /\ NextStep(t, "unlinking") \in {"done", "unlinking"}
    BY <1>6 DEF Remove, NextStep
  <2>2. /\ Begin(c, t) /\ UNCHANGED <<disk, found>> /\ jobs[t] # None
        /\ \A u \in Tasks \ {t} : jobs'[u] = jobs[u]
    BY <1>6 DEF Remove, TypeOK
  <2>3. \A b \in Calls : Adding(b)' => Adding(b) /\ b # c
    BY <2>1 DEF TypeOK
  <2>4. QED
    BY <1>2, <2>2, <2>3
<1>7. ASSUME NEW c \in Calls, WriteTmp(c) PROVE AddsInv'
  BY <1>1, <1>7 DEF WriteTmp, AddsInv, TypeOK
<1>8. ASSUME NEW c \in Calls,
             step' = [step EXCEPT ![c] = "done"], UNCHANGED <<target, found>>,
             \A u \in Tasks \ {target[c]} : jobs'[u] = jobs[u] /\ disk'[u] = disk[u]
      PROVE  AddsInv'
  <2>1. \A b \in Calls : Adding(b)' => Adding(b) /\ b # c
    BY <1>8 DEF TypeOK
  <2>2. \A b \in Calls : Adding(b) /\ b # c => target[b] # target[c] /\ target[b] \in Tasks
    BY DEF AddsInv, Provenance
  <2>3. \A b \in Calls : Adding(b)' => /\ jobs'[target[b]] = None /\ disk'[target[b]] = None
                                      /\ found'[target[b]] = None
    BY <1>8, <2>1, <2>2 DEF AddsInv
  <2>4. QED
    BY <1>1, <1>8, <2>1, <2>3
<1>9. ASSUME NEW c \in Calls,
             Placed(c) \/ Renamed(c) \/ WriteFails(c) \/ Unlinked(c) \/ UnlinkFails(c)
      PROVE  AddsInv'
  <2>1. /\ step' = [step EXCEPT ![c] = "done"] /\ UNCHANGED <<target, found>>
        /\ \A u \in Tasks \ {target[c]} : jobs'[u] = jobs[u] /\ disk'[u] = disk[u]
    BY <1>9 DEF Placed, Rename, Renamed, WriteFails, Unlinked, UnlinkFails, Returns, TypeOK
  <2>2. QED
    BY <1>8, <2>1
<1>17. \A c \in Calls : Adding(c) => target[c] \in Tasks
  BY DEF Provenance
<1>10. CASE Reload
  BY <1>1, <1>10, <1>17 DEF Reload, StartsToLoad, NoTasks, AddsInv
<1>11. CASE Load \/ LoadFails
  <2>1. \A t \in Tasks : jobs[t] = None /\ found[t] = None => jobs'[t] = None /\ found'[t] = None
    BY <1>11 DEF Load, LoadFails, AddJobs, NoTasks
  <2>2. UNCHANGED <<disk, step, target>>
    BY <1>11 DEF Load, LoadFails
  <2>3. QED
    BY <1>1, <1>17, <2>1, <2>2 DEF AddsInv
<1>18. CASE ReadDir \/ ReadDirFails \/ \E t \in Tasks : ReadFile(t) \/ ReadFails(t)
  <2>1. \A t \in Tasks : found'[t] # None => found[t] # None \/ disk[t] # None
    BY <1>18 DEF ReadDir, ReadDirFails, ReadFile, ReadFails, TypeOK
  <2>2. QED
    BY <1>1, <1>17, <1>18, <2>1, ReadFrame DEF AddsInv
<1>12. CASE Restart \/ BootFails
  <2>1. \A c \in Calls : ~Adding(c)'
    BY <1>12 DEF Restart, BootFails, ProcessEnds, InFlight
  <2>2. QED
    BY <2>1 DEF AddsInv
<1>13. CASE UNCHANGED vars
  BY <1>1, <1>13 DEF vars, AddsInv
<1>14. ASSUME NEW c \in Calls, CallStep(c) PROVE AddsInv'
  BY <1>3, <1>4, <1>5, <1>6, <1>7, <1>9, <1>14, Zenon DEF CallStep
<1>15. ASSUME (\E f \in Fires : FireStep(f)) \/ AgentStep \/ Midnight PROVE AddsInv'
  BY <1>1, <1>15, FireFrame DEF fileState, AddsInv
<1>16. QED
  BY <1>10, <1>11, <1>12, <1>13, <1>14, <1>15, <1>18, InitSteps, Zenon DEF Next

\* The process starts with its tasks loaded.
LEMMA LoadingInit == Init => LoadingInv
  BY DEF Init, LoadingInv, Loading

\* A job made while init still loads has its file in place, and an unlink has no job.
LEMMA LoadingStep == Typed /\ AddsInv /\ LoadingInv /\ [Next]_vars => LoadingInv'
<1> SUFFICES ASSUME TypeOK, Provenance, AddsInv, LoadingInv, [Next]_vars PROVE LoadingInv'
  BY DEF Typed
<1> DEFINE Kept(t) == jobs[t] # None => /\ disk[t] # None
                                        /\ \A c \in Calls : target[c] = t => step[c] # "unlinking"
<1>0. Loading => \A t \in Tasks : Kept(t)
  BY DEF LoadingInv
<1>1. ASSUME Loading' => Loading /\ \A t \in Tasks : Kept(t) => Kept(t)'
      PROVE  LoadingInv'
  BY <1>0, <1>1 DEF LoadingInv
<1>2. ASSUME NEW c \in Calls, NEW t \in Tasks, Begin(c, t), UNCHANGED <<phase, disk>>,
             step'[c] # "unlinking" \/ jobs'[t] = None,
             jobs'[t] # None => jobs[t] # None,
             \A u \in Tasks \ {t} : jobs'[u] = jobs[u],
             \A b \in Calls \ {c} : step'[b] = step[b]
      PROVE  LoadingInv'
  <2>1. target'[c] = t /\ \A b \in Calls \ {c} : target'[b] = target[b]
    BY <1>2 DEF Begin, TypeOK
  <2>2. \A u \in Tasks : Kept(u) => Kept(u)'
    BY <1>2, <2>1
  <2>3. QED
    BY <1>1, <1>2, <2>2 DEF Loading
<1>3. ASSUME NEW c \in Calls, NEW t \in Tasks, NEW valid \in BOOLEAN, Add(c, t, valid)
      PROVE  LoadingInv'
  BY <1>2, <1>3 DEF Add, TypeOK
<1>4. ASSUME NEW c \in Calls, NEW t \in Tasks, NEW enable \in {"keep", "on", "off"},
             NEW reschedule \in BOOLEAN, Update(c, t, enable, reschedule)
      PROVE  LoadingInv'
  <2>1. step' = [step EXCEPT ![c] = NextStep(t, "writing")] /\ NextStep(t, "writing") # "unlinking"
    BY <1>4 DEF Update, NextStep
  <2>2. /\ Begin(c, t) /\ UNCHANGED <<phase, disk>> /\ jobs[t] # None
        /\ \A u \in Tasks \ {t} : jobs'[u] = jobs[u]
    BY <1>4 DEF Update, TypeOK
  <2>3. QED
    BY <1>2, <2>1, <2>2 DEF TypeOK
<1>5. ASSUME NEW c \in Calls, NEW t \in Tasks, UpdateThrows(c, t) PROVE LoadingInv'
  BY <1>2, <1>5 DEF UpdateThrows, TypeOK
<1>6. ASSUME NEW c \in Calls, NEW t \in Tasks, Remove(c, t) PROVE LoadingInv'
  BY <1>2, <1>6 DEF Remove, TypeOK
<1>7. ASSUME NEW c \in Calls, UNCHANGED <<phase, target>>, step'[c] # "unlinking",
             \A b \in Calls \ {c} : step'[b] = step[b],
             \A u \in Tasks \ {target[c]} : jobs'[u] = jobs[u] /\ disk'[u] = disk[u],
             Kept(target[c]) => Kept(target[c])'
      PROVE  LoadingInv'
  <2>1. \A u \in Tasks \ {target[c]} : Kept(u) => Kept(u)'
    BY <1>7
  <2>2. QED
    BY <1>1, <1>7, <2>1 DEF Loading
<1>8. ASSUME NEW c \in Calls, WriteTmp(c) PROVE LoadingInv'
  <2>1. UNCHANGED <<phase, target, jobs, disk>>
    BY <1>8 DEF WriteTmp
  <2>2. step'[c] # "unlinking" /\ \A b \in Calls \ {c} : step'[b] = step[b]
    BY <1>8 DEF WriteTmp, TypeOK
  <2>3. QED
    BY <1>7, <2>1, <2>2
<1>9. ASSUME NEW c \in Calls, Placed(c) PROVE LoadingInv'
  <2>1. PICK t \in Tasks : t = target[c]
    BY <1>9 DEF Placed, Provenance
  <2>2. /\ UNCHANGED <<phase, target>> /\ step' = [step EXCEPT ![c] = "done"]
        /\ tmp[t] # None /\ disk' = [disk EXCEPT ![t] = tmp[t]]
    BY <1>9, <2>1 DEF Placed, Rename, Returns
  <2>3. \A u \in Tasks \ {t} : jobs'[u] = jobs[u]
    BY <1>9, <2>1 DEF Placed, TypeOK
  <2>4. \A b \in Calls \ {c} : target[b] # t
    BY <1>9, <2>1 DEF Placed, AddsInv
  <2>5. disk'[t] # None /\ \A u \in Tasks \ {t} : disk'[u] = disk[u]
    BY <2>2 DEF TypeOK
  <2>6. step'[c] # "unlinking" /\ \A b \in Calls \ {c} : step'[b] = step[b]
    BY <2>2 DEF TypeOK
  <2>7. Kept(t)'
    BY <2>2, <2>4, <2>5, <2>6
  <2>8. QED
    BY <1>7, <2>1, <2>2, <2>3, <2>5, <2>6, <2>7
<1>10. ASSUME NEW c \in Calls, Renamed(c) PROVE LoadingInv'
  <2>1. PICK t \in Tasks : t = target[c]
    BY <1>10 DEF Renamed, Provenance
  <2>2. /\ UNCHANGED <<phase, target, jobs>> /\ step' = [step EXCEPT ![c] = "done"]
        /\ tmp[t] # None /\ disk' = [disk EXCEPT ![t] = tmp[t]]
    BY <1>10, <2>1 DEF Renamed, Rename, Returns
  <2>3. step'[c] # "unlinking" /\ \A b \in Calls \ {c} : step'[b] = step[b]
    BY <2>2 DEF TypeOK
  <2>4. disk'[t] # None /\ \A u \in Tasks \ {t} : disk'[u] = disk[u]
    BY <2>2 DEF TypeOK
  <2>5. QED
    BY <1>7, <2>1, <2>2, <2>3, <2>4
<1>11. ASSUME NEW c \in Calls, WriteFails(c) \/ UnlinkFails(c) PROVE LoadingInv'
  <2>1. UNCHANGED <<phase, target, jobs, disk>> /\ step' = [step EXCEPT ![c] = "done"]
    BY <1>11 DEF WriteFails, UnlinkFails, Returns
  <2>2. step'[c] # "unlinking" /\ \A b \in Calls \ {c} : step'[b] = step[b]
    BY <2>1 DEF TypeOK
  <2>3. QED
    BY <1>7, <2>1, <2>2
<1>12. ASSUME NEW c \in Calls, Unlinked(c) PROVE LoadingInv'
  <2>1. PICK t \in Tasks : t = target[c]
    BY <1>12 DEF Unlinked, Provenance
  <2>2. /\ UNCHANGED <<phase, target, jobs>> /\ step' = [step EXCEPT ![c] = "done"]
        /\ disk' = [disk EXCEPT ![t] = None] /\ step[c] = "unlinking"
    BY <1>12, <2>1 DEF Unlinked, Returns
  <2>3. Loading => jobs[t] = None
    BY <1>0, <2>1, <2>2
  <2>4. \A b \in Calls \ {c} : step'[b] = step[b]
    BY <2>2 DEF TypeOK
  <2>5. \A u \in Tasks \ {t} : disk'[u] = disk[u]
    BY <2>2 DEF TypeOK
  <2>6. step'[c] # "unlinking"
    BY <2>2 DEF TypeOK
  <2>7. Loading => \A u \in Tasks : Kept(u) => Kept(u)'
    BY <2>2, <2>3, <2>4, <2>5, <2>6
  <2>8. QED
    BY <1>1, <2>2, <2>7 DEF Loading
<1>13. CASE Reload \/ Restart \/ BootFails
  BY <1>13 DEF Reload, Restart, BootFails, ProcessEnds, StartsToLoad, NoTasks, LoadingInv
<1>14. CASE Load \/ LoadFails
  BY <1>14 DEF Load, LoadFails, LoadingInv, Loading
<1>19. CASE ReadDir \/ ReadDirFails \/ \E t \in Tasks : ReadFile(t) \/ ReadFails(t)
  BY <1>1, <1>19, ReadFrame DEF Loading
<1>15. CASE UNCHANGED vars
  BY <1>1, <1>15 DEF vars, Loading
<1>16. ASSUME NEW c \in Calls, CallStep(c) PROVE LoadingInv'
  BY <1>3, <1>4, <1>5, <1>6, <1>8, <1>9, <1>10, <1>11, <1>12, <1>16, Zenon DEF CallStep
<1>17. ASSUME (\E f \in Fires : FireStep(f)) \/ AgentStep \/ Midnight PROVE LoadingInv'
  BY <1>1, <1>17, FireFrame DEF fileState, Loading
<1>18. QED
  BY <1>13, <1>14, <1>15, <1>16, <1>17, <1>19, InitSteps, Zenon DEF Next

----------------------------------------------------------------------------
(* FoundInv: what init holds while it reads.                               *)

\* Nothing is being loaded when the process starts.
LEMMA FoundInit == Init => FoundInv
  BY DEF Init, FoundInv, NoTasks, Loading

\* A file that changes after init has read it is recorded as diverged.
LEMMA FoundStep == Typed /\ FoundInv /\ [Next]_vars => FoundInv'
<1> SUFFICES ASSUME Typed, FoundInv, [Next]_vars PROVE FoundInv'
  OBVIOUS
<1> USE DEF TypeOK
<1>1. ASSUME UNCHANGED <<phase, listed, unread, found>>, diverged \subseteq diverged',
             \A t \in Tasks \ diverged' : Loading /\ found[t] # None => disk'[t] = disk[t]
      PROVE  FoundInv'
  BY <1>1 DEF FoundInv, Loading
<1>2. ASSUME NEW c \in Calls, NEW t \in Tasks,
             \/ \E valid \in BOOLEAN : Add(c, t, valid)
             \/ \E enable \in {"keep", "on", "off"}, reschedule \in BOOLEAN :
                  Update(c, t, enable, reschedule)
             \/ UpdateThrows(c, t) \/ Remove(c, t)
      PROVE  FoundInv'
  BY <1>1, <1>2 DEF Add, Update, UpdateThrows, Remove, Begin
<1>3. ASSUME NEW c \in Calls, WriteTmp(c) \/ WriteFails(c) \/ UnlinkFails(c) PROVE FoundInv'
  BY <1>1, <1>3 DEF WriteTmp, WriteFails, UnlinkFails
<1>4. ASSUME NEW c \in Calls, Placed(c) \/ Renamed(c) \/ Unlinked(c) PROVE FoundInv'
  <2>1. PICK t \in Tasks : t = target[c]
    BY <1>4 DEF Placed, Renamed, Unlinked, Typed, Provenance
  <2>2. /\ UNCHANGED <<phase, listed, unread, found>> /\ diverged \subseteq diverged'
        /\ \A u \in Tasks \ {t} : disk'[u] = disk[u]
    BY <1>4, <2>1 DEF Placed, Rename, Renamed, Unlinked, Typed
  <2>3. Behind(c) => t \in diverged'
    BY <1>4, <2>1 DEF Placed, Renamed, Unlinked
  <2>4. Loading /\ found[t] # None => Behind(c)
    BY <2>1 DEF FoundInv, NoTasks, Behind
  <2>5. QED
    BY <1>1, <2>2, <2>3, <2>4
<1>5. CASE Reload \/ Restart \/ BootFails
  BY <1>5 DEF Reload, Restart, BootFails, ProcessEnds, StartsToLoad, NoTasks, FoundInv
<1>6. CASE Load \/ LoadFails
  BY <1>6 DEF Load, LoadFails, AllRead, NoTasks, FoundInv
<1>7. CASE ReadDir \/ ReadDirFails
  <2>1. found' = NoTasks /\ listed'
    BY <1>7 DEF ReadDir, ReadDirFails, FoundInv
  <2>2. \A t \in Tasks : found'[t] = None
    BY <2>1 DEF NoTasks
  <2>3. unread' \subseteq Tasks
    BY <1>7 DEF ReadDir, ReadDirFails, Present, Typed
  <2>4. QED
    BY <2>1, <2>2, <2>3 DEF FoundInv
<1>8. ASSUME NEW t \in Tasks, ReadFile(t) \/ ReadFails(t) PROVE FoundInv'
  <2>1. /\ UNCHANGED <<phase, listed, disk>> /\ unread' = unread \ {t} /\ t \in unread /\ Loading
        /\ \A u \in Tasks \ {t} : found'[u] = found[u] /\ (u \in diverged' <=> u \in diverged)
    BY <1>8 DEF ReadFile, ReadFails, Typed
  <2>2. listed'
    BY <2>1 DEF FoundInv
  <2>3. found'[t] = disk[t] \/ t \in diverged'
    BY <1>8 DEF ReadFile, ReadFails, Typed
  <2>4. QED
    BY <2>1, <2>2, <2>3 DEF FoundInv, Loading, Typed
<1>9. CASE UNCHANGED vars
  BY <1>1, <1>9 DEF vars
<1>10. ASSUME NEW c \in Calls, CallStep(c) PROVE FoundInv'
  BY <1>2, <1>3, <1>4, <1>10, Zenon DEF CallStep
<1>11. ASSUME (\E f \in Fires : FireStep(f)) \/ AgentStep \/ Midnight PROVE FoundInv'
  BY <1>1, <1>11, FireFrame DEF fileState
<1>12. QED
  BY <1>5, <1>6, <1>7, <1>8, <1>9, <1>10, <1>11, InitSteps, Zenon DEF Next

----------------------------------------------------------------------------
(* WritesInv and FilesInv: jobs and their files.                           *)

\* c is in flight about a settled task on which no call overlapped or failed.
Solo(c) == InFlight(c) /\ target[c] \notin diverged \cup {Heartbeat} /\ Settled(target[c])

\* The task's temporary file and job are what c needs to leave job and file in agreement.
InOrder(c) == /\ step[c] \in {"placing", "renaming"} => tmp[target[c]] = patch[c]
              /\ step[c] \in {"writing", "renaming"} => jobs[target[c]] = patch[c]
              /\ step[c] = "unlinking" => jobs[target[c]] = None

\* c is alone with its task, on the live instance.
Alone(c) == /\ c \notin stale
            /\ \A b \in Calls \ {c} : InFlight(b) => target[b] # target[c]

\* The invariant, call by call.
LEMMA WritesIsSolo == WritesInv <=> \A c \in Calls : Solo(c) => Alone(c) /\ InOrder(c)
  BY DEF WritesInv, Solo, InOrder, Alone

\* Nothing is in flight when the process starts.
LEMMA WritesInit == Init => WritesInv
  BY DEF Init, WritesInv, InFlight

\* Nothing has been called when the process starts, and the jobs are the files.
LEMMA JobFilesInit == Init => FilesInv
  BY DEF Init, FilesInv

\* A task is settled as long as init is where it is.
LEMMA SettledFrame ==
  ASSUME UNCHANGED <<phase, listed, unread, found>>, NEW t PROVE Settled(t)' <=> Settled(t)
  BY DEF Settled, Loading

\* No task is settled in a new instance, or in one whose init threw.
LEMMA NotSettled ==
  ASSUME Reload \/ Restart \/ BootFails \/ LoadFails, NEW t PROVE ~Settled(t)'
  BY DEF Reload, Restart, BootFails, LoadFails, ProcessEnds, StartsToLoad, Settled, Loading

\* A call that begins is alone, or its task is recorded as diverged.
LEMMA BeginAlone ==
  ASSUME Typed, WritesInv, NEW c \in Calls, NEW t \in Tasks, Begin(c, t),
         UNCHANGED <<phase, listed, unread, found, tmp, stale>>,
         \A b \in Calls \ {c} : step'[b] = step[b] /\ patch'[b] = patch[b],
         \A u \in Tasks \ {t} : jobs'[u] = jobs[u],
         Solo(c)' => InOrder(c)'
  PROVE  WritesInv'
<1> USE DEF TypeOK
<1>1. /\ target'[c] = t /\ step[c] = "new" /\ c \notin stale
      /\ \A b \in Calls \ {c} : target'[b] = target[b]
  BY DEF Typed, Begin, Provenance
<1>2. diverged \subseteq diverged' /\ \A b \in Calls : InFlight(b) /\ target[b] = t => t \in diverged'
  BY DEF Begin
<1>3. \A b \in Calls \ {c} : InFlight(b)' <=> InFlight(b)
  BY DEF InFlight
<1>4. Solo(c)' => Alone(c)'
  BY <1>1, <1>2, <1>3 DEF Solo, Alone
<1>5. ASSUME NEW b \in Calls \ {c}, Solo(b)' PROVE Alone(b)' /\ InOrder(b)'
  <2>1. Solo(b) /\ target[b] # t /\ target'[b] = target[b]
    BY <1>1, <1>2, <1>3, <1>5, SettledFrame DEF Solo
  <2>2. Alone(b) /\ InOrder(b)
    BY <1>5, <2>1, WritesIsSolo
  <2>3. target[b] \in Tasks \ {t}
    BY <2>1 DEF Typed, Provenance, Solo, InFlight
  <2>4. Alone(b)'
    BY <1>1, <1>3, <2>1, <2>2 DEF Alone
  <2>5. InOrder(b)'
    BY <2>1, <2>2, <2>3 DEF InOrder
  <2>6. QED
    BY <2>4, <2>5
<1>6. \A b \in Calls : Solo(b)' => Alone(b)' /\ InOrder(b)'
  BY <1>4, <1>5
<1>7. QED
  BY <1>6 DEF WritesInv, Solo, Alone, InOrder

\* A call's own step on its task leaves the calls on other tasks alone.
LEMMA MoveAlone ==
  ASSUME Typed, WritesInv, NEW c \in Calls, InFlight(c),
         UNCHANGED <<phase, listed, unread, found, target>>,
         diverged \subseteq diverged', stale' \subseteq stale,
         \A b \in Calls \ {c} : step'[b] = step[b] /\ patch'[b] = patch[b],
         \A u \in Tasks \ {target[c]} : jobs'[u] = jobs[u] /\ tmp'[u] = tmp[u],
         Solo(c)' /\ InOrder(c) => InOrder(c)'
  PROVE  WritesInv'
<1>1. \A b \in Calls \ {c} : InFlight(b)' <=> InFlight(b)
  BY DEF InFlight
<1>2. \A b \in Calls : Solo(b)' => Solo(b)
  BY <1>1, SettledFrame DEF Solo
<1>3. ASSUME NEW b \in Calls, Solo(b)' PROVE Alone(b)' /\ InOrder(b)'
  <2>1. Solo(b) /\ Alone(b) /\ InOrder(b)
    BY <1>2, <1>3, WritesIsSolo
  <2>2. Alone(b)'
    BY <1>1, <2>1 DEF Alone
  <2>3. CASE b = c
    BY <1>3, <2>1, <2>2, <2>3
  <2>4. CASE b # c
    <3>1. target[b] \in Tasks \ {target[c]}
      BY <2>1, <2>4 DEF Alone, Typed, Provenance, Solo, InFlight
    <3>2. InOrder(b)'
      BY <2>1, <2>4, <3>1 DEF InOrder
    <3>3. QED
      BY <2>2, <3>2
  <2>5. QED
    BY <2>3, <2>4
<1>4. \A b \in Calls : Solo(b)' => Alone(b)' /\ InOrder(b)'
  BY <1>3
<1>5. QED
  BY <1>4 DEF WritesInv, Solo, Alone, InOrder

\* A step that touches nothing of jobs and files keeps WritesInv.
LEMMA WritesFrame ==
  ASSUME WritesInv, UNCHANGED fileState, \A c \in Calls : c \in stale' <=> c \in stale
  PROVE  WritesInv'
<1>1. \A c \in Calls : /\ Solo(c)' <=> Solo(c)
                       /\ Alone(c)' <=> Alone(c)
                       /\ InOrder(c)' <=> InOrder(c)
  BY SettledFrame DEF fileState, Solo, Alone, InOrder, InFlight
<1>2. \A c \in Calls : Solo(c)' => Alone(c)' /\ InOrder(c)'
  BY <1>1, WritesIsSolo
<1>3. QED
  BY <1>2 DEF WritesInv, Solo, Alone, InOrder

\* Each call carries its definition to the job and to the file, or diverges.
LEMMA WritesStep == Typed /\ WritesInv /\ [Next]_vars => WritesInv'
<1> SUFFICES ASSUME Typed, WritesInv, [Next]_vars PROVE WritesInv'
  OBVIOUS
<1> USE DEF TypeOK
<1>1. ASSUME NEW c \in Calls, NEW t \in Tasks, NEW valid \in BOOLEAN, Add(c, t, valid)
      PROVE  WritesInv'
  <2>1. /\ UNCHANGED <<jobs, phase, listed, unread, found, tmp, stale>> /\ Begin(c, t) /\ step'[c] = "adding"
        /\ \A b \in Calls \ {c} : step'[b] = step[b] /\ patch'[b] = patch[b]
    BY <1>1 DEF Add, Typed
  <2>2. InOrder(c)'
    BY <2>1 DEF InOrder
  <2>3. QED
    BY <2>1, <2>2, BeginAlone
<1>2. ASSUME NEW c \in Calls, NEW t \in Tasks, NEW enable \in {"keep", "on", "off"},
             NEW reschedule \in BOOLEAN, Update(c, t, enable, reschedule)
      PROVE  WritesInv'
  <2>1. /\ UNCHANGED <<phase, listed, unread, found, tmp, stale>> /\ Begin(c, t)
        /\ \A b \in Calls \ {c} : step'[b] = step[b] /\ patch'[b] = patch[b]
        /\ \A u \in Tasks \ {t} : jobs'[u] = jobs[u]
    BY <1>2 DEF Update, Typed
  <2>2. jobs'[t] = patch'[c] /\ step'[c] \in {"done", "writing"} /\ target'[c] = t
    BY <1>2 DEF Update, Begin, NextStep, Typed
  <2>3. InOrder(c)'
    BY <2>2 DEF InOrder
  <2>4. QED
    BY <2>1, <2>3, BeginAlone
<1>3. ASSUME NEW c \in Calls, NEW t \in Tasks, UpdateThrows(c, t) PROVE WritesInv'
  <2>1. /\ UNCHANGED <<jobs, phase, listed, unread, found, tmp, stale, patch>>
        /\ Begin(c, t) /\ step'[c] = "done"
        /\ \A b \in Calls \ {c} : step'[b] = step[b]
    BY <1>3 DEF UpdateThrows, Typed
  <2>2. InOrder(c)'
    BY <2>1 DEF InOrder
  <2>3. QED
    BY <2>1, <2>2, BeginAlone
<1>4. ASSUME NEW c \in Calls, NEW t \in Tasks, Remove(c, t) PROVE WritesInv'
  <2>1. /\ UNCHANGED <<phase, listed, unread, found, tmp, stale, patch>> /\ Begin(c, t)
        /\ \A b \in Calls \ {c} : step'[b] = step[b]
        /\ \A u \in Tasks \ {t} : jobs'[u] = jobs[u]
    BY <1>4 DEF Remove, Typed
  <2>2. jobs'[t] = None /\ step'[c] \in {"done", "unlinking"} /\ target'[c] = t
    BY <1>4 DEF Remove, Begin, NextStep, Typed
  <2>3. InOrder(c)'
    BY <2>2 DEF InOrder
  <2>4. QED
    BY <2>1, <2>3, BeginAlone
<1>5. ASSUME NEW c \in Calls, WriteTmp(c) PROVE WritesInv'
  <2>1. target[c] \in Tasks /\ InFlight(c)
    BY <1>5 DEF WriteTmp, Typed, Provenance, InFlight
  <2>2. /\ UNCHANGED <<jobs, phase, listed, unread, found, target, patch, stale, diverged>>
        /\ \A b \in Calls \ {c} : step'[b] = step[b]
        /\ \A u \in Tasks \ {target[c]} : tmp'[u] = tmp[u]
    BY <1>5 DEF WriteTmp, Typed
  <2>3. /\ tmp'[target[c]] = patch[c]
        /\ \/ step[c] = "adding" /\ step'[c] = "placing"
           \/ step[c] = "writing" /\ step'[c] = "renaming"
    BY <1>5, <2>1 DEF WriteTmp, Typed
  <2>4. InOrder(c) => InOrder(c)'
    BY <2>2, <2>3 DEF InOrder
  <2>5. QED
    BY <2>1, <2>2, <2>4, MoveAlone
<1>6. ASSUME NEW c \in Calls,
             Placed(c) \/ Renamed(c) \/ WriteFails(c) \/ Unlinked(c) \/ UnlinkFails(c)
      PROVE  WritesInv'
  <2>1. /\ UNCHANGED <<phase, listed, unread, found, target>> /\ InFlight(c)
        /\ Returns(c) /\ diverged \subseteq diverged'
    BY <1>6 DEF Placed, Rename, Renamed, WriteFails, Unlinked, UnlinkFails, InFlight
  <2>2. \A u \in Tasks \ {target[c]} : jobs'[u] = jobs[u] /\ tmp'[u] = tmp[u]
    BY <1>6 DEF Placed, Rename, Renamed, WriteFails, Unlinked, UnlinkFails, Typed
  <2>3. /\ step'[c] = "done" /\ stale' \subseteq stale
        /\ \A b \in Calls \ {c} : step'[b] = step[b] /\ patch'[b] = patch[b]
    BY <2>1 DEF Returns, Typed
  <2>4. InOrder(c)'
    BY <2>3 DEF InOrder
  <2>5. QED
    BY <2>1, <2>2, <2>3, <2>4, MoveAlone
<1>7. ASSUME \A c \in Calls : ~Solo(c)' PROVE WritesInv'
  BY <1>7 DEF WritesInv, Solo
<1>8. CASE Reload \/ Restart \/ BootFails \/ LoadFails
  BY <1>7, <1>8, NotSettled DEF Solo
<1>9. CASE Load \/ ReadDir \/ ReadDirFails
  <2>1. \A c \in Calls : InFlight(c)' => target'[c] \in Underway
    BY <1>9 DEF Load, ReadDir, ReadDirFails, InFlight, Underway
  <2>2. \A t \in Underway : t \in diverged' \/ t \in unread'
    BY <1>9 DEF Load, ReadDir, ReadDirFails
  <2>3. unread' = {} \/ phase' # "up"
    BY <1>9 DEF Load, AllRead, ReadDir, ReadDirFails, Loading
  <2>4. QED
    BY <1>7, <2>1, <2>2, <2>3 DEF Solo, Settled
<1>14. ASSUME NEW t \in Tasks, ReadFile(t) \/ ReadFails(t) PROVE WritesInv'
  <2>1. /\ UNCHANGED <<phase, listed, jobs, tmp, target, step, patch, stale>> /\ Loading
        /\ unread' = unread \ {t}
        /\ \A u \in Tasks \ {t} : found'[u] = found[u] /\ (u \in diverged' <=> u \in diverged)
    BY <1>14 DEF ReadFile, ReadFails, Typed
  <2>2. t \in Underway => t \in diverged'
    BY <1>14 DEF ReadFile, ReadFails
  <2>3. \A c \in Calls : InFlight(c) => target[c] \in Tasks /\ target[c] \in Underway
    BY DEF InFlight, Underway, Typed, Provenance
  <2>4. \A c \in Calls : Solo(c)' => Solo(c) /\ target[c] # t
    BY <2>1, <2>2, <2>3 DEF Solo, Settled, InFlight, Loading
  <2>5. \A c \in Calls : (Alone(c)' <=> Alone(c)) /\ (InOrder(c)' <=> InOrder(c))
    BY <2>1 DEF Alone, InOrder, InFlight
  <2>6. \A c \in Calls : Solo(c)' => Alone(c)' /\ InOrder(c)'
    BY <2>4, <2>5, WritesIsSolo
  <2>7. QED
    BY <2>6 DEF WritesInv, Solo, Alone, InOrder
<1>10. CASE UNCHANGED vars
  BY <1>10, WritesFrame DEF vars, fileState
<1>11. ASSUME NEW c \in Calls, CallStep(c) PROVE WritesInv'
  BY <1>1, <1>2, <1>3, <1>4, <1>5, <1>6, <1>11, Zenon DEF CallStep
<1>12. ASSUME (\E f \in Fires : FireStep(f)) \/ AgentStep \/ Midnight PROVE WritesInv'
  BY <1>12, FireFrame, WritesFrame
<1>13. QED
  BY <1>8, <1>9, <1>10, <1>11, <1>12, <1>14, InitSteps, Zenon DEF Next

\* No call is in flight about t.
Quiet(t) == \A c \in Calls : target[c] = t => ~InFlight(c)

\* A call that begins leaves the file of its task alone.
LEMMA BeginAgrees ==
  ASSUME Typed, FilesInv, NEW c \in Calls, NEW t \in Tasks, Begin(c, t),
         UNCHANGED <<phase, listed, unread, found, disk>>,
         \A b \in Calls \ {c} : step'[b] = step[b],
         \A u \in Tasks \ {t} : jobs'[u] = jobs[u],
         InFlight(c)' \/ jobs'[t] = jobs[t] \/ t = Heartbeat
  PROVE  FilesInv'
<1> USE DEF TypeOK
<1>1. /\ target'[c] = t /\ ~InFlight(c)
      /\ \A b \in Calls \ {c} : target'[b] = target[b]
  BY DEF Typed, Begin, InFlight
<1>2. diverged \subseteq diverged' /\ \A b \in Calls : InFlight(b) /\ target[b] = t => t \in diverged'
  BY DEF Begin
<1>3. \A b \in Calls \ {c} : InFlight(b)' <=> InFlight(b)
  BY DEF InFlight
<1>4. ASSUME NEW u \in Tasks, u \notin diverged' \cup {Heartbeat}, Settled(u)', Quiet(u)'
      PROVE  disk'[u] = jobs'[u]
  <2>1. Quiet(u) /\ Settled(u)
    BY <1>1, <1>2, <1>3, <1>4, SettledFrame DEF Quiet
  <2>2. disk[u] = jobs[u]
    BY <1>2, <1>4, <2>1 DEF FilesInv, Quiet
  <2>3. u = t => ~InFlight(c)'
    BY <1>1, <1>4 DEF Quiet
  <2>4. QED
    BY <1>4, <2>2, <2>3
<1>5. QED
  BY <1>4 DEF FilesInv, Quiet

\* A call's own step touches the job and the file of its own task only.
LEMMA MoveAgrees ==
  ASSUME FilesInv, NEW c \in Calls, UNCHANGED <<phase, listed, unread, found, target>>,
         diverged \subseteq diverged',
         \A b \in Calls \ {c} : step'[b] = step[b],
         \A u \in Tasks \ {target[c]} : jobs'[u] = jobs[u] /\ disk'[u] = disk[u],
         \/ InFlight(c)' \/ target[c] \in diverged' \cup {Heartbeat}
         \/ Settled(target[c]) => jobs'[target[c]] = disk'[target[c]]
  PROVE  FilesInv'
<1>1. \A b \in Calls \ {c} : InFlight(b)' <=> InFlight(b)
  BY DEF InFlight
<1>2. ASSUME NEW u \in Tasks, u \notin diverged' \cup {Heartbeat}, Settled(u)', Quiet(u)'
      PROVE  disk'[u] = jobs'[u]
  <2>0. Settled(u)
    BY <1>2, SettledFrame
  <2>1. CASE u = target[c]
    BY <1>2, <2>0, <2>1 DEF Quiet
  <2>2. CASE u # target[c]
    BY <1>1, <1>2, <2>0, <2>2 DEF Quiet, FilesInv
  <2>3. QED
    BY <2>1, <2>2
<1>3. QED
  BY <1>2 DEF FilesInv, Quiet

\* Between calls that did not overlap and did not fail, a file is what its job is.
LEMMA JobFilesStep == Typed /\ LoadingInv /\ FoundInv /\ WritesInv /\ FilesInv /\ [Next]_vars => FilesInv'
<1> SUFFICES ASSUME Typed, LoadingInv, FoundInv, WritesInv, FilesInv, [Next]_vars PROVE FilesInv'
  OBVIOUS
<1> USE DEF TypeOK
<1>1. ASSUME NEW c \in Calls, NEW t \in Tasks, NEW valid \in BOOLEAN, Add(c, t, valid)
      PROVE  FilesInv'
  <2>1. /\ UNCHANGED <<jobs, phase, listed, unread, found, disk>> /\ Begin(c, t)
        /\ \A b \in Calls \ {c} : step'[b] = step[b]
    BY <1>1 DEF Add, Typed
  <2>2. QED
    BY <2>1, BeginAgrees
<1>2. ASSUME NEW c \in Calls, NEW t \in Tasks, NEW enable \in {"keep", "on", "off"},
             NEW reschedule \in BOOLEAN, Update(c, t, enable, reschedule)
      PROVE  FilesInv'
  <2>1. /\ UNCHANGED <<phase, listed, unread, found, disk>> /\ Begin(c, t)
        /\ \A b \in Calls \ {c} : step'[b] = step[b]
        /\ \A u \in Tasks \ {t} : jobs'[u] = jobs[u]
    BY <1>2 DEF Update, Typed
  <2>2. InFlight(c)' \/ t = Heartbeat
    BY <1>2 DEF Update, NextStep, InFlight, Typed
  <2>3. QED
    BY <2>1, <2>2, BeginAgrees
<1>3. ASSUME NEW c \in Calls, NEW t \in Tasks, UpdateThrows(c, t) PROVE FilesInv'
  <2>1. /\ UNCHANGED <<jobs, phase, listed, unread, found, disk>> /\ Begin(c, t)
        /\ \A b \in Calls \ {c} : step'[b] = step[b]
    BY <1>3 DEF UpdateThrows, Typed
  <2>2. QED
    BY <2>1, BeginAgrees
<1>4. ASSUME NEW c \in Calls, NEW t \in Tasks, Remove(c, t) PROVE FilesInv'
  <2>1. /\ UNCHANGED <<phase, listed, unread, found, disk>> /\ Begin(c, t)
        /\ \A b \in Calls \ {c} : step'[b] = step[b]
        /\ \A u \in Tasks \ {t} : jobs'[u] = jobs[u]
    BY <1>4 DEF Remove, Typed
  <2>2. InFlight(c)' \/ t = Heartbeat
    BY <1>4 DEF Remove, NextStep, InFlight, Typed
  <2>3. QED
    BY <2>1, <2>2, BeginAgrees
<1>5. ASSUME NEW c \in Calls, WriteTmp(c) PROVE FilesInv'
  <2>1. /\ UNCHANGED <<jobs, disk, phase, listed, unread, found, target, diverged>>
        /\ \A b \in Calls \ {c} : step'[b] = step[b]
    BY <1>5 DEF WriteTmp, Typed
  <2>2. InFlight(c)'
    BY <1>5 DEF WriteTmp, InFlight, Typed
  <2>3. QED
    BY <2>1, <2>2, MoveAgrees
<1>6. ASSUME NEW c \in Calls, Settled(target[c]), InFlight(c), target[c] \notin diverged \cup {Heartbeat}
      PROVE  InOrder(c)
  BY <1>6, WritesIsSolo DEF Solo
<1>7. ASSUME NEW c \in Calls, Placed(c) PROVE FilesInv'
  <2>1. PICK t \in Tasks : t = target[c]
    BY <1>7 DEF Placed, Typed, Provenance
  <2>2. /\ step[c] = "placing" /\ UNCHANGED <<phase, listed, unread, found, target>> /\ diverged \subseteq diverged'
        /\ step' = [step EXCEPT ![c] = "done"] /\ disk' = [disk EXCEPT ![t] = tmp[t]]
    BY <1>7, <2>1 DEF Placed, Rename, Returns
  <2>3. \A u \in Tasks \ {t} : jobs'[u] = jobs[u] /\ disk'[u] = disk[u]
    BY <1>7, <2>1 DEF Placed, Rename, Typed
  <2>4. t \in diverged' \/ (jobs'[t] = patch[c] /\ diverged' = diverged)
    BY <1>7, <2>1 DEF Placed, Typed
  <2>5. disk'[t] = tmp[t]
    BY <2>2 DEF Typed
  <2>6. t \in diverged' \cup {Heartbeat} \/ (Settled(t) => jobs'[t] = disk'[t])
    BY <1>6, <2>1, <2>2, <2>4, <2>5 DEF InOrder, InFlight
  <2>7. \A b \in Calls \ {c} : step'[b] = step[b]
    BY <2>2 DEF Typed
  <2>8. QED
    BY <2>1, <2>2, <2>3, <2>6, <2>7, MoveAgrees
<1>8. ASSUME NEW c \in Calls, Renamed(c) PROVE FilesInv'
  <2>1. PICK t \in Tasks : t = target[c]
    BY <1>8 DEF Renamed, Typed, Provenance
  <2>2. /\ step[c] = "renaming" /\ UNCHANGED <<phase, listed, unread, found, target, jobs>> /\ diverged \subseteq diverged'
        /\ step' = [step EXCEPT ![c] = "done"] /\ disk' = [disk EXCEPT ![t] = tmp[t]]
    BY <1>8, <2>1 DEF Renamed, Rename, Returns
  <2>3. disk'[t] = tmp[t] /\ \A u \in Tasks \ {t} : disk'[u] = disk[u]
    BY <2>2 DEF Typed
  <2>4. t \in diverged' \cup {Heartbeat} \/ (Settled(t) => jobs'[t] = disk'[t])
    BY <1>6, <2>1, <2>2, <2>3 DEF InOrder, InFlight
  <2>5. \A b \in Calls \ {c} : step'[b] = step[b]
    BY <2>2 DEF Typed
  <2>6. QED
    BY <2>1, <2>2, <2>3, <2>4, <2>5, MoveAgrees
<1>9. ASSUME NEW c \in Calls, WriteFails(c) \/ UnlinkFails(c) PROVE FilesInv'
  <2>1. /\ UNCHANGED <<phase, listed, unread, found, target, jobs, disk>> /\ step' = [step EXCEPT ![c] = "done"]
        /\ diverged' = diverged \cup {target[c]}
    BY <1>9 DEF WriteFails, UnlinkFails, Returns
  <2>2. \A b \in Calls \ {c} : step'[b] = step[b]
    BY <2>1 DEF Typed
  <2>3. QED
    BY <2>1, <2>2, MoveAgrees
<1>10. ASSUME NEW c \in Calls, Unlinked(c) PROVE FilesInv'
  <2>1. PICK t \in Tasks : t = target[c]
    BY <1>10 DEF Unlinked, Typed, Provenance
  <2>2. /\ step[c] = "unlinking" /\ UNCHANGED <<phase, listed, unread, found, target, jobs>> /\ diverged \subseteq diverged'
        /\ step' = [step EXCEPT ![c] = "done"] /\ disk' = [disk EXCEPT ![t] = None]
    BY <1>10, <2>1 DEF Unlinked, Returns
  <2>3. disk'[t] = None /\ \A u \in Tasks \ {t} : disk'[u] = disk[u]
    BY <2>2 DEF Typed
  <2>4. t \in diverged' \cup {Heartbeat} \/ (Settled(t) => jobs'[t] = disk'[t])
    BY <1>6, <2>1, <2>2, <2>3 DEF InOrder, InFlight
  <2>5. \A b \in Calls \ {c} : step'[b] = step[b]
    BY <2>2 DEF Typed
  <2>6. QED
    BY <2>1, <2>2, <2>3, <2>4, <2>5, MoveAgrees
<1>11. CASE Reload \/ Restart \/ BootFails \/ LoadFails
  BY <1>11, NotSettled DEF FilesInv
<1>12. CASE Load
  <2>1. ASSUME NEW t \in Tasks, t \notin diverged' \cup {Heartbeat}, Quiet(t)'
        PROVE  disk'[t] = jobs'[t]
    <3>1. /\ t \notin diverged /\ Loading /\ listed /\ unread = {} /\ UNCHANGED disk
          /\ jobs'[t] = IF found[t] # None THEN found[t] ELSE jobs[t]
      BY <1>12, <2>1 DEF Load, AllRead, AddJobs, Found
    <3>2. Quiet(t)
      BY <1>12, <2>1 DEF Load, Quiet, InFlight
    <3>3. CASE found[t] # None
      BY <3>1, <3>3 DEF FoundInv
    <3>4. CASE found[t] = None
      BY <2>1, <3>1, <3>2, <3>4 DEF FilesInv, Settled, Quiet
    <3>5. QED
      BY <3>3, <3>4
  <2>2. QED
    BY <2>1 DEF FilesInv, Quiet
<1>13. CASE ReadDir \/ ReadDirFails
  <2>1. ASSUME NEW t \in Tasks, t \notin diverged', t \notin unread' PROVE disk'[t] = jobs'[t]
    <3>1. disk[t] = None
      BY <1>13, <2>1 DEF ReadDir, ReadDirFails, Present
    <3>2. Loading /\ UNCHANGED <<disk, jobs>>
      BY <1>13 DEF ReadDir, ReadDirFails
    <3>3. QED
      BY <3>1, <3>2 DEF LoadingInv
  <2>2. phase' # "up"
    BY <1>13 DEF ReadDir, ReadDirFails, Loading
  <2>3. QED
    BY <2>1, <2>2 DEF FilesInv, Settled
<1>19. ASSUME NEW t \in Tasks, ReadFile(t) \/ ReadFails(t) PROVE FilesInv'
  <2>1. /\ UNCHANGED <<phase, listed, jobs, disk, target, step>> /\ Loading
        /\ unread' = unread \ {t} /\ t \in unread
        /\ \A u \in Tasks \ {t} : found'[u] = found[u] /\ (u \in diverged' <=> u \in diverged)
    BY <1>19 DEF ReadFile, ReadFails, Typed
  <2>2. found'[t] = disk[t] \/ t \in diverged'
    BY <1>19 DEF ReadFile, ReadFails, Typed
  <2>3. jobs[t] # None => disk[t] # None
    BY <2>1 DEF LoadingInv
  <2>4. ASSUME NEW u \in Tasks, u \notin diverged' \cup {Heartbeat}, Settled(u)', Quiet(u)'
        PROVE  disk'[u] = jobs'[u]
    <3>1. CASE u = t
      <4>1. found'[t] = None
        BY <2>1, <2>4, <3>1 DEF Settled, Loading
      <4>2. QED
        BY <2>1, <2>2, <2>3, <2>4, <3>1, <4>1
    <3>2. CASE u # t
      <4>1. Settled(u) /\ Quiet(u)
        BY <2>1, <2>4, <3>2 DEF Settled, Quiet, InFlight, Loading
      <4>2. QED
        BY <2>1, <2>4, <3>2, <4>1 DEF FilesInv, Quiet
    <3>3. QED
      BY <3>1, <3>2
  <2>5. QED
    BY <2>4 DEF FilesInv, Quiet
<1>14. ASSUME UNCHANGED fileState PROVE FilesInv'
  BY <1>14 DEF fileState, FilesInv, InFlight, Settled, Loading
<1>15. CASE UNCHANGED vars
  BY <1>14, <1>15 DEF vars, fileState
<1>16. ASSUME NEW c \in Calls, CallStep(c) PROVE FilesInv'
  BY <1>1, <1>2, <1>3, <1>4, <1>5, <1>7, <1>8, <1>9, <1>10, <1>16, Zenon DEF CallStep
<1>17. ASSUME (\E f \in Fires : FireStep(f)) \/ AgentStep \/ Midnight PROVE FilesInv'
  BY <1>14, <1>17, FireFrame
<1>18. QED
  BY <1>11, <1>12, <1>13, <1>15, <1>16, <1>17, <1>19, InitSteps, Zenon DEF Next

----------------------------------------------------------------------------
(* The inductive invariant and the safety properties.                      *)

\* IInv is inductive, so it holds for any number of tasks, fires, calls, days, reloads
\* and restarts.
THEOREM Invariance == Spec => []IInv
<1>1. Init => IInv
  BY TypeInit, LockInit, OnceInit, TimerInit, OriginsInit, AddsInit, LoadingInit, FoundInit,
     WritesInit, JobFilesInit
  DEF IInv, Typed
<1>2. IInv /\ [Next]_vars => IInv'
  BY TypedStep, LockStep, OnceStep, TimerStep, OriginsStep, AddsStep, LoadingStep, FoundStep,
     WritesStep, JobFilesStep
  DEF IInv, Typed
<1>3. QED
  BY <1>1, <1>2, PTL DEF Spec

\* Every variable keeps its type; in particular every job has a schedule CronJob accepted.
THEOREM TypeCorrect == Spec => []TypeOK
<1>1. IInv => TypeOK
  BY DEF IInv
<1>2. QED
  BY Invariance, <1>1, PTL

\* A task in activeTasks has a fire or a run under way, or its completion is lost for good.
THEOREM LocksAreBacked == Spec => []LockBacked
<1>1. IInv => LockBacked
  BY DEF IInv, LockInv, LockBacked, Busy
<1>2. QED
  BY Invariance, <1>1, PTL

\* Until someone goes past it, activeTasks keeps a task from being executed twice at once,
\* through timeouts, updates, reschedules and midnight.
THEOREM OneRunAtATime == Spec => []OneRunUnlessForced
<1>1. IInv => OneRunUnlessForced
  BY DEF IInv
<1>2. QED
  BY Invariance, <1>1, PTL

\* The started timers are those of the enabled jobs, after any calls, reloads and restarts.
THEOREM TimersFollow == Spec => []TimerFollowsEnabled
<1>1. IInv => TimerFollowsEnabled
  BY DEF IInv, TimerInv, TimerFollowsEnabled
<1>2. QED
  BY Invariance, <1>1, PTL

\* A task whose calls neither failed nor overlapped another one or a load of the task
\* survives a restart as it is; for any number of calls, reloads and restarts.
THEOREM FilesAgree == Spec => []DiskAgrees
<1>1. IInv => DiskAgrees
  BY DEF IInv, FilesInv, DiskAgrees, Settled
<1>2. QED
  BY Invariance, <1>1, PTL


-----------------------------------------------------------------------------
(* Startup, the other part of the run: seeding, migrations and sync         *)

HIDE CronAssumption DEF jobVars, initVars, fileVars, callVars, fireVars, agentVars, lockHist, fileHist

(* A file with the user's edit is not about to be copied over, but by a     *)
(* process that the edit raced with.                                        *)
EditsInv ==
    /\ \A f \in mine \ raced :
         /\ data[f] = "edited"
         /\ \A p \in Procs : f \notin proc[p].file /\ ~(proc[p].at = "sync" /\ f \in proc[p].todo)
    /\ exposed /\ mcp # U!TornMcp => mcp.exposure = "user"

(* What migration n was to do has been done, or it met a torn file.         *)
Applied(n) ==
    IF n = 1 THEN skills = {}
    ELSE skipped \/ (packages # "adapter" /\ mcp.directTools = "none")

(* The migration that a process with this list of applied ones is at.       *)
Following(done) == IF 1 \in done THEN 2 ELSE 1

(* What a process believes to be applied is, and so is the part of a        *)
(* migration that it has behind it.                                         *)
Sound(r) ==
    /\ \A n \in r.done : Applied(n)
    /\ r.at \in {"skills", "packages", "mcp", "record"} => Following(r.done) \notin r.done
    /\ r.at = "skills" => Following(r.done) = 1
    /\ r.at \in {"packages", "mcp"} => Following(r.done) = 2
    /\ r.at = "mcp" => skipped \/ packages # "adapter"
    /\ r.at = "record" => Applied(Following(r.done))

MigrationsInv ==
    /\ ledger # U!Torn => \A n \in ledger : Applied(n)
    /\ \A p \in Procs : Sound(proc[p])

StartupInv == U!TypeOK /\ EditsInv /\ MigrationsInv

-----------------------------------------------------------------------------
LEMMA CurrentIs ==
  ASSUME NEW p \in Procs, U!TypeOK, Following(proc[p].done) \notin proc[p].done
  PROVE  U!Current(p) = Following(proc[p].done) /\ U!Pending(p) # {}
  <1>1. PICK d \in SUBSET {1, 2} : d = proc[p].done
    BY DEF U!TypeOK, U!Process
  <1>2. U!Pending(p) = {1, 2} \ d
    BY <1>1 DEF U!Pending
  <1>3. Following(d) \in {1, 2} \ d /\ \A n \in {1, 2} \ d : Following(d) <= n
    BY <1>1 DEF Following
  <1>4. \A m \in {1, 2} \ d : (\A n \in {1, 2} \ d : m <= n) => m = Following(d)
    BY <1>3
  <1>5. U!Min({1, 2} \ d) = Following(d)
    BY <1>3, <1>4 DEF U!Min
  <1> QED BY <1>1, <1>2, <1>3, <1>5 DEF U!Current

LEMMA PendingFollows ==
  ASSUME NEW p \in Procs, U!TypeOK, U!Pending(p) # {}
  PROVE  Following(proc[p].done) \notin proc[p].done
  BY DEF U!TypeOK, U!Process, U!Pending, Following

(* Records: what EXCEPT leaves of a process.                                *)
LEMMA ProcTyped == U!TypeOK => proc \in [Procs -> U!Process] /\ U!Off \in U!Process
  BY CommandsAssumption DEF U!TypeOK, U!StartupAssumption, U!Process, U!Off

(* What was applied stays applied in a step that leaves the files alone, or *)
(* only takes away.                                                         *)
LEMMA KeepsApplied ==
  ASSUME skills' \subseteq skills, skipped => skipped',
         skipped' \/ (packages # "adapter" => packages' # "adapter"),
         skipped' \/ (mcp.directTools = "none" => mcp'.directTools = "none")
  PROVE  /\ \A n : Applied(n) => Applied(n)'
         /\ \A r : Sound(r) => Sound(r)'
  BY DEF Applied, Sound

(* A step of process p that leaves it as r.                                 *)
LEMMA MoveCorrect ==
  ASSUME StartupInv, NEW p \in Procs, NEW r \in U!Process, proc' = [proc EXCEPT ![p] = r],
         \A f \in mine' \ raced' : /\ f \in mine \ raced /\ data'[f] = data[f]
                                   /\ f \notin r.file /\ ~(r.at = "sync" /\ f \in r.todo),
         exposed' /\ mcp' # U!TornMcp => exposed /\ mcp # U!TornMcp /\ mcp'.exposure = mcp.exposure,
         skills' \subseteq skills, skipped => skipped',
         skipped' \/ (packages # "adapter" => packages' # "adapter"),
         skipped' \/ (mcp.directTools = "none" => mcp'.directTools = "none"),
         Sound(r)',
         ledger' \in {ledger, U!Torn, r.done}
  PROVE  EditsInv' /\ MigrationsInv'
  <1>1. \A q \in Procs : proc'[q] = IF q = p THEN r ELSE proc[q]
    BY ProcTyped DEF StartupInv
  <1>2. EditsInv'
    <2>1. \A f \in mine' \ raced' : data'[f] = "edited"
      BY DEF StartupInv, EditsInv
    <2>2. \A f \in mine' \ raced', q \in Procs :
            f \notin proc'[q].file /\ ~(proc'[q].at = "sync" /\ f \in proc'[q].todo)
      BY <1>1 DEF StartupInv, EditsInv
    <2>3. (exposed /\ mcp # U!TornMcp => mcp.exposure = "user")'
      BY DEF StartupInv, EditsInv, U!TornMcp
    <2> QED BY <2>1, <2>2, <2>3 DEF EditsInv
  <1>3. (\A n : Applied(n) => Applied(n)') /\ (\A x : Sound(x) => Sound(x)')
    BY KeepsApplied
  <1>4. \A q \in Procs : Sound(proc[q])'
    <2> SUFFICES ASSUME NEW q \in Procs PROVE Sound(proc[q])'
      OBVIOUS
    <2>1. CASE q = p
      <3>1. proc'[q] = r
        BY <1>1, <2>1
      <3> QED BY <3>1 DEF Sound
    <2>2. CASE q # p
      <3>1. proc'[q] = proc[q] /\ Sound(proc[q])
        BY <1>1, <2>2 DEF StartupInv, MigrationsInv
      <3> QED BY <1>3, <3>1 DEF Sound
    <2> QED BY <2>1, <2>2
  <1>5. (ledger # U!Torn => \A n \in ledger : Applied(n))'
    <2>1. CASE ledger' = ledger
      BY <1>3, <2>1 DEF StartupInv, MigrationsInv, U!Torn
    <2>2. CASE ledger' = r.done
      BY <2>2 DEF Sound
    <2>3. CASE ledger' = U!Torn
      BY <2>3 DEF U!Torn
    <2> QED BY <2>1, <2>2, <2>3
  <1> QED BY <1>2, <1>4, <1>5 DEF MigrationsInv

-----------------------------------------------------------------------------
(* Each action of a process, with the record that it leaves.                *)

LEMMA StartCorrect ==
  ASSUME NEW p \in Procs, NEW cmd \in DOMAIN U!Commands, StartupInv, U!Start(p, cmd)
  PROVE  StartupInv'
  <1>1. U!Commands[cmd] \in {"seed", "migrate", "provider"}
    BY DEF U!Commands
  <1>2. PICK r \in U!Process : /\ proc' = [proc EXCEPT ![p] = r]
                               /\ r.file = {} /\ r.done = {} /\ r.at \in {"ledger", "seed"}
    <2> DEFINE q == [U!Off EXCEPT !.last = U!Commands[cmd], !.at = "ledger"]
               r == [U!Off EXCEPT !.last = U!Commands[cmd], !.at = "seed", !.todo = Templates]
    <2>1. q \in U!Process /\ q.file = {} /\ q.done = {} /\ q.at = "ledger"
      BY <1>1, ProcTyped DEF StartupInv, U!Process, U!Off
    <2>2. r \in U!Process /\ r.file = {} /\ r.done = {} /\ r.at = "seed"
      BY <1>1, ProcTyped DEF StartupInv, U!Process, U!Off
    <2>3. proc' = [proc EXCEPT ![p] = q] \/ proc' = [proc EXCEPT ![p] = r]
      BY DEF U!Start
    <2> QED BY <2>1, <2>2, <2>3
  <1>3. Sound(r)'
    BY <1>2 DEF Sound
  <1>4. EditsInv' /\ MigrationsInv'
    BY <1>2, <1>3, MoveCorrect DEF U!Start, U!dirVars, U!history
  <1>5. U!TypeOK'
    BY <1>2 DEF StartupInv, U!TypeOK, U!Start, U!dirVars, U!history
  <1> QED BY <1>4, <1>5 DEF StartupInv

LEMMA SyncCorrect ==
  ASSUME NEW p \in Procs, StartupInv, U!Sync(p)
  PROVE  StartupInv'
  <1>1. PICK chosen \in SUBSET Templates : /\ proc' = [proc EXCEPT ![p] =
                                                 [U!Off EXCEPT !.at = "sync", !.todo = chosen]]
                                           /\ mine' = mine \ chosen
    BY CommandsAssumption DEF U!Sync, U!Conflicts, U!StartupAssumption
  <1>2. PICK r \in U!Process : /\ proc' = [proc EXCEPT ![p] = r]
                               /\ r.file = {} /\ r.done = {} /\ r.at = "sync" /\ r.todo = chosen
    <2> DEFINE r == [U!Off EXCEPT !.at = "sync", !.todo = chosen]
    <2>1. r \in U!Process /\ r.file = {} /\ r.done = {} /\ r.at = "sync" /\ r.todo = chosen
      BY ProcTyped DEF StartupInv, U!Process, U!Off
    <2> QED BY <1>1, <2>1
  <1>3. Sound(r)'
    BY <1>2 DEF Sound
  <1>4. EditsInv' /\ MigrationsInv'
    BY <1>1, <1>2, <1>3, MoveCorrect DEF U!Sync, U!dirVars
  <1>5. U!TypeOK'
    BY <1>1, <1>2 DEF StartupInv, U!TypeOK, U!Sync, U!dirVars
  <1> QED BY <1>4, <1>5 DEF StartupInv

(* Going on: the process is where it is said to be, and has in hand what it *)
(* had, or nothing.                                                         *)
LEMMA GotoIs ==
  ASSUME NEW p \in Procs, StartupInv,
         NEW at \in {"ledger", "migrate", "skills", "packages", "mcp", "record", "provider"},
         U!Goto(p, at)
  PROVE  \E r \in U!Process : /\ proc' = [proc EXCEPT ![p] = r] /\ r.at = at
                              /\ r.file = proc[p].file /\ r.done = proc[p].done
  <1> DEFINE r == [proc[p] EXCEPT !.at = at]
  <1>1. proc[p] \in U!Process
    BY ProcTyped DEF StartupInv
  <1>2. r \in U!Process /\ r.at = at /\ r.file = proc[p].file /\ r.done = proc[p].done
    BY <1>1 DEF U!Process
  <1>3. proc' = [proc EXCEPT ![p] = r]
    BY DEF U!Goto
  <1> QED BY <1>2, <1>3

LEMMA ExitIs ==
  ASSUME NEW p \in Procs, StartupInv, U!Exit(p)
  PROVE  \E r \in U!Process : /\ proc' = [proc EXCEPT ![p] = r] /\ r.at = "off"
                              /\ r.file = {} /\ r.done = {}
  BY ProcTyped DEF StartupInv, U!Exit, U!Off

(* The file in hand, or to be overridden, is one without an edit.           *)
LEMMA InHand ==
  ASSUME NEW p \in Procs, StartupInv, NEW f \in mine \ raced
  PROVE  f \notin proc[p].file /\ ~(proc[p].at = "sync" /\ f \in proc[p].todo) /\ data[f] = "edited"
  BY DEF StartupInv, EditsInv

LEMMA SeedNextCorrect ==
  ASSUME NEW p \in Procs, StartupInv, U!SeedNext(p)
  PROVE  StartupInv'
  <1>0. proc[p] \in U!Process /\ Sound(proc[p]) /\ proc[p].at = "seed"
    BY ProcTyped DEF StartupInv, MigrationsInv, U!SeedNext
  <1>1. PICK r \in U!Process : /\ proc' = [proc EXCEPT ![p] = r]
                               /\ r.done = proc[p].done \/ r.done = {}
                               /\ r.at \in {"off", "ledger", "copy", "seed"}
                               /\ \A f \in r.file : data[f] = "none" \/ f \in proc[p].file
    <2>1. CASE proc[p].todo = {} /\ proc[p].last = "seed"
      BY <2>1, ExitIs DEF U!SeedNext
    <2>2. CASE proc[p].todo = {} /\ proc[p].last # "seed"
      BY <2>2, GotoIs DEF U!SeedNext
    <2>3. CASE proc[p].todo # {}
      <3>1. PICK f \in proc[p].todo :
              proc' = [proc EXCEPT ![p].todo = @ \ {f},
                                   ![p].file = IF data[f] = "none" THEN {f} ELSE {},
                                   ![p].at = IF data[f] = "none" THEN "copy" ELSE "seed"]
        BY <2>3 DEF U!SeedNext
      <3> DEFINE r == [proc[p] EXCEPT !.todo = @ \ {f},
                                      !.file = IF data[f] = "none" THEN {f} ELSE {},
                                      !.at = IF data[f] = "none" THEN "copy" ELSE "seed"]
      <3>2. proc' = [proc EXCEPT ![p] = r]
        BY <3>1, ProcTyped DEF StartupInv
      <3>3. r \in U!Process /\ r.done = proc[p].done /\ r.at \in {"copy", "seed"}
            /\ \A g \in r.file : data[g] = "none"
        BY <1>0 DEF U!Process
      <3> QED BY <3>2, <3>3
    <2> QED BY <2>1, <2>2, <2>3
  <1>2. Sound(r)'
    BY <1>0, <1>1, KeepsApplied DEF Sound, U!SeedNext, U!dirVars, U!history, Applied
  <1>3. \A f \in mine' \ raced' : f \in mine \ raced /\ data'[f] = data[f] /\ f \notin r.file
    BY <1>1, InHand DEF U!SeedNext, U!dirVars, U!history
  <1>4. EditsInv' /\ MigrationsInv'
    BY <1>1, <1>2, <1>3, MoveCorrect DEF U!SeedNext, U!dirVars, U!history
  <1>5. U!TypeOK'
    BY <1>1 DEF StartupInv, U!TypeOK, U!SeedNext, U!dirVars, U!history
  <1> QED BY <1>4, <1>5 DEF StartupInv

LEMMA CopyCorrect ==
  ASSUME NEW p \in Procs, StartupInv, U!Copy(p)
  PROVE  StartupInv'
  <1>0. proc[p] \in U!Process /\ Sound(proc[p])
    BY ProcTyped DEF StartupInv, MigrationsInv
  <1>1. PICK r \in U!Process : /\ proc' = [proc EXCEPT ![p] = r]
                               /\ r.done = proc[p].done /\ r.at = "seed" /\ r.file = {}
    <2> DEFINE r == [proc[p] EXCEPT !.at = "seed", !.file = {}]
    <2>1. r \in U!Process /\ r.done = proc[p].done /\ r.at = "seed" /\ r.file = {}
      BY <1>0 DEF U!Process
    <2>2. proc' = [proc EXCEPT ![p] = r]
      BY ProcTyped DEF StartupInv, U!Copy
    <2> QED BY <2>1, <2>2
  <1>2. Sound(r)'
    BY <1>0, <1>1 DEF Sound, U!Copy, U!history, Applied
  <1>3. \A f \in mine' \ raced' : f \in mine \ raced /\ data'[f] = data[f]
    BY InHand DEF StartupInv, U!TypeOK, U!Copy, U!history
  <1>4. EditsInv' /\ MigrationsInv'
    BY <1>1, <1>2, <1>3, MoveCorrect DEF U!Copy, U!history
  <1>5. U!TypeOK'
    BY <1>1 DEF StartupInv, U!TypeOK, U!Copy, U!history
  <1> QED BY <1>4, <1>5 DEF StartupInv

LEMMA OverrideCorrect ==
  ASSUME NEW p \in Procs, StartupInv, U!OverrideTemplates(p)
  PROVE  StartupInv'
  <1>0. proc[p] \in U!Process /\ Sound(proc[p]) /\ proc[p].at = "sync"
    BY ProcTyped DEF StartupInv, MigrationsInv, U!OverrideTemplates
  <1>f. PICK f \in proc[p].todo :
          /\ data' = [data EXCEPT ![f] = "bundled"]
          /\ IF proc[p].todo = {f} THEN U!Exit(p) ELSE proc' = [proc EXCEPT ![p].todo = @ \ {f}]
    BY DEF U!OverrideTemplates
  <1>1. PICK r \in U!Process : /\ proc' = [proc EXCEPT ![p] = r]
                               /\ r.done = proc[p].done \/ r.done = {}
                               /\ r.at \in {"off", "sync"}
                               /\ r.file \subseteq proc[p].file
                               /\ r.at = "sync" => r.todo \subseteq proc[p].todo
    <2>1. CASE proc[p].todo = {f}
      BY <1>f, <2>1, ExitIs
    <2>2. CASE proc[p].todo # {f}
      <3> DEFINE r == [proc[p] EXCEPT !.todo = @ \ {f}]
      <3>1. r \in U!Process /\ r.done = proc[p].done /\ r.at = "sync" /\ r.file = proc[p].file
            /\ r.todo \subseteq proc[p].todo
        BY <1>0 DEF U!Process
      <3>2. proc' = [proc EXCEPT ![p] = r]
        BY <1>f, <2>2, ProcTyped DEF StartupInv
      <3> QED BY <3>1, <3>2
    <2> QED BY <2>1, <2>2
  <1>2. Sound(r)'
    BY <1>0, <1>1 DEF Sound, U!OverrideTemplates, U!history, Applied
  <1>3. \A g \in mine' \ raced' : /\ g \in mine \ raced /\ data'[g] = data[g]
                                  /\ g \notin r.file /\ ~(r.at = "sync" /\ g \in r.todo)
    BY <1>0, <1>f, <1>1, InHand DEF StartupInv, U!TypeOK, U!OverrideTemplates, U!history
  <1>4. EditsInv' /\ MigrationsInv'
    BY <1>1, <1>2, <1>3, MoveCorrect DEF U!OverrideTemplates, U!history
  <1>5. U!TypeOK'
    BY <1>f, <1>1 DEF StartupInv, U!TypeOK, U!OverrideTemplates, U!history
  <1> QED BY <1>4, <1>5 DEF StartupInv

(* Steps of a migration: no template is touched.                            *)
LEMMA MigrateCorrect ==
  ASSUME NEW p \in Procs, NEW r \in U!Process, StartupInv, proc' = [proc EXCEPT ![p] = r],
         UNCHANGED <<data, mine, raced>>,
         r.file \subseteq proc[p].file, r.at # "sync",
         exposed' /\ mcp' # U!TornMcp => exposed /\ mcp # U!TornMcp /\ mcp'.exposure = mcp.exposure,
         skills' \subseteq skills, skipped => skipped',
         skipped' \/ (packages # "adapter" => packages' # "adapter"),
         skipped' \/ (mcp.directTools = "none" => mcp'.directTools = "none"),
         Sound(r)',
         ledger' \in {ledger, U!Torn, r.done}
  PROVE  EditsInv' /\ MigrationsInv'
  <1>1. \A f \in mine' \ raced' : /\ f \in mine \ raced /\ data'[f] = data[f]
                                  /\ f \notin r.file /\ ~(r.at = "sync" /\ f \in r.todo)
    BY InHand
  <1> QED BY <1>1, MoveCorrect

LEMMA ReadLedgerCorrect ==
  ASSUME NEW p \in Procs, StartupInv, U!ReadLedger(p)
  PROVE  StartupInv'
  <1> DEFINE done == IF ledger = U!Torn THEN {} ELSE ledger
             r == [proc[p] EXCEPT !.at = "migrate", !.done = done]
  <1>0. proc[p] \in U!Process /\ done \in SUBSET {1, 2} /\ \A n \in done : Applied(n)
    BY ProcTyped DEF StartupInv, MigrationsInv, U!TypeOK, U!Torn
  <1>1. r \in U!Process /\ r.done = done /\ r.at = "migrate" /\ r.file = proc[p].file
    BY <1>0 DEF U!Process
  <1>2. proc' = [proc EXCEPT ![p] = r]
    BY DEF U!ReadLedger
  <1> HIDE DEF done, r
  <1>3. PICK q \in U!Process : q = r
    BY <1>1
  <1>4. Sound(q)'
    BY <1>0, <1>1, <1>3 DEF Sound, Applied, U!ReadLedger, U!dirVars, U!history
  <1>5. EditsInv' /\ MigrationsInv'
    BY <1>1, <1>2, <1>3, <1>4, MigrateCorrect DEF U!ReadLedger, U!dirVars, U!history
  <1>6. U!TypeOK'
    BY <1>1, <1>2 DEF StartupInv, U!TypeOK, U!ReadLedger, U!dirVars, U!history
  <1> QED BY <1>5, <1>6 DEF StartupInv

LEMMA NextMigrationCorrect ==
  ASSUME NEW p \in Procs, StartupInv, U!NextMigration(p)
  PROVE  StartupInv'
  <1>0. proc[p] \in U!Process /\ Sound(proc[p])
    BY ProcTyped DEF StartupInv, MigrationsInv
  <1>1. PICK r \in U!Process : /\ proc' = [proc EXCEPT ![p] = r]
                               /\ r.file \subseteq proc[p].file
                               /\ \/ r.at \in {"provider", "off"} /\ r.done \in {{}, proc[p].done}
                                  \/ /\ r.done = proc[p].done /\ Following(r.done) \notin r.done
                                     /\ r.at = IF Following(r.done) = 1 THEN "skills" ELSE "packages"
    <2>1. CASE U!Pending(p) # {}
      <3>1. /\ Following(proc[p].done) \notin proc[p].done
            /\ U!Current(p) = Following(proc[p].done)
        BY <2>1, PendingFollows, CurrentIs DEF StartupInv
      <3>2. U!Goto(p, IF Following(proc[p].done) = 1 THEN "skills" ELSE "packages")
        BY <2>1, <3>1 DEF U!NextMigration
      <3> QED BY <3>1, <3>2, GotoIs
    <2>2. CASE U!Pending(p) = {}
      BY <2>2, GotoIs, ExitIs DEF U!NextMigration
    <2> QED BY <2>1, <2>2
  <1>2. Following(r.done) \in {1, 2}
    BY DEF Following
  <1>3. Sound(r)'
    BY <1>0, <1>1, <1>2 DEF Sound, Applied, U!NextMigration, U!dirVars, U!history
  <1>4. EditsInv' /\ MigrationsInv'
    BY <1>1, <1>3, MigrateCorrect DEF U!NextMigration, U!dirVars, U!history
  <1>5. U!TypeOK'
    BY <1>1 DEF StartupInv, U!TypeOK, U!NextMigration, U!dirVars, U!history
  <1> QED BY <1>4, <1>5 DEF StartupInv

LEMMA RemoveSkillsCorrect ==
  ASSUME NEW p \in Procs, StartupInv, U!RemoveSkills(p)
  PROVE  StartupInv'
  <1>0. proc[p] \in U!Process /\ Sound(proc[p]) /\ proc[p].at = "skills"
    BY ProcTyped DEF StartupInv, MigrationsInv, U!RemoveSkills
  <1>1. PICK r \in U!Process : /\ proc' = [proc EXCEPT ![p] = r]
                               /\ r.file = proc[p].file /\ r.done = proc[p].done
                               /\ r.at = "skills" \/ (r.at = "record" /\ skills = {})
    <2>1. CASE skills = {}
      BY <2>1, GotoIs DEF U!RemoveSkills
    <2>2. CASE skills # {}
      <3>1. proc' = [proc EXCEPT ![p] = proc[p]]
        BY <2>2, ProcTyped DEF StartupInv, U!RemoveSkills
      <3> QED BY <1>0, <3>1
    <2> QED BY <2>1, <2>2
  <1>2. skills' \subseteq skills
    BY DEF U!RemoveSkills
  <1>3. Sound(r)'
    BY <1>0, <1>1, <1>2 DEF Sound, Applied, U!RemoveSkills, U!history
  <1>4. EditsInv' /\ MigrationsInv'
    BY <1>1, <1>2, <1>3, MigrateCorrect DEF U!RemoveSkills, U!history
  <1>5. U!TypeOK'
    BY <1>1, <1>2 DEF StartupInv, U!TypeOK, U!RemoveSkills, U!history
  <1> QED BY <1>4, <1>5 DEF StartupInv

LEMMA RemoveAdapterCorrect ==
  ASSUME NEW p \in Procs, StartupInv, U!RemoveAdapter(p)
  PROVE  StartupInv'
  <1>0. proc[p] \in U!Process /\ Sound(proc[p]) /\ proc[p].at = "packages"
    BY ProcTyped DEF StartupInv, MigrationsInv, U!RemoveAdapter
  <1>1. PICK r \in U!Process : /\ proc' = [proc EXCEPT ![p] = r] /\ r.at = "mcp"
                               /\ r.file = proc[p].file /\ r.done = proc[p].done
    BY GotoIs DEF U!RemoveAdapter
  <1>2. /\ packages' \in {"clean", "torn"} /\ skipped' \in BOOLEAN /\ (skipped => skipped')
        /\ packages # "torn" => packages' = "clean"
    BY DEF StartupInv, U!TypeOK, U!RemoveAdapter
  <1>3. Sound(r)'
    BY <1>0, <1>1, <1>2 DEF Sound, Applied, U!RemoveAdapter
  <1>4. EditsInv' /\ MigrationsInv'
    BY <1>1, <1>2, <1>3, MigrateCorrect DEF U!RemoveAdapter
  <1>5. U!TypeOK'
    BY <1>1, <1>2 DEF StartupInv, U!TypeOK, U!RemoveAdapter
  <1> QED BY <1>4, <1>5 DEF StartupInv

LEMMA MigratedIs ==
  ASSUME U!TypeOK, mcp # U!TornMcp
  PROVE  /\ U!Migrated(mcp) \in [directTools: {"none"}, exposure: {"unset", "direct", "perTool", "user", "torn"}]
         /\ mcp.exposure = "user" => U!Migrated(mcp).exposure = "user"
  BY DEF U!TypeOK, U!Migrated

LEMMA MigrateServersCorrect ==
  ASSUME NEW p \in Procs, StartupInv, U!MigrateServers(p)
  PROVE  StartupInv'
  <1>0. proc[p] \in U!Process /\ Sound(proc[p]) /\ proc[p].at = "mcp"
    BY ProcTyped DEF StartupInv, MigrationsInv, U!MigrateServers
  <1>1. PICK r \in U!Process : /\ proc' = [proc EXCEPT ![p] = r] /\ r.at = "record"
                               /\ r.file = proc[p].file /\ r.done = proc[p].done
    BY GotoIs DEF U!MigrateServers
  <1>2. /\ mcp'.directTools = "none"
        /\ mcp' \in [directTools: {"none", "true", "some"},
                     exposure: {"unset", "direct", "perTool", "user", "torn"}]
        /\ mcp # U!TornMcp /\ mcp.exposure = "user" => mcp'.exposure = "user"
        /\ mcp = U!TornMcp => mcp' = U!TornMcp
    BY MigratedIs DEF StartupInv, U!TypeOK, U!MigrateServers, U!TornMcp
  <1>3. skipped' \in BOOLEAN /\ (skipped => skipped')
    BY DEF StartupInv, U!TypeOK, U!MigrateServers
  <1>4. Sound(r)'
    BY <1>0, <1>1, <1>2, <1>3 DEF Sound, Applied, U!MigrateServers
  <1>5. exposed' /\ mcp' # U!TornMcp => exposed /\ mcp # U!TornMcp /\ mcp'.exposure = mcp.exposure
    BY <1>2 DEF StartupInv, EditsInv, U!MigrateServers
  <1>6. EditsInv' /\ MigrationsInv'
    BY <1>1, <1>2, <1>3, <1>4, <1>5, MigrateCorrect DEF U!MigrateServers
  <1>7. U!TypeOK'
    BY <1>1, <1>2, <1>3 DEF StartupInv, U!TypeOK, U!MigrateServers
  <1> QED BY <1>6, <1>7 DEF StartupInv

LEMMA RecordCorrect ==
  ASSUME NEW p \in Procs, StartupInv, U!Record(p)
  PROVE  StartupInv'
  <1> DEFINE done == proc[p].done \cup {Following(proc[p].done)}
             r == [proc[p] EXCEPT !.done = done, !.at = "migrate"]
  <1>0. proc[p] \in U!Process /\ Sound(proc[p]) /\ proc[p].at = "record"
    BY ProcTyped DEF StartupInv, MigrationsInv, U!Record
  <1>1. U!Current(p) = Following(proc[p].done)
    BY <1>0, CurrentIs DEF StartupInv, Sound
  <1>2. done \in SUBSET {1, 2} /\ \A n \in done : Applied(n)
    BY <1>0 DEF U!Process, Sound, Following
  <1>3. r \in U!Process /\ r.done = done /\ r.at = "migrate" /\ r.file = proc[p].file
    BY <1>0, <1>2 DEF U!Process
  <1>4. proc' = [proc EXCEPT ![p] = r] /\ ledger' = done
    BY <1>1, ProcTyped DEF StartupInv, U!Record
  <1> HIDE DEF done, r
  <1>5. PICK q \in U!Process : q = r
    BY <1>3
  <1>6. Sound(q)'
    BY <1>2, <1>3, <1>5 DEF Sound, Applied, U!Record, U!history
  <1>7. EditsInv' /\ MigrationsInv'
    BY <1>3, <1>4, <1>5, <1>6, MigrateCorrect DEF U!Record, U!history
  <1>8. U!TypeOK'
    BY <1>2, <1>3, <1>4 DEF StartupInv, U!TypeOK, U!Record, U!history
  <1> QED BY <1>7, <1>8 DEF StartupInv

LEMMA MigrationFailsCorrect ==
  ASSUME NEW p \in Procs, StartupInv, U!MigrationFails(p)
  PROVE  StartupInv'
  <1>0. proc[p] \in U!Process /\ Sound(proc[p])
    BY ProcTyped DEF StartupInv, MigrationsInv
  <1>1. PICK r \in U!Process : /\ proc' = [proc EXCEPT ![p] = r] /\ r.at \in {"provider", "off"}
                               /\ r.file \subseteq proc[p].file /\ r.done \in {{}, proc[p].done}
    BY GotoIs, ExitIs DEF U!MigrationFails
  <1>2. Sound(r)'
    BY <1>0, <1>1 DEF Sound, Applied, U!MigrationFails, U!dirVars, U!history
  <1>3. EditsInv' /\ MigrationsInv'
    BY <1>1, <1>2, MigrateCorrect DEF U!MigrationFails, U!dirVars, U!history
  <1>4. U!TypeOK'
    BY <1>1 DEF StartupInv, U!TypeOK, U!MigrationFails, U!dirVars, U!history
  <1> QED BY <1>3, <1>4 DEF StartupInv

LEMMA ProviderCorrect ==
  ASSUME NEW p \in Procs, StartupInv, U!Provider(p)
  PROVE  StartupInv'
  <1>0. proc[p] \in U!Process /\ Sound(proc[p]) /\ proc[p].at = "provider"
    BY ProcTyped DEF StartupInv, MigrationsInv, U!Provider
  <1>1. PICK r \in U!Process : /\ proc' = [proc EXCEPT ![p] = r] /\ r.at \in {"provider", "off"}
                               /\ r.file \subseteq proc[p].file /\ r.done \in {{}, proc[p].done}
    <2>1. CASE U!Exit(p)
      BY <2>1, ExitIs
    <2>2. CASE proc[p].tries < MaxTries /\ proc' = [proc EXCEPT ![p].tries = @ + 1]
      <3> DEFINE r == [proc[p] EXCEPT !.tries = @ + 1]
      <3>1. proc[p].tries + 1 \in 0..MaxTries
        BY <1>0, <2>2, CommandsAssumption DEF U!Process, U!StartupAssumption
      <3>2. r \in U!Process /\ r.at = "provider" /\ r.file = proc[p].file /\ r.done = proc[p].done
        BY <1>0, <3>1 DEF U!Process
      <3>3. proc' = [proc EXCEPT ![p] = r]
        BY <2>2
      <3> QED BY <3>2, <3>3
    <2> QED BY <2>1, <2>2 DEF U!Provider
  <1>2. Sound(r)'
    BY <1>0, <1>1 DEF Sound, Applied, U!Provider, U!dirVars, U!history
  <1>3. EditsInv' /\ MigrationsInv'
    BY <1>1, <1>2, MigrateCorrect DEF U!Provider, U!dirVars, U!history
  <1>4. U!TypeOK'
    BY <1>1 DEF StartupInv, U!TypeOK, U!Provider, U!dirVars, U!history
  <1> QED BY <1>3, <1>4 DEF StartupInv

(* What a killed process leaves torn is no user's edit, but for one that    *)
(* raced; and the ledger or a file that is torn claims nothing.             *)
LEMMA KilledCorrect ==
  ASSUME NEW p \in Procs, StartupInv, U!Killed(p)
  PROVE  StartupInv'
  <1>0. proc[p] \in U!Process
    BY ProcTyped DEF StartupInv
  <1>1. PICK r \in U!Process : /\ proc' = [proc EXCEPT ![p] = r] /\ r.at = "off"
                               /\ r.file = {} /\ r.done = {}
    BY ExitIs DEF U!Killed
  <1>2. data' \in {data} \cup {[data EXCEPT ![f] = "torn"] :
                                 f \in IF proc[p].at = "sync" THEN proc[p].todo
                                       ELSE IF proc[p].at = "copy" THEN proc[p].file ELSE {}}
    BY DEF U!Killed
  <1>3. /\ ledger' \in {ledger, U!Torn} /\ UNCHANGED <<skills, mine, skipped, exposed>>
        /\ mcp' \in {mcp, U!TornMcp}
        /\ packages' = packages \/ (packages = "adapter" /\ packages' = "torn")
        /\ raced' = raced \cup {f \in mine : data'[f] = "torn"}
    BY DEF U!Killed
  <1>4. data' \in [Templates -> {"none", "torn", "old", "bundled", "edited"}]
    BY <1>0, <1>2 DEF StartupInv, U!TypeOK
  <1>5. \A f \in mine' \ raced' : /\ f \in mine \ raced /\ data'[f] = data[f]
                                  /\ f \notin r.file /\ ~(r.at = "sync" /\ f \in r.todo)
    BY <1>1, <1>2, <1>3 DEF StartupInv, U!TypeOK
  <1>6. Sound(r)'
    BY <1>1 DEF Sound
  <1>7. mcp'.directTools = mcp.directTools \/ mcp'.directTools = "none"
    BY <1>3 DEF U!TornMcp
  <1>8. exposed' /\ mcp' # U!TornMcp => exposed /\ mcp # U!TornMcp /\ mcp'.exposure = mcp.exposure
    BY <1>3
  <1>9. EditsInv' /\ MigrationsInv'
    BY <1>1, <1>3, <1>5, <1>6, <1>7, <1>8, MoveCorrect
  <1>10. U!TypeOK'
    BY <1>1, <1>3, <1>4 DEF StartupInv, U!TypeOK, U!TornMcp
  <1> QED BY <1>9, <1>10 DEF StartupInv

LEMMA EditTemplateCorrect ==
  ASSUME NEW f \in Templates, StartupInv, U!EditTemplate(f)
  PROVE  StartupInv'
  <1>1. /\ data' = [data EXCEPT ![f] = "edited"] /\ mine' = mine \cup {f}
        /\ UNCHANGED <<skills, packages, mcp, ledger, proc, skipped, exposed>>
        /\ raced' \in {raced \cup {f}, raced \ {f}}
    BY DEF U!EditTemplate
  <1>2. \A g \in mine' \ raced' : /\ data'[g] = "edited"
                                  /\ g # f => g \in mine \ raced
    BY <1>1 DEF StartupInv, U!TypeOK, EditsInv
  <1>3. f \notin raced' => \A p \in Procs : ~(f \in proc[p].file
                                               \/ (proc[p].at = "sync" /\ f \in proc[p].todo))
    BY DEF U!EditTemplate
  <1>4. \A g \in mine' \ raced', p \in Procs :
          g \notin proc[p].file /\ ~(proc[p].at = "sync" /\ g \in proc[p].todo)
    BY <1>2, <1>3 DEF StartupInv, EditsInv
  <1>5. EditsInv'
    BY <1>1, <1>2, <1>4 DEF StartupInv, EditsInv, U!TornMcp
  <1>6. MigrationsInv'
    BY <1>1 DEF StartupInv, MigrationsInv, Sound, Applied, U!Torn
  <1>7. U!TypeOK'
    BY <1>1 DEF StartupInv, U!TypeOK
  <1> QED BY <1>5, <1>6, <1>7 DEF StartupInv

LEMMA EditMcpCorrect ==
  ASSUME StartupInv, U!EditMcp
  PROVE  StartupInv'
  <1>1. /\ UNCHANGED <<data, skills, packages, ledger, proc, mine, raced>>
        /\ skipped' = (skipped \/ mcp = U!TornMcp)
    BY DEF U!EditMcp
  <1>2. /\ mcp' \in [directTools: {"none", "true", "some"},
                     exposure: {"unset", "direct", "perTool", "user", "torn"}]
        /\ exposed' \in BOOLEAN
        /\ exposed' /\ mcp' # U!TornMcp => mcp'.exposure = "user"
        /\ mcp # U!TornMcp => mcp'.directTools \in {mcp.directTools, "none"}
    <2>1. CASE mcp # U!TornMcp /\ mcp' = [mcp EXCEPT !.exposure = "user"] /\ exposed' = TRUE
      BY <2>1 DEF StartupInv, U!TypeOK
    <2>2. CASE /\ mcp = U!TornMcp /\ exposed' = FALSE
               /\ mcp' \in [directTools: {"true", "some", "none"}, exposure: {"unset"}]
      BY <2>2
    <2>3. CASE ~exposed /\ mcp' = U!TornMcp /\ UNCHANGED exposed
      BY <2>3 DEF StartupInv, U!TypeOK, U!TornMcp
    <2> QED BY <2>1, <2>2, <2>3 DEF U!EditMcp
  <1>3. EditsInv'
    BY <1>1, <1>2 DEF StartupInv, EditsInv, U!TornMcp
  <1>4. (\A n : Applied(n) => Applied(n)') /\ (\A x : Sound(x) => Sound(x)')
    BY <1>1, <1>2, KeepsApplied
  <1>5. MigrationsInv'
    <2>1. (ledger # U!Torn => \A n \in ledger : Applied(n))'
      BY <1>1, <1>4 DEF StartupInv, MigrationsInv, U!Torn
    <2>2. ASSUME NEW p \in Procs PROVE Sound(proc[p])'
      <3>1. proc'[p] = proc[p] /\ Sound(proc[p])
        BY <1>1 DEF StartupInv, MigrationsInv
      <3> QED BY <1>4, <3>1 DEF Sound
    <2> QED BY <2>1, <2>2 DEF MigrationsInv
  <1>6. U!TypeOK'
    BY <1>1, <1>2 DEF StartupInv, U!TypeOK
  <1> QED BY <1>3, <1>5, <1>6 DEF StartupInv

LEMMA FilesInit == U!Init => StartupInv
  <1> SUFFICES ASSUME U!Init PROVE StartupInv
    OBVIOUS
  <1>1. proc = [p \in Procs |-> U!Off] /\ U!Off \in U!Process
    BY CommandsAssumption DEF U!Init, U!StartupAssumption, U!Process, U!Off
  <1>2. U!TypeOK
    <2>1. mcp \in [directTools: {"none", "true", "some"},
                  exposure: {"unset", "direct", "perTool", "user", "torn"}]
      BY DEF U!Init
    <2>2. data \in [Templates -> {"none", "torn", "old", "bundled", "edited"}]
      BY DEF U!Init
    <2>3. /\ skills \subseteq {1, 2} /\ packages \in {"adapter", "clean", "torn"} /\ ledger = {}
          /\ skipped = FALSE /\ exposed = FALSE /\ mine = {} /\ raced = {}
      BY DEF U!Init
    <2> QED BY <1>1, <2>1, <2>2, <2>3 DEF U!TypeOK
  <1>3. EditsInv
    BY DEF U!Init, EditsInv
  <1>4. MigrationsInv
    <2>1. Sound(U!Off)
      BY DEF Sound, U!Off
    <2>2. \A p \in Procs : Sound(proc[p])
      <3> SUFFICES ASSUME NEW p \in Procs PROVE Sound(proc[p])
        OBVIOUS
      <3>1. proc[p] = U!Off
        BY <1>1
      <3> QED BY <2>1, <3>1 DEF Sound, Applied
    <2>3. ledger = {}
      BY DEF U!Init
    <2> QED BY <2>2, <2>3 DEF MigrationsInv
  <1> QED BY <1>2, <1>3, <1>4 DEF StartupInv

LEMMA FilesStep == StartupInv /\ [AllNext]_allVars => StartupInv'
  <1> SUFFICES ASSUME StartupInv, [AllNext]_allVars PROVE StartupInv'
    OBVIOUS
  <1>1. CASE UNCHANGED dirVars
    BY <1>1 DEF dirVars, StartupInv, U!TypeOK, EditsInv, MigrationsInv, Sound, Applied, U!Torn, U!TornMcp
  <1>2. CASE U!Next
    <2>1. CASE \E p \in Procs : \E cmd \in DOMAIN U!Commands : U!Start(p, cmd)
      BY <2>1, StartCorrect
    <2>2. ASSUME NEW p \in Procs,
                 \/ U!Sync(p) \/ U!SeedNext(p) \/ U!Copy(p) \/ U!OverrideTemplates(p)
                 \/ U!ReadLedger(p) \/ U!NextMigration(p) \/ U!RemoveSkills(p) \/ U!RemoveAdapter(p)
                 \/ U!MigrateServers(p) \/ U!Record(p) \/ U!MigrationFails(p) \/ U!Provider(p)
                 \/ U!Killed(p)
          PROVE  StartupInv'
      BY <2>2, SyncCorrect, SeedNextCorrect, CopyCorrect, OverrideCorrect, ReadLedgerCorrect,
         NextMigrationCorrect, RemoveSkillsCorrect, RemoveAdapterCorrect, MigrateServersCorrect,
         RecordCorrect, MigrationFailsCorrect, ProviderCorrect, KilledCorrect
    <2>3. CASE \E f \in Templates : U!EditTemplate(f)
      BY <2>3, EditTemplateCorrect
    <2>4. CASE U!EditMcp
      BY <2>4, EditMcpCorrect
    <2> QED BY <1>2, <2>1, <2>2, <2>3, <2>4 DEF U!Next
  <1> QED BY <1>1, <1>2 DEF AllNext, CronStep, StartupStep, allVars

(* What the user wrote in a template or in mcp.json stays until it is asked *)
(* to be replaced, and a migration that the ledger records was applied:     *)
(* whatever processes seed, migrate and sync at once, or are killed         *)
(* (lib/templates.ts, lib/migrate.ts).                                      *)
THEOREM FilesAreKept == AllSpec => []FilesKept
  <1>1. AllInit => StartupInv
    BY FilesInit DEF AllInit
  <1>2. StartupInv => FilesKept
    <2> SUFFICES ASSUME StartupInv PROVE U!TypeOK /\ U!EditsStay /\ U!RecordedIsApplied
      BY DEF FilesKept
    <2>1. U!EditsStay
      BY DEF StartupInv, EditsInv, U!EditsStay
    <2>2. U!RecordedIsApplied
      BY DEF StartupInv, MigrationsInv, Applied, U!RecordedIsApplied
    <2> QED BY <2>1, <2>2 DEF StartupInv
  <1> QED BY <1>1, <1>2, FilesStep, PTL DEF AllSpec
=============================================================================
