-------------------------------- MODULE Cron --------------------------------
(***************************************************************************)
(* The cron service (services/cron/index.ts): the jobs and their timers,   *)
(* the lock that keeps a task from running twice (activeTasks), and the    *)
(* task files the jobs are loaded from, through in-process reloads and     *)
(* process restarts.  The agent is external: a session key is a task and a *)
(* day, a prompt of an idle session starts a run, and the end of a run     *)
(* emits agent.onCompleted.  What a finished task sends to its notify      *)
(* targets is an input of Conversation (CrossSend).                        *)
(*                                                                         *)
(* As in Conversation a step runs from one I/O completion to the next wait *)
(* for I/O.                                                                *)
(***************************************************************************)
EXTENDS Naturals

CONSTANTS
  Tasks,        \* task ids, those that cron.add will generate included
  Preset,       \* the tasks with a file when the process first starts
  Heartbeat,    \* the id "heartbeat": checked by a hook before it fires, never written
  Delegates,    \* the tasks whose runs start subagents
  Fires,        \* firings and manual runs, each used once
  Calls,        \* cron.add, cron.update and cron.remove calls, each used once
  Days,         \* the session keys of a task end in a day: 1 .. Days
  MaxLoads,     \* bound on reloads and restarts
  None          \* no definition, no fire, no call

\* A task definition as far as it matters here: which call wrote it, `enabled`, and
\* whether CronJob accepts its schedule (no schema checks it).
Def == [rev : Calls \cup {None}, enabled : BOOLEAN, valid : BOOLEAN]

ASSUME CronAssumption == /\ Preset \subseteq Tasks
                         /\ Delegates \subseteq Tasks
                         /\ None \notin Calls \cup Fires \cup Tasks \cup Def
                         /\ Calls \cap Fires = {}
                         /\ Days \in Nat \ {0}
                         /\ MaxLoads \in Nat

VARIABLES
  \* the live CronService instance
  jobs,         \* Tasks -> this.jobs: the definition of the task, or None
  ticking,      \* the tasks whose CronJob is started
  strays,       \* the tasks with a started CronJob that is no longer in the map
  activeTasks,  \* this.activeTasks
  phase,        \* "loading", "booting", "up" (init returned), "failed" (init threw), "down" (boot gave up)
  zombies,      \* the tasks whose CronJob a replaced instance started after its dispose
  listed,       \* init: the directory has been read
  unread,       \* init: the tasks it listed whose file has yet to be read
  found,        \* init: Tasks -> what the file held when it was read, or None
  \* the cron directory
  disk,         \* Tasks -> <id>.md
  tmp,          \* Tasks -> <id>.md.tmp
  \* add, update and remove calls
  target,       \* Calls -> the task it is about
  step,         \* Calls -> how far it got, see CallSteps
  patch,        \* Calls -> the definition it writes
  stale,        \* the calls and hooks under way that belong to a replaced instance
  \* fires
  task,         \* Fires -> the task it executes
  state,        \* Fires -> how far it got ("off": never prompted, or cut off by a restart)
  key,          \* Fires -> the day of its session key
  \* the agent
  day,
  run,          \* Tasks -> Days -> the fire whose prompt drives the session's run
  agentActive,  \* the session keys in AgentService.activeRuns
  loads,        \* reloads and restarts so far (bound)
  \* history
  forced,       \* the busy tasks whose lock was bypassed or given up before its time
  stuck,        \* the locked tasks whose completion will not be heard
  botched,      \* the tasks whose update stopped the timer and then threw
  diverged      \* the tasks with a call that failed, or that overlapped another one or the
                \* load of the task, since their file was loaded

jobVars   == <<jobs, ticking, strays, phase, zombies>>
initVars  == <<listed, unread, found>>
fileVars  == <<disk, tmp>>
callVars  == <<target, step, patch>>
fireVars  == <<task, state, key>>
agentVars == <<run, agentActive>>
lockHist  == <<forced, stuck>>
fileHist  == <<botched, diverged>>
vars == <<jobVars, initVars, activeTasks, fileVars, callVars, stale, fireVars, agentVars,
          day, loads, lockHist, fileHist>>

DayRange   == 1 .. Days
FireStates == {"new", "hook", "calling", "prompted", "done", "off"}
CallSteps  == {"new", "adding", "placing", "writing", "renaming", "unlinking", "done"}

\* Every job has a schedule that CronJob accepted.
TypeOK == /\ jobs \in [Tasks -> {d \in Def : d.valid} \cup {None}]
          /\ ticking \subseteq Tasks
          /\ strays \subseteq Tasks
          /\ activeTasks \subseteq Tasks
          /\ phase \in {"loading", "booting", "up", "failed", "down"}
          /\ zombies \subseteq Tasks
          /\ listed \in BOOLEAN
          /\ unread \subseteq Tasks
          /\ found \in [Tasks -> Def \cup {None}]
          /\ disk \in [Tasks -> Def \cup {None}]
          /\ tmp \in [Tasks -> Def \cup {None}]
          /\ target \in [Calls -> Tasks \cup {None}]
          /\ step \in [Calls -> CallSteps]
          /\ patch \in [Calls -> Def \cup {None}]
          /\ stale \subseteq Calls \cup Fires
          /\ task \in [Fires -> Tasks \cup {None}]
          /\ state \in [Fires -> FireStates]
          /\ key \in [Fires -> DayRange]
          /\ day \in DayRange
          /\ run \in [Tasks -> [DayRange -> Fires \cup {None}]]
          /\ agentActive \subseteq Tasks \X DayRange
          /\ loads \in 0 .. MaxLoads
          /\ forced \subseteq Tasks
          /\ stuck \subseteq Tasks
          /\ botched \subseteq Tasks
          /\ diverged \subseteq Tasks

NoTasks == [t \in Tasks |-> None]
Seeded == [rev |-> None, enabled |-> TRUE, valid |-> TRUE]

Init == /\ jobs = [t \in Tasks |-> IF t \in Preset THEN Seeded ELSE None]
        /\ ticking = Preset
        /\ strays = {}
        /\ activeTasks = {}
        /\ phase = "up"
        /\ zombies = {}
        /\ listed = FALSE /\ unread = {} /\ found = NoTasks
        /\ disk = jobs
        /\ tmp = NoTasks
        /\ target = [c \in Calls |-> None]
        /\ step = [c \in Calls |-> "new"]
        /\ patch = [c \in Calls |-> None]
        /\ stale = {}
        /\ task = [f \in Fires |-> None]
        /\ state = [f \in Fires |-> "new"]
        /\ key = [f \in Fires |-> 1]
        /\ day = 1
        /\ run = [t \in Tasks |-> [d \in DayRange |-> None]]
        /\ agentActive = {}
        /\ loads = 0
        /\ forced = {}
        /\ stuck = {}
        /\ botched = {}
        /\ diverged = {}

----------------------------------------------------------------------------
(* Firing a task.                                                          *)

Running(t) == \E d \in DayRange : run[t][d] # None

\* A fire of t is about to execute, or a run of t is in progress.
Busy(t) == \/ \E f \in Fires : task[f] = t /\ state[f] \in {"hook", "calling"}
           \/ Running(t)

\* executeTask: the session key gets today's date and agent.execute is called.
Execute(f, t) == /\ task' = [task EXCEPT ![f] = t]
                 /\ state' = [state EXCEPT ![f] = "calling"]
                 /\ key' = [key EXCEPT ![f] = day]

\* The heartbeat's beforeFireHook is registered by an init that gets that far.
Hooked(t) == t = Heartbeat /\ phase = "up"

\* fire(t) of a timer, the task being enabled, unlocked and within its active hours.
Tick(f, t) ==
  /\ state[f] = "new"
  /\ t \in (ticking \cup strays) \ activeTasks
  /\ jobs[t] # None /\ jobs[t].enabled
  /\ ~Hooked(t)
  /\ activeTasks' = activeTasks \cup {t}
  /\ Execute(f, t)
  /\ UNCHANGED <<jobVars, initVars, fileVars, callVars, stale, agentVars, day, loads, lockHist, fileHist>>

\* fire("heartbeat"): the hook finds no active run and waits for HEARTBEAT.md.
TickHooked(f, t) ==
  /\ state[f] = "new"
  /\ t \in (ticking \cup strays) \ activeTasks
  /\ jobs[t] # None /\ jobs[t].enabled
  /\ Hooked(t) /\ agentActive = {}
  /\ task' = [task EXCEPT ![f] = t]
  /\ state' = [state EXCEPT ![f] = "hook"]
  /\ UNCHANGED <<jobVars, initVars, activeTasks, fileVars, callVars, stale, key, agentVars, day, loads,
                 lockHist, fileHist>>

\* The hook says yes; the lock of a replaced instance protects nothing.
HookPasses(f) ==
  /\ state[f] = "hook"
  /\ Execute(f, task[f])
  /\ activeTasks' = IF f \in stale THEN activeTasks ELSE activeTasks \cup {task[f]}
  /\ forced' = IF f \in stale \/ task[f] \in activeTasks THEN forced \cup {task[f]} ELSE forced
  /\ stale' = stale \ {f}
  /\ UNCHANGED <<jobVars, initVars, fileVars, callVars, agentVars, day, loads, stuck, fileHist>>

HookRefuses(f) ==
  /\ state[f] = "hook"
  /\ state' = [state EXCEPT ![f] = "off"]
  /\ stale' = stale \ {f}
  /\ UNCHANGED <<jobVars, initVars, activeTasks, fileVars, callVars, task, key, agentVars,
                 day, loads, stuck, fileHist>>
  /\ forced' = {t \in forced : Busy(t)'}

\* cron.run: executes the task whatever the lock says, and does not take it.
RunNow(f, t) ==
  /\ state[f] = "new"
  /\ jobs[t] # None
  /\ Execute(f, t)
  /\ forced' = forced \cup {t}
  /\ UNCHANGED <<jobVars, initVars, activeTasks, fileVars, callVars, stale, agentVars, day, loads, stuck, fileHist>>

\* A timer that a replaced instance started fires once: that instance no longer hears
\* agent.onCompleted and keeps its own lock for good.
ZombieTick(f, t) ==
  /\ state[f] = "new"
  /\ t \in zombies
  /\ zombies' = zombies \ {t}
  /\ Execute(f, t)
  /\ forced' = forced \cup {t}
  /\ UNCHANGED <<jobs, ticking, strays, phase, initVars, activeTasks, fileVars, callVars, stale, agentVars, day, loads,
                 stuck, fileHist>>

----------------------------------------------------------------------------
(* agent.execute for a fire, and the completions that release the lock.    *)

\* Fault: the date is not stripped from the session id, so nothing is ever unlocked.
OnAgentCompletedWithDate(t) ==
  UNCHANGED <<activeTasks, stuck>>

\* onAgentCompleted for a session key of t, heard once init has subscribed to it.
OnAgentCompleted(t) ==
  IF phase = "up"
  THEN /\ activeTasks' = activeTasks \ {t}
       /\ stuck' = stuck \ {t}
  ELSE /\ stuck' = stuck \cup ({t} \cap activeTasks)
       /\ UNCHANGED activeTasks

\* The session is prompted: an idle one starts a run, a streaming one is steered.
Prompt(f) ==
  LET t == task[f] IN
  /\ state[f] = "calling"
  /\ state' = [state EXCEPT ![f] = "prompted"]
  /\ run' = IF run[t][key[f]] = None THEN [run EXCEPT ![t][key[f]] = f] ELSE run
  /\ agentActive' = agentActive \cup {<<t, key[f]>>}
  /\ UNCHANGED <<jobVars, initVars, activeTasks, fileVars, callVars, stale, task, key, day, loads,
                 lockHist, fileHist>>

\* execute rejects before a run starts: no completion will follow, the lock stays.
Rejects(f) ==
  /\ state[f] = "calling"
  /\ state' = [state EXCEPT ![f] = "off"]
  /\ stuck' = stuck \cup ({task[f]} \cap activeTasks)
  /\ UNCHANGED <<jobVars, initVars, activeTasks, fileVars, callVars, stale, task, key, agentVars,
                 day, loads, fileHist>>
  /\ forced' = {t \in forced : Busy(t)'}

\* Fault: the fire gives its lock back when execute rejects, though the run goes on.
TimesOutUnlocking(f) ==
  /\ state[f] = "prompted"
  /\ state' = [state EXCEPT ![f] = "done"]
  /\ agentActive' = agentActive \ {<<task[f], key[f]>>}
  /\ activeTasks' = activeTasks \ {task[f]}
  /\ UNCHANGED <<jobVars, initVars, fileVars, callVars, stale, task, key, run, day, loads, lockHist, fileHist>>

\* execute times out; the run goes on.
TimesOut(f) ==
  /\ state[f] = "prompted"
  /\ state' = [state EXCEPT ![f] = "done"]
  /\ agentActive' = agentActive \ {<<task[f], key[f]>>}
  /\ UNCHANGED <<jobVars, initVars, activeTasks, fileVars, callVars, stale, task, key, run, day, loads,
                 lockHist, fileHist>>

\* execute settles, and what there is to say goes to the notify targets.
Settles(f) ==
  /\ state[f] = "prompted"
  /\ run[task[f]][key[f]] # f
  /\ state' = [state EXCEPT ![f] = "done"]
  /\ agentActive' = agentActive \ {<<task[f], key[f]>>}
  /\ UNCHANGED <<jobVars, initVars, activeTasks, fileVars, callVars, stale, task, key, run, day, loads,
                 lockHist, fileHist>>

\* agent_end of the session of t and d.
RunEnds(t, d) ==
  /\ run[t][d] # None
  /\ run' = [run EXCEPT ![t][d] = None]
  /\ OnAgentCompleted(t)
  /\ UNCHANGED <<jobVars, initVars, fileVars, callVars, stale, fireVars, agentActive, day, loads, fileHist>>
  /\ forced' = {u \in forced : Busy(u)'}

\* agent_end of a subagent: its session key parses to its parent's task.
SubagentEnds(t, d) ==
  /\ t \in Delegates
  /\ run[t][d] # None
  /\ OnAgentCompleted(t)
  /\ forced' = forced \cup {t}
  /\ UNCHANGED <<jobVars, initVars, fileVars, callVars, stale, fireVars, agentVars, day, loads, fileHist>>

\* The compaction follow-up (agent/index.ts) prompts an idle session: a run nobody fired.
FollowUp(t, d) ==
  /\ run[t][d] = None
  /\ \E f \in Fires : /\ task[f] = t /\ key[f] = d /\ state[f] = "done"
                     /\ run' = [run EXCEPT ![t][d] = f]
  /\ forced' = forced \cup {t}
  /\ UNCHANGED <<jobVars, initVars, activeTasks, fileVars, callVars, stale, fireVars, agentActive, day, loads,
                 stuck, fileHist>>

Midnight == /\ day < Days
            /\ day' = day + 1
            /\ UNCHANGED <<jobVars, initVars, activeTasks, fileVars, callVars, stale, fireVars, agentVars,
                           loads, lockHist, fileHist>>

----------------------------------------------------------------------------
(* cron.add, cron.update and cron.remove.                                  *)

InFlight(c) == step[c] \notin {"new", "done"}

\* Call c returns or throws.
Returns(c) == /\ step' = [step EXCEPT ![c] = "done"]
              /\ patch' = [patch EXCEPT ![c] = None]
              /\ stale' = stale \ {c}

\* Call c begins to work on t; it overlaps any other call for t.  Nothing calls a service
\* that boots: the RPC server and the channels start after it.
Begin(c, t) == /\ step[c] = "new"
               /\ phase \notin {"booting", "down"}
               /\ target' = [target EXCEPT ![c] = t]
               /\ diverged' = IF \E b \in Calls : InFlight(b) /\ target[b] = t
                              THEN diverged \cup {t} ELSE diverged

\* cron.add generates an id of its own and writes the file first.
Add(c, t, valid) ==
  /\ t \notin Preset \cup {Heartbeat} /\ \A b \in Calls : target[b] # t
  /\ Begin(c, t)
  /\ step' = [step EXCEPT ![c] = "adding"]
  /\ patch' = [patch EXCEPT ![c] = [rev |-> c, enabled |-> TRUE, valid |-> valid]]
  /\ UNCHANGED <<jobVars, initVars, activeTasks, fileVars, stale, fireVars, agentVars, day, loads,
                 lockHist, botched>>

\* A heartbeat is ephemeral: its file is left alone.
NextStep(t, s) == IF t = Heartbeat THEN "done" ELSE s

\* Fault: an update that only flips `enabled` leaves the timer as it is.
UpdateLazily(c, t, enable, reschedule) ==
  LET new == [rev     |-> c,
              enabled |-> IF enable = "keep" THEN jobs[t].enabled ELSE enable = "on",
              valid   |-> TRUE]
  IN /\ jobs[t] # None
     /\ Begin(c, t)
     /\ step' = [step EXCEPT ![c] = NextStep(t, "writing")]
     /\ patch' = [patch EXCEPT ![c] = new]
     /\ jobs' = [jobs EXCEPT ![t] = new]
     /\ ticking' = IF ~reschedule THEN ticking
                   ELSE IF new.enabled THEN ticking \cup {t} ELSE ticking \ {t}
     /\ botched' = IF reschedule THEN botched \ {t} ELSE botched
     /\ UNCHANGED <<strays, phase, zombies, initVars, activeTasks, fileVars, stale, fireVars, agentVars, day, loads,
                    lockHist>>

\* cron.update: the job first, then the file.  A new schedule gets a new timer.
Update(c, t, enable, reschedule) ==
  LET new == [rev     |-> c,
              enabled |-> IF enable = "keep" THEN jobs[t].enabled ELSE enable = "on",
              valid   |-> TRUE]
      retime == reschedule \/ enable # "keep"
  IN /\ jobs[t] # None
     /\ Begin(c, t)
     /\ step' = [step EXCEPT ![c] = NextStep(t, "writing")]
     /\ patch' = [patch EXCEPT ![c] = new]
     /\ jobs' = [jobs EXCEPT ![t] = new]
     /\ ticking' = IF ~retime THEN ticking
                   ELSE IF new.enabled THEN ticking \cup {t} ELSE ticking \ {t}
     /\ botched' = IF retime THEN botched \ {t} ELSE botched
     /\ UNCHANGED <<strays, phase, zombies, initVars, activeTasks, fileVars, stale, fireVars, agentVars, day, loads,
                    lockHist>>

\* The new schedule does not parse: the old timer is stopped and CronJob throws.
UpdateThrows(c, t) ==
  /\ jobs[t] # None
  /\ Begin(c, t)
  /\ step' = [step EXCEPT ![c] = "done"]
  /\ ticking' = ticking \ {t}
  /\ botched' = botched \cup {t}
  /\ UNCHANGED <<jobs, strays, phase, zombies, initVars, activeTasks, fileVars, patch, stale, fireVars, agentVars,
                 day, loads, lockHist>>

\* cron.remove: timer, job and lock first, then the file.
Remove(c, t) ==
  /\ jobs[t] # None
  /\ Begin(c, t)
  /\ step' = [step EXCEPT ![c] = NextStep(t, "unlinking")]
  /\ jobs' = [jobs EXCEPT ![t] = None]
  /\ ticking' = ticking \ {t}
  /\ activeTasks' = activeTasks \ {t}
  /\ stuck' = stuck \ {t}
  /\ forced' = IF Busy(t) THEN forced \cup {t} ELSE forced
  /\ botched' = botched \ {t}
  /\ UNCHANGED <<strays, phase, zombies, initVars, fileVars, patch, stale, fireVars, agentVars, day, loads>>

----------------------------------------------------------------------------
(* Task files: <id>.md.tmp is written and renamed, or <id>.md unlinked.    *)

WriteTmp(c) ==
  /\ step[c] \in {"adding", "writing"}
  /\ step' = [step EXCEPT ![c] = IF @ = "adding" THEN "placing" ELSE "renaming"]
  /\ tmp' = [tmp EXCEPT ![target[c]] = patch[c]]
  /\ UNCHANGED <<jobVars, initVars, activeTasks, disk, target, patch, stale, fireVars, agentVars, day, loads,
                 lockHist, fileHist>>

Loading == phase \in {"loading", "booting"}

\* Call c changes the file of its task behind the back of the init under way, which has
\* looked at it.
Behind(c) == /\ Loading /\ listed /\ target[c] \notin unread
             /\ c \in stale \/ found[target[c]] # None

\* rename(2): the file becomes whatever the shared temporary file holds.
Rename(t) == /\ tmp[t] # None
             /\ disk' = [disk EXCEPT ![t] = tmp[t]]
             /\ tmp' = [tmp EXCEPT ![t] = None]

\* Fault: add puts the job into the map before CronJob has seen the schedule.
PlacedUnparsed(c) ==
  LET t == target[c] IN
  /\ step[c] = "placing"
  /\ Returns(c)
  /\ Rename(t)
  /\ IF c \in stale THEN UNCHANGED <<jobs, ticking>>
     ELSE /\ jobs' = [jobs EXCEPT ![t] = patch[c]]
          /\ ticking' = ticking \cup {t}
  /\ UNCHANGED <<strays, phase, zombies, initVars, activeTasks, target, fireVars, agentVars, day, loads,
                 lockHist, fileHist>>

\* The end of cron.add: the file is in place and the job starts - in the map of a replaced
\* instance if there was a reload meanwhile - unless CronJob rejects the schedule.
Placed(c) ==
  LET t == target[c] IN
  /\ step[c] = "placing"
  /\ Returns(c)
  /\ Rename(t)
  /\ IF c \in stale \/ ~patch[c].valid
     THEN /\ zombies' = IF patch[c].valid THEN zombies \cup {t} ELSE zombies
          /\ diverged' = diverged \cup {t}
          /\ UNCHANGED <<jobs, ticking, strays, botched>>
     ELSE /\ jobs' = [jobs EXCEPT ![t] = patch[c]]
          /\ ticking' = ticking \cup {t}
          /\ strays' = strays \cup ({t} \cap ticking)
          /\ botched' = botched \ {t}
          /\ diverged' = IF Behind(c) THEN diverged \cup {t} ELSE diverged
          /\ UNCHANGED zombies
  /\ UNCHANGED <<phase, initVars, activeTasks, target, fireVars, agentVars, day, loads, lockHist>>

\* Fault: update writes the task as it was before the update.
RenamedOld(c) ==
  /\ step[c] = "renaming"
  /\ Returns(c)
  /\ tmp' = [tmp EXCEPT ![target[c]] = None]
  /\ UNCHANGED <<jobVars, initVars, activeTasks, disk, target, fireVars, agentVars, day, loads,
                 lockHist, fileHist>>

\* The end of cron.update.
Renamed(c) ==
  /\ step[c] = "renaming"
  /\ Returns(c)
  /\ Rename(target[c])
  /\ diverged' = IF Behind(c) THEN diverged \cup {target[c]} ELSE diverged
  /\ UNCHANGED <<jobVars, initVars, activeTasks, target, fireVars, agentVars, day, loads,
                 lockHist, botched>>

\* A write or a rename fails (the temporary file may be gone): the call rejects.
WriteFails(c) ==
  /\ step[c] \in {"adding", "placing", "writing", "renaming"}
  /\ Returns(c)
  /\ tmp' = [tmp EXCEPT ![target[c]] = None]
  /\ diverged' = diverged \cup {target[c]}
  /\ UNCHANGED <<jobVars, initVars, activeTasks, disk, target, fireVars, agentVars, day, loads,
                 lockHist, botched>>

\* The end of cron.remove.
Unlinked(c) ==
  /\ step[c] = "unlinking"
  /\ Returns(c)
  /\ disk' = [disk EXCEPT ![target[c]] = None]
  /\ diverged' = IF Behind(c) THEN diverged \cup {target[c]} ELSE diverged
  /\ UNCHANGED <<jobVars, initVars, activeTasks, tmp, target, fireVars, agentVars, day, loads,
                 lockHist, botched>>

UnlinkFails(c) ==
  /\ step[c] = "unlinking"
  /\ Returns(c)
  /\ diverged' = diverged \cup {target[c]}
  /\ UNCHANGED <<jobVars, initVars, activeTasks, fileVars, target, fireVars, agentVars, day,
                 loads, lockHist, botched>>

----------------------------------------------------------------------------
(* Reload (bus.restart "cron") and process restart.                        *)

\* A new instance has its methods and has yet to look at the directory.
StartsToLoad == /\ jobs' = NoTasks
                /\ ticking' = {}
                /\ strays' = {}
                /\ activeTasks' = {}
                /\ listed' = FALSE /\ unread' = {} /\ found' = NoTasks
                /\ stuck' = {}
                /\ botched' = {}

\* The old instance is released and disposed of.
Reload ==
  /\ phase \in {"up", "failed"} /\ loads < MaxLoads
  /\ loads' = loads + 1
  /\ phase' = "loading"
  /\ StartsToLoad
  /\ zombies' = zombies \cup {t \in strays \ activeTasks : jobs[t] # None /\ jobs[t].enabled}
  /\ stale' = stale \cup {c \in Calls : InFlight(c)} \cup {f \in Fires : state[f] = "hook"}
  /\ forced' = forced \cup {t \in Tasks : Busy(t)}
  /\ UNCHANGED <<fileVars, callVars, fireVars, agentVars, day, diverged>>

\* The process ends, in whatever state it is.
ProcessEnds ==
  /\ StartsToLoad
  /\ step' = [c \in Calls |-> IF InFlight(c) THEN "done" ELSE step[c]]
  /\ patch' = [c \in Calls |-> None]
  /\ state' = [f \in Fires |-> IF state[f] = "new" THEN "new" ELSE "off"]
  /\ stale' = {} /\ zombies' = {}
  /\ run' = [t \in Tasks |-> [d \in DayRange |-> None]]
  /\ agentActive' = {}
  /\ forced' = {} /\ diverged' = {}
  /\ UNCHANGED <<fileVars, target, task, key, day>>

\* It boots again.
Restart ==
  /\ loads < MaxLoads
  /\ loads' = loads + 1
  /\ phase' = "booting"
  /\ ProcessEnds

----------------------------------------------------------------------------
(* init: the directory is read, then one file after the other.             *)

Present == {t \in Tasks : disk[t] # None}
Underway == {target[c] : c \in {b \in Calls : InFlight(b)}}

ReadDir ==
  /\ Loading /\ ~listed
  /\ listed' = TRUE
  /\ unread' = Present
  /\ diverged' = (diverged \cap Present) \cup (Underway \ Present)
  /\ UNCHANGED <<jobVars, found, activeTasks, fileVars, callVars, stale, fireVars, agentVars,
                 day, loads, lockHist, botched>>

\* The directory cannot be read: it counts as empty.
ReadDirFails ==
  /\ Loading /\ ~listed
  /\ listed' = TRUE
  /\ diverged' = diverged \cup Present \cup Underway
  /\ UNCHANGED <<jobVars, unread, found, activeTasks, fileVars, callVars, stale, fireVars, agentVars,
                 day, loads, lockHist, botched>>

\* A file that is gone by now is skipped.
ReadFile(t) ==
  /\ Loading /\ t \in unread
  /\ unread' = unread \ {t}
  /\ found' = [found EXCEPT ![t] = disk[t]]
  /\ diverged' = IF t \in Underway THEN diverged \cup {t} ELSE diverged \ {t}
  /\ UNCHANGED <<jobVars, listed, activeTasks, fileVars, callVars, stale, fireVars, agentVars,
                 day, loads, lockHist, botched>>

\* So is one that cannot be read.
ReadFails(t) ==
  /\ Loading /\ t \in unread
  /\ unread' = unread \ {t}
  /\ diverged' = diverged \cup {t}
  /\ UNCHANGED <<jobVars, listed, found, activeTasks, fileVars, callVars, stale, fireVars,
                 agentVars, day, loads, lockHist, botched>>

AllRead == Loading /\ listed /\ unread = {}
Found == {t \in Tasks : found[t] # None}
Loadable == {t \in Found : found[t].valid}

\* addJob for the tasks in S, whose place in the map a cron.add may have taken meanwhile.
AddJobs(S) == /\ jobs' = [t \in Tasks |-> IF t \in S THEN found[t] ELSE jobs[t]]
              /\ strays' = strays \cup (ticking \cap S)

\* The jobs are made, and those that are enabled are started.
Load ==
  /\ AllRead
  /\ Loadable = Found
  /\ phase' = "up"
  /\ AddJobs(Found)
  /\ ticking' = (ticking \ Found) \cup {t \in Tasks : jobs'[t] # None /\ jobs'[t].enabled}
  /\ listed' = FALSE /\ found' = NoTasks
  /\ diverged' = diverged \cup Underway
  /\ botched' = {}
  /\ UNCHANGED <<zombies, unread, activeTasks, fileVars, callVars, stale, fireVars, agentVars, day,
                 loads, lockHist>>

\* CronJob throws on a schedule: init stops there, with the jobs before it made.
LoadFails ==
  /\ AllRead /\ phase = "loading"
  /\ Loadable # Found
  /\ phase' = "failed"
  /\ \E S \in SUBSET Loadable : AddJobs(S) /\ ticking' = ticking \ S
  /\ listed' = FALSE /\ found' = NoTasks
  /\ UNCHANGED <<zombies, unread, activeTasks, fileVars, callVars, stale, fireVars, agentVars,
                 day, loads, lockHist, fileHist>>

\* During boot the process exits with it.
BootFails ==
  /\ AllRead /\ phase = "booting"
  /\ Loadable # Found
  /\ phase' = "down"
  /\ ProcessEnds
  /\ UNCHANGED loads

----------------------------------------------------------------------------
FireStep(f) == \/ \E t \in Tasks : Tick(f, t) \/ TickHooked(f, t) \/ RunNow(f, t) \/ ZombieTick(f, t)
               \/ HookPasses(f) \/ HookRefuses(f)
               \/ Prompt(f) \/ Rejects(f) \/ TimesOut(f) \/ Settles(f)

CallStep(c) == \/ \E t \in Tasks : \/ \E valid \in BOOLEAN : Add(c, t, valid)
                                   \/ \E enable \in {"keep", "on", "off"}, reschedule \in BOOLEAN :
                                        Update(c, t, enable, reschedule)
                                   \/ UpdateThrows(c, t)
                                   \/ Remove(c, t)
               \/ WriteTmp(c) \/ Placed(c) \/ Renamed(c) \/ WriteFails(c)
               \/ Unlinked(c) \/ UnlinkFails(c)

AgentStep == \E t \in Tasks, d \in DayRange : RunEnds(t, d) \/ SubagentEnds(t, d) \/ FollowUp(t, d)

InitStep == \/ ReadDir \/ ReadDirFails
            \/ \E t \in Tasks : ReadFile(t) \/ ReadFails(t)
            \/ Load \/ LoadFails

Next == \/ \E f \in Fires : FireStep(f)
        \/ \E c \in Calls : CallStep(c)
        \/ AgentStep
        \/ Midnight
        \/ Reload \/ Restart
        \/ InitStep \/ BootFails

Spec == Init /\ [][Next]_vars

----------------------------------------------------------------------------
(* Properties.                                                             *)

\* A locked task has a fire or a run under way whose completion will unlock it, or the
\* completion was lost for good: execute rejected without a run, or nobody listened.
LockBacked ==
  \A t \in activeTasks : Busy(t) \/ t \in stuck

\* The lock does its work as long as it is not forced (cron.run, a subagent's completion, a
\* compaction follow-up, cron.remove, a reload, a hook in between): a task is executed once at a time, through
\* timeouts, updates and midnight, and is locked while it is.
OneRunUnlessForced ==
  \A t \in Tasks \ forced :
    /\ Running(t) => t \in activeTasks
    /\ \A f \in Fires : task[f] = t /\ state[f] = "calling" =>
         /\ t \in activeTasks /\ ~Running(t)
         /\ \A g \in Fires \ {f} : task[g] = t => state[g] # "calling"
    /\ \A d, e \in DayRange : run[t][d] # None /\ run[t][e] # None => d = e

\* The timers that are started are those of the enabled jobs, after any calls and reloads,
\* but for an update that stopped the old timer and then threw.
TimerFollowsEnabled ==
  phase = "up" =>
    \A t \in Tasks \ botched : t \in ticking <=> (jobs[t] # None /\ jobs[t].enabled)

\* A task has the file its job says, so that it is the same task after a reload or a
\* restart - through calls, reloads and restarts in any order, as long as no call on it failed,
\* overlapped another one, or reached the disk while a reload was between reading the
\* directory, or the task's file, and placing the jobs.
DiskAgrees ==
  phase = "up" =>
    \A t \in Tasks \ (diverged \cup {Heartbeat}) :
      (\A c \in Calls : target[c] = t => ~InFlight(c)) => disk[t] = jobs[t]

(* The inductive invariant behind the safety properties.                   *)

\* A fire that started has its task, a call that started its target and what it writes.
Provenance ==
  /\ \A f \in Fires : state[f] # "new" => task[f] \in Tasks
  /\ \A c \in Calls : IF step[c] = "new" THEN target[c] = None /\ c \notin stale ELSE target[c] \in Tasks
  /\ \A c \in Calls : step[c] \in {"adding", "placing", "writing", "renaming"} => patch[c] \in Def
  /\ \A c \in Calls : step[c] \in {"adding", "placing"} => patch[c].enabled

\* LockBacked without the fires that still wait for their hook.
LockInv ==
  \A t \in activeTasks : \/ \E f \in Fires : task[f] = t /\ state[f] = "calling"
                         \/ Running(t)
                         \/ t \in stuck

\* TimerFollowsEnabled from the moment the methods are registered.
TimerInv ==
  /\ botched \cap ticking = {}
  /\ phase = "up" \/ Loading =>
       \A t \in Tasks \ botched : t \in ticking <=> (jobs[t] # None /\ jobs[t].enabled)

\* A task that has a job or a file was there from the start or was added by a call.
Origins ==
  \A t \in Tasks : jobs[t] # None \/ disk[t] # None \/ found[t] # None =>
    t \in Preset \/ \E c \in Calls : target[c] = t

\* The task of a cron.add in flight is nowhere but in that call.
AddsInv ==
  \A c \in Calls : step[c] \in {"adding", "placing"} =>
    /\ jobs[target[c]] = None
    /\ disk[target[c]] = None
    /\ found[target[c]] = None
    /\ \A b \in Calls \ {c} : target[b] # target[c]

\* What init will not find on disk has no job to keep.
LoadingInv ==
  Loading =>
    \A t \in Tasks : jobs[t] # None =>
      /\ disk[t] # None
      /\ \A c \in Calls : target[c] = t => step[c] # "unlinking"

\* What init read is still in the file, or the task is on record.
FoundInv ==
  /\ ~listed => found = NoTasks /\ unread = {}
  /\ \A t \in unread : found[t] = None
  /\ Loading => \A t \in Tasks \ diverged : found[t] # None => disk[t] = found[t]

\* The job of t is the one the instance will keep: init is done, or did not find t.
Settled(t) == phase = "up" \/ (Loading /\ listed /\ t \notin unread /\ found[t] = None)

\* A call that neither overlaps nor fails is alone with its task, belongs to the live
\* instance, and carries the job its file will agree with.
WritesInv ==
  \A c \in Calls :
    InFlight(c) /\ target[c] \notin diverged \cup {Heartbeat} /\ Settled(target[c]) =>
      /\ c \notin stale
      /\ \A b \in Calls \ {c} : InFlight(b) => target[b] # target[c]
      /\ step[c] \in {"placing", "renaming"} => tmp[target[c]] = patch[c]
      /\ step[c] \in {"writing", "renaming"} => jobs[target[c]] = patch[c]
      /\ step[c] = "unlinking" => jobs[target[c]] = None

\* DiskAgrees for the tasks that are settled while init goes on.
FilesInv ==
  \A t \in Tasks \ (diverged \cup {Heartbeat}) :
    Settled(t) /\ (\A c \in Calls : target[c] = t => ~InFlight(c)) => disk[t] = jobs[t]

IInv == /\ TypeOK
        /\ Provenance
        /\ LockInv
        /\ OneRunUnlessForced
        /\ TimerInv
        /\ Origins
        /\ AddsInv
        /\ LoadingInv
        /\ FoundInv
        /\ WritesInv
        /\ FilesInv

=============================================================================
