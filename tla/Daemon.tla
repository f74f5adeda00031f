------------------------------- MODULE Daemon -------------------------------
(***************************************************************************)
(* The supervisor (index.ts) and the boot processes that it spawns one     *)
(* after the other (boot.ts): start, restart through exit code 42, signals,*)
(* the bounded drain and the last-resort kill.                             *)
(***************************************************************************)
EXTENDS Naturals, FiniteSets

CONSTANTS Boots,  \* boot processes, in the order 1, 2, ...: the bound on respawns
          NoBoot  \* child before the first spawn

VARIABLES
    sup,         \* the supervisor: "gate" until the configuration was looked at
    stopping,    \* index.ts: shuttingDown
    child,       \* index.ts: child
    killed,      \* ChildProcess.killed: a signal was sent, whatever came of it
    respawn,     \* the timer of RESPAWN_DELAY_MS is running
    hard,        \* the timer of 8 s is running
    boot, code,  \* each boot process, and how it exited
    reaped,      \* boots whose exit event the supervisor has handled
    term,        \* boots with a signal that their event loop has not handled yet
    shutting,    \* boot.ts: shuttingDown, with its timer of 5 s
    restarting,  \* a restartProcess drain is running
    hangs,       \* some dispose() will never settle
    wedged       \* boots whose event loop is blocked for good

supVars == <<sup, stopping, child, killed, respawn, hard, reaped>>
bootVars == <<boot, code, term, shutting, restarting, hangs, wedged>>
vars == <<supVars, bootVars>>

Alive == {b \in Boots : boot[b] \in {"starting", "serving", "draining"}}
Quits == {"restart", "ok", "bad", "signal"}

TypeOK ==
    /\ sup \in {"gate", "up", "exited"}
    /\ {stopping, respawn, hard} \subseteq BOOLEAN
    /\ child \in Boots \cup {NoBoot}
    /\ boot \in [Boots -> {"none", "starting", "serving", "draining", "gone"}]
    /\ code \in [Boots -> Quits \cup {"none"}]
    /\ UNION {killed, reaped, term, shutting, restarting, hangs, wedged} \subseteq Boots

Init ==
    /\ sup = "gate" /\ stopping = FALSE /\ child = NoBoot
    /\ respawn = FALSE /\ hard = FALSE
    /\ boot = [b \in Boots |-> "none"]
    /\ code = [b \in Boots |-> "none"]
    /\ killed = {} /\ reaped = {} /\ term = {} /\ shutting = {}
    /\ restarting = {} /\ hangs = {} /\ wedged = {}

-----------------------------------------------------------------------------
(* The supervisor *)

SpawnBoot ==
    \E b \in Boots :
        /\ boot[b] = "none" /\ \A a \in Boots : a < b => boot[a] # "none"
        /\ boot' = [boot EXCEPT ![b] = "starting"]
        /\ child' = b

(* The configuration gate: without a provider the supervisor exits with 1.  *)
Gate ==
    /\ sup = "gate"
    /\ \/ sup' = "up" /\ SpawnBoot
       \/ sup' = "exited" /\ UNCHANGED <<boot, child>>
    /\ UNCHANGED <<stopping, killed, respawn, hard, reaped, code, term, shutting, restarting,
                   hangs, wedged>>

Respawn ==
    /\ sup = "up" /\ respawn
    /\ respawn' = FALSE
    /\ SpawnBoot
    /\ UNCHANGED <<sup, stopping, killed, hard, reaped, code, term, shutting, restarting,
                   hangs, wedged>>

(* Process b ends.  A dead process handles nothing any more.                *)
Quit(b, c) ==
    /\ boot' = [boot EXCEPT ![b] = "gone"]
    /\ code' = [code EXCEPT ![b] = c]

(* child.kill(sig) on a process that is gone reports failure and leaves     *)
(* child.killed alone; before boot.ts has installed its handlers the signal *)
(* ends the process there and then.                                         *)
Kill(b) ==
    /\ killed' = IF boot[b] = "gone" THEN killed ELSE killed \cup {b}
    /\ IF boot[b] = "starting" THEN Quit(b, "signal") ELSE UNCHANGED <<boot, code>>
    /\ term' = IF boot[b] \in {"serving", "draining"} THEN term \cup {b} ELSE term

(* forward(): SIGTERM or SIGINT reaches the supervisor, once or repeatedly. *)
Forward ==
    /\ sup # "exited" /\ ~stopping
    /\ stopping' = TRUE
    /\ IF child = NoBoot \/ child \in killed
       THEN sup' = "exited" /\ UNCHANGED <<hard, killed, boot, code, term>>
       ELSE Kill(child) /\ hard' = TRUE /\ UNCHANGED sup
    /\ UNCHANGED <<child, respawn, reaped, shutting, restarting, hangs, wedged>>

(* What happens within the 8 seconds if it happens at all: the respawn, an  *)
(* exit event, a signal handled by a live event loop, the 5 second timer.   *)
Sooner ==
    \/ respawn
    \/ \E b \in Boots : boot[b] = "gone" /\ b \notin reaped
    \/ \E b \in Alive \ wedged : b \in term \cup shutting

(* Fault: the supervisor leaves without the SIGKILL.                        *)
HardTimerOnlyExits ==
    /\ sup = "up" /\ hard /\ ~Sooner
    /\ sup' = "exited"
    /\ UNCHANGED <<stopping, child, killed, respawn, hard, reaped, bootVars>>

HardTimer ==
    /\ sup = "up" /\ hard /\ ~Sooner
    /\ IF child \in Alive /\ child \notin killed
       THEN Quit(child, "signal") /\ killed' = killed \cup {child}
       ELSE UNCHANGED <<boot, code, killed>>
    /\ sup' = "exited"
    /\ UNCHANGED <<stopping, child, respawn, hard, reaped, term, shutting, restarting, hangs, wedged>>

(* Fault: an exit during shutdown is left for the timer to sort out, and    *)
(* the timer was cleared.                                                   *)
ReapKeepsRunning(b) ==
    /\ sup = "up" /\ boot[b] = "gone" /\ b \notin reaped
    /\ reaped' = reaped \cup {b}
    /\ respawn' = (respawn \/ (~stopping /\ code[b] = "restart"))
    /\ hard' = FALSE
    /\ sup' = IF stopping \/ code[b] = "restart" THEN sup ELSE "exited"
    /\ UNCHANGED <<stopping, child, killed, bootVars>>

(* The child's exit event.                                                  *)
Reap(b) ==
    /\ sup = "up" /\ boot[b] = "gone" /\ b \notin reaped
    /\ reaped' = reaped \cup {b}
    /\ IF ~stopping /\ code[b] = "restart"
       THEN respawn' = TRUE /\ UNCHANGED sup
       ELSE sup' = "exited" /\ UNCHANGED respawn
    /\ UNCHANGED <<stopping, child, killed, hard, bootVars>>

-----------------------------------------------------------------------------
(* A boot process *)

Runs(b) == boot[b] \in {"serving", "draining"} /\ b \notin wedged

(* Seeding, migrations, doctors, services, edges, the RPC port; only then   *)
(* are the signal handlers installed.  A core service or the port that      *)
(* fails ends the process with 1.                                           *)
BootUp(b) ==
    /\ boot[b] = "starting" /\ b \notin wedged
    /\ \/ boot' = [boot EXCEPT ![b] = "serving"] /\ UNCHANGED code
       \/ Quit(b, "bad")
    /\ UNCHANGED <<supVars, term, shutting, restarting, hangs, wedged>>

(* A crash that no handler sees (uncaught exceptions are logged), and an    *)
(* event loop that never comes back.                                        *)
Crash(b) ==
    /\ b \in Alive
    /\ Quit(b, "bad")
    /\ UNCHANGED <<supVars, term, shutting, restarting, hangs, wedged>>

Wedge(b) ==
    /\ b \in Alive \ wedged
    /\ wedged' = wedged \cup {b}
    /\ UNCHANGED <<supVars, boot, code, term, shutting, restarting, hangs>>

(* drain(): loader.disposeAll, then the RPC server's stop.                  *)
Drain(b) ==
    /\ boot' = [boot EXCEPT ![b] = "draining"]
    /\ \E h \in BOOLEAN : hangs' = IF h /\ boot[b] = "serving" THEN hangs \cup {b} ELSE hangs

(* bus.restartProcess: the reply goes out first, then the process drains,   *)
(* without a bound and without looking at shuttingDown.                     *)
RestartProcess(b) ==
    /\ Runs(b) /\ boot[b] = "serving"
    /\ b + 1 \in Boots
    /\ restarting' = restarting \cup {b}
    /\ Drain(b)
    /\ UNCHANGED <<supVars, code, term, shutting, wedged>>

Shutdown(b) ==
    /\ Runs(b) /\ b \in term
    /\ term' = term \ {b}
    /\ IF b \in shutting THEN UNCHANGED <<boot, hangs, shutting>>
       ELSE shutting' = shutting \cup {b} /\ Drain(b)
    /\ UNCHANGED <<supVars, code, restarting, wedged>>

(* Whichever drain ends first decides the exit code.                        *)
Drained(b) ==
    /\ Runs(b) /\ b \notin hangs
    /\ \/ b \in restarting /\ Quit(b, "restart")
       \/ b \in shutting /\ Quit(b, "ok")
    /\ UNCHANGED <<supVars, term, shutting, restarting, hangs, wedged>>

(* The 5 seconds of shutdown() are over.                                    *)
Forced(b) ==
    /\ Runs(b) /\ b \in shutting
    /\ Quit(b, "ok")
    /\ UNCHANGED <<supVars, term, shutting, restarting, hangs, wedged>>

-----------------------------------------------------------------------------
Internal ==
    \/ Gate \/ Respawn \/ HardTimer
    \/ \E b \in Boots : Reap(b) \/ BootUp(b) \/ Shutdown(b) \/ Drained(b) \/ Forced(b)

Next ==
    \/ Internal \/ Forward
    \/ \E b \in Boots : Crash(b) \/ Wedge(b) \/ RestartProcess(b)

Spec == Init /\ [][Next]_vars

-----------------------------------------------------------------------------
(* Properties *)

(* Never two boot processes at once, and none that outlives the supervisor: *)
(* not the one that was respawned after the supervisor had been told to     *)
(* stop, not one that hangs in its drain.  Only a boot whose event loop is  *)
(* blocked is left behind.                                                  *)
NoStrayBoot ==
    /\ Cardinality(Alive) <= 1
    /\ sup = "exited" => Alive \subseteq wedged

(* What index.ts:54-55 says: "if the child is truly wedged past that,       *)
(* SIGKILL it and leave".  child.killed is true from the first signal on,   *)
(* so the kill is never sent to a child that was sent SIGTERM.              *)
NoBootLeftBehind == sup = "exited" => Alive = {}

(* A supervisor that was told to stop exits, whatever its child does.       *)
StopsWhenTold == stopping ~> sup = "exited"
=============================================================================
