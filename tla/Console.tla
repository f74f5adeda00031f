------------------------------- MODULE Console -------------------------------
(***************************************************************************)
(* The web console from end to end: the edge-web service in the daemon     *)
(* (Next child, live-update WebSocket, file watcher, status poll), its     *)
(* overlapping restarts, and one page in a browser that reconnects,        *)
(* refetches on an event and shows what the last response said.            *)
(***************************************************************************)
EXTENDS Naturals, Sequences, SequencesExt

CONSTANTS Insts,        \* numbers of the service's instances, in load order
          Callers,      \* overlapping bus.restart calls
          MaxLoads,     \* loads of the page that are in flight at once
          MaxChanges,   \* changes of the data directory
          MaxRestarts,  \* restarts of the Next child per instance (5 in the code)
          MaxPolls      \* polls in flight at once

ASSUME ConsoleAssumption ==
    /\ Insts \subseteq Nat \ {0} /\ 1 \in Insts
    /\ MaxLoads \in Nat /\ MaxChanges \in Nat /\ MaxRestarts \in Nat
    /\ MaxPolls \in Nat \ {0}

VARIABLES
    cur,    \* the instance that the loader holds, 0 if none
    inst,   \* the instances
    call,   \* each restart: "idle", "dispose" or "load"
    file,   \* version of the data on disk
    page,   \* the page: its socket and timers, and what it shows
    loads,  \* loads in flight, in the order in which they were asked for
    early,  \* history: instances that were disposed before init had ended
    stale   \* history: the page shows a response that a later one's had overtaken

vars == <<cur, inst, call, file, page, loads, early, stale>>

Fresh == [at |-> "new", stops |-> FALSE, wss |-> FALSE, watch |-> FALSE, child |-> "none",
          delay |-> FALSE, restarts |-> 0, debounce |-> FALSE, polls |-> 0, told |-> FALSE]
Off == [on |-> FALSE, sock |-> "none", to |-> 0, wire |-> FALSE, retry |-> FALSE,
        refresh |-> FALSE, shown |-> 0, failed |-> FALSE]
Asked == [at |-> "asked", got |-> 0, late |-> FALSE]  \* late: a later load was answered

TypeOK ==
    /\ cur \in {0} \cup Insts /\ file \in 1..MaxChanges + 1
    /\ inst \in [Insts -> [at: {"new", "init", "up"}, stops: BOOLEAN, wss: BOOLEAN, watch: BOOLEAN,
                           child: {"none", "up", "dying"}, delay: BOOLEAN, restarts: 0..MaxRestarts,
                           debounce: BOOLEAN, polls: 0..MaxPolls, told: BOOLEAN]]
    /\ call \in [Callers -> {"idle", "dispose", "load"}]
    /\ page \in [on: BOOLEAN, sock: {"none", "connecting", "open"}, to: {0} \cup Insts, wire: BOOLEAN,
                 retry: BOOLEAN, refresh: BOOLEAN, shown: 0..file, failed: BOOLEAN]
    /\ loads \in Seq([at: {"asked", "failed", "read"}, got: 0..file, late: BOOLEAN])
    /\ Len(loads) <= MaxLoads
    /\ early \subseteq Insts /\ stale \in BOOLEAN
    /\ \A i, j \in Insts : inst[i].wss /\ inst[j].wss => i = j

Init ==
    /\ cur = 1 /\ inst = [i \in Insts |-> IF i = 1 THEN [Fresh EXCEPT !.at = "init"] ELSE Fresh]
    /\ call = [r \in Callers |-> "idle"]
    /\ file = 1 /\ page = Off /\ loads = <<>> /\ early = {} /\ stale = FALSE

(* The page's socket is one of instance i's clients; they outlive wss.close. *)
Listens(i) == page.sock = "open" /\ page.to = i
Broadcast(i) == page' = IF Listens(i) THEN [page EXCEPT !.wire = TRUE] ELSE page

-----------------------------------------------------------------------------
(* edge/web: WebEdge *)

(* init past its wait for config.get; dispose may have run meanwhile.  The  *)
(* WebSocket's port may still be taken: that is only logged.                *)
InitDone(i) ==
    /\ inst[i].at = "init"
    /\ inst' = [inst EXCEPT ![i].at = "up", ![i].watch = TRUE, ![i].polls = 1, ![i].child = "up",
                            ![i].wss = \A j \in Insts : ~inst[j].wss]
    /\ UNCHANGED <<cur, call, file, page, loads, early, stale>>

(* The timer of a respawn is not cleared; the count is not read again.      *)
Disposed(w) ==
    [w EXCEPT !.stops = TRUE, !.wss = FALSE, !.watch = FALSE, !.debounce = FALSE, !.restarts = 0,
              !.child = IF @ = "up" THEN "dying" ELSE @]

(* bus.restart: dispose, drop what the map holds by then, load anew.        *)
Restart(r) ==
    /\ call[r] = "idle" /\ \E i \in Insts : inst[i].at = "new"
    /\ call' = [call EXCEPT ![r] = "dispose"]
    /\ IF cur = 0 THEN UNCHANGED <<inst, early>>
       ELSE /\ inst' = [inst EXCEPT ![cur] = Disposed(@)]
            /\ early' = early \cup {i \in {cur} : inst[i].at = "init"}
    /\ UNCHANGED <<cur, file, page, loads, stale>>

(* The child has ended, or was sent SIGKILL after three seconds.            *)
Unloaded(r) ==
    /\ call[r] = "dispose"
    /\ cur' = 0 /\ call' = [call EXCEPT ![r] = "load"]
    /\ UNCHANGED <<inst, file, page, loads, early, stale>>

Load(r) ==
    /\ call[r] = "load"
    /\ \E i \in Insts :
         /\ inst[i].at = "new" /\ \A j \in Insts : j < i => inst[j].at # "new"
         /\ cur' = i /\ inst' = [inst EXCEPT ![i].at = "init"]
    /\ call' = [call EXCEPT ![r] = "idle"]
    /\ UNCHANGED <<file, page, loads, early, stale>>

ChildExits(i) ==
    LET again == inst[i].child = "up" /\ ~inst[i].stops /\ inst[i].restarts < MaxRestarts
    IN  /\ inst[i].child # "none"
        /\ inst' = [inst EXCEPT ![i].child = "none", ![i].delay = again,
                                ![i].restarts = IF again THEN @ + 1 ELSE @]
        /\ UNCHANGED <<cur, call, file, page, loads, early, stale>>

Respawn(i) ==
    /\ inst[i].delay
    /\ inst' = [inst EXCEPT ![i].delay = FALSE, ![i].child = IF inst[i].stops THEN @ ELSE "up"]
    /\ UNCHANGED <<cur, call, file, page, loads, early, stale>>

(* setInterval and bus.onReady.                                             *)
Poll(i) ==
    /\ inst[i].at = "up" /\ (inst[i].stops => i \in early) /\ inst[i].polls < MaxPolls
    /\ inst' = [inst EXCEPT ![i].polls = @ + 1]
    /\ UNCHANGED <<cur, call, file, page, loads, early, stale>>

(* A poll ends; a status that differs from the last one, as the first one   *)
(* does, is broadcast.                                                      *)
Polled(i) ==
    /\ inst[i].polls > 0
    /\ inst' = [inst EXCEPT ![i].polls = @ - 1, ![i].told = TRUE]
    /\ Broadcast(i) \/ (inst[i].told /\ UNCHANGED page)
    /\ UNCHANGED <<cur, call, file, loads, early, stale>>

(* A file under the data directory changes; each watcher restarts its timer. *)
Change ==
    /\ file <= MaxChanges
    /\ file' = file + 1
    /\ inst' = [i \in Insts |-> IF inst[i].watch THEN [inst[i] EXCEPT !.debounce = TRUE] ELSE inst[i]]
    /\ UNCHANGED <<cur, call, page, loads, early, stale>>

Debounced(i) ==
    /\ inst[i].debounce
    /\ inst' = [inst EXCEPT ![i].debounce = FALSE]
    /\ Broadcast(i)
    /\ UNCHANGED <<cur, call, file, loads, early, stale>>

-----------------------------------------------------------------------------
(* lib/use-vargos-socket *)

Ask == Len(loads) < MaxLoads /\ loads' = Append(loads, Asked)

Open ==
    /\ ~page.on
    /\ page' = [Off EXCEPT !.on = TRUE, !.sock = "connecting"]
    /\ Ask
    /\ UNCHANGED <<cur, inst, call, file, early, stale>>

(* Fault: a client that connects is only greeted, which the page ignores.   *)
ConnectGreeted ==
    /\ page.sock = "connecting"
    /\ \/ \E i \in Insts :
            inst[i].wss /\ page' = [page EXCEPT !.sock = "open", !.to = i]
       \/ page' = [page EXCEPT !.sock = "none", !.retry = TRUE]
    /\ UNCHANGED <<cur, inst, call, file, loads, early, stale>>

(* Whoever connects is sent the last status, if there is one; a connection  *)
(* that fails is closed and tried again later.                              *)
Connect ==
    /\ page.sock = "connecting"
    /\ \/ \E i \in Insts :
            inst[i].wss /\ page' = [page EXCEPT !.sock = "open", !.to = i, !.wire = inst[i].told]
       \/ page' = [page EXCEPT !.sock = "none", !.retry = TRUE]
    /\ UNCHANGED <<cur, inst, call, file, loads, early, stale>>

Drop ==
    /\ page.sock = "open"
    /\ page' = [page EXCEPT !.sock = "none", !.to = 0, !.wire = FALSE, !.retry = TRUE]
    /\ UNCHANGED <<cur, inst, call, file, loads, early, stale>>

Reconnect ==
    /\ page.retry
    /\ page' = [page EXCEPT !.retry = FALSE, !.sock = "connecting"]
    /\ UNCHANGED <<cur, inst, call, file, loads, early, stale>>

(* useLiveRefresh: an event restarts the refresh timer.                     *)
Receive ==
    /\ page.wire
    /\ page' = [page EXCEPT !.wire = FALSE, !.refresh = TRUE]
    /\ UNCHANGED <<cur, inst, call, file, loads, early, stale>>

Refresh ==
    /\ page.refresh
    /\ page' = [page EXCEPT !.refresh = FALSE]
    /\ Ask
    /\ UNCHANGED <<cur, inst, call, file, early, stale>>

(* The API route reads the data, if a Next child is there to serve it.      *)
Serve(k) ==
    /\ loads[k].at = "asked"
    /\ loads' = [loads EXCEPT ![k] = IF \E i \in Insts : inst[i].child = "up"
                                     THEN [@ EXCEPT !.at = "read", !.got = file]
                                     ELSE [@ EXCEPT !.at = "failed"]]
    /\ UNCHANGED <<cur, inst, call, file, page, early, stale>>

(* load(): what a response says is shown, whatever has been shown since it  *)
(* was asked for.                                                           *)
Answered(k) ==
    /\ loads[k].at \in {"read", "failed"}
    /\ loads' = RemoveAt([j \in DOMAIN loads |-> IF j < k THEN [loads[j] EXCEPT !.late = TRUE]
                                                 ELSE loads[j]], k)
    /\ page' = IF loads[k].at = "failed" THEN [page EXCEPT !.failed = TRUE]
               ELSE [page EXCEPT !.failed = FALSE, !.shown = loads[k].got]
    /\ stale' = loads[k].late
    /\ UNCHANGED <<cur, inst, call, file, early>>

(* Unmounting clears the timers and closes the socket.                      *)
Close ==
    /\ page.on
    /\ page' = Off /\ loads' = <<>> /\ stale' = FALSE
    /\ UNCHANGED <<cur, inst, call, file, early>>

Next ==
    \/ \E i \in Insts :
         InitDone(i) \/ ChildExits(i) \/ Respawn(i) \/ Poll(i) \/ Polled(i) \/ Debounced(i)
    \/ \E r \in Callers : Restart(r) \/ Unloaded(r) \/ Load(r)
    \/ Change \/ Open \/ Connect \/ Drop \/ Reconnect \/ Receive \/ Refresh \/ Close
    \/ \E k \in DOMAIN loads : Serve(k) \/ Answered(k)

Spec == Init /\ [][Next]_vars

-----------------------------------------------------------------------------
(* Properties *)

Orphaned == page.sock = "open" /\ ~inst[page.to].wss

(* A page that does not show what is on disk has an update on its way: a    *)
(* load that will read it, a refresh timer, an event in flight or held back *)
(* by the debounce, a first poll, or a connection to come that is told the  *)
(* status.  What can leave it stale is a response that was overtaken by a   *)
(* later one's, a load that failed, and a socket to an instance that was    *)
(* disposed, which stays open and silent.                                   *)
NothingMissed ==
    page.on /\ page.shown # file =>
        \/ \E k \in DOMAIN loads : ~loads[k].late /\ (loads[k].at = "read" => loads[k].got = file)
        \/ page.refresh \/ page.wire \/ page.sock # "open"
        \/ inst[page.to].debounce \/ (~inst[page.to].told /\ inst[page.to].polls > 0)
        \/ Orphaned \/ stale \/ page.failed

(* No Next child of a disposed instance runs on or is started again, unless *)
(* it was disposed while its init was waiting for the configuration.        *)
NoStrayNext ==
    \A i \in Insts : inst[i].stops /\ i \notin early => inst[i].child # "up"

(* Both, with the types.                                                    *)
ConsoleFollows == TypeOK /\ NothingMissed /\ NoStrayNext
=============================================================================
