----------------------------- MODULE PairDialog -----------------------------
(***************************************************************************)
(* The console's WhatsApp pairing dialog against the daemon's pairing      *)
(* session.  The dialog's effect starts a pairing and its cleanup cancels  *)
(* it; each is an HTTP request of its own, so the daemon may serve them in *)
(* any order.  The effect runs again not only when the dialog is opened,   *)
(* but on every render of the page around it, whose onOpenChange is a new  *)
(* function each time.                                                     *)
(***************************************************************************)
EXTENDS Naturals

CONSTANTS Starts,  \* calls of begin(), numbered from 1 in the order they are made
          Asks     \* status requests that can be under way at once

VARIABLES
    mount,    \* first begin() of the dialog on the screen, 0 if there is none
    shown,    \* its status.phase, or "refused" once startErr is set
    start,    \* each begin(): "no", "asked", "ok", "failed", "over"; its call was rejected
              \* before ("dropped") or after ("lost") the daemon had served it
    home,     \* the mount that each begin() belongs to
    poll,     \* pollRef of each mount: the begin() that set the interval, 0 if none
    polls,    \* intervals that run, each by its begin()
    done,     \* mounts whose doneRef is set
    closing,  \* mounts whose closing timer runs
    cancels,  \* pairCancels in flight, each by the latest begin() before it
    asked,    \* the interval that sent each pairStatus, 0 if none did
    got,      \* the phase that was read for it, "none" before that
    session,  \* phase of the daemon's session
    crossed,  \* history: a cancel was served after a start that was sent later
    early,    \* history: begin()s that were under way at a cleanup
    late      \* history: a status came to the open dialog when its interval was stopped

StartsAssumption == Starts \subseteq Nat \ {0}

dialogVars == <<mount, shown, start, home, poll, polls, done, closing, cancels, asked, got>>
histVars == <<crossed, early, late>>
vars == <<dialogVars, session, histVars>>

(* The phases connecting, qr and connected are one for the dialog, as are   *)
(* expired and error.                                                       *)
Phases == {"idle", "pairing", "saved", "error"}
Stages == {"no", "asked", "ok", "failed", "over", "dropped", "lost"}
Ended == {"saved", "error", "refused"}
Begun == {n \in Starts : start[n] # "no"}
Latest == IF Begun = {} THEN 0 ELSE CHOOSE n \in Begun : \A k \in Begun : k <= n

TypeOK ==
    /\ mount \in {0} \cup Begun /\ crossed \in BOOLEAN /\ late \in BOOLEAN
    /\ shown \in Phases \cup {"refused"} /\ session \in Phases
    /\ got \in [Asks -> Phases \cup {"none"}] /\ asked \in [Asks -> {0} \cup Begun]
    /\ start \in [Starts -> Stages]
    /\ home \in [Starts -> {0} \cup Starts] /\ poll \in [Starts -> {0} \cup polls]
    /\ cancels \cup early \cup polls \cup closing \cup done \subseteq Begun
    /\ \A n \in Begun, k \in Starts : k < n => k \in Begun

Init ==
    /\ mount = 0 /\ shown = "pairing"
    /\ start = [n \in Starts |-> "no"] /\ home = [n \in Starts |-> 0]
    /\ poll = [n \in Starts |-> 0] /\ polls = {} /\ done = {} /\ closing = {}
    /\ cancels = {} /\ session = "idle"
    /\ asked = [q \in Asks |-> 0] /\ got = [q \in Asks |-> "none"]
    /\ crossed = FALSE /\ early = {} /\ late = FALSE

-----------------------------------------------------------------------------
(* The dialog *)

(* begin(): forget what was shown, and ask the daemon to start.             *)
Begin(m) ==
    /\ Latest + 1 \in Starts
    /\ start' = [start EXCEPT ![Latest + 1] = "asked"]
    /\ home' = [home EXCEPT ![Latest + 1] = m]
    /\ done' = done \ {m} /\ shown' = "pairing" /\ late' = FALSE

(* The effect's cleanup: stopPoll, and pairCancel unless it is done.        *)
CleanUp ==
    /\ polls' = polls \ {poll[mount]} /\ poll' = [poll EXCEPT ![mount] = 0]
    /\ cancels' = IF mount \in done THEN cancels ELSE cancels \cup {Latest}
    /\ early' = early \cup {n \in Starts : start[n] \in {"asked", "ok"}}

Open ==
    /\ mount = 0 /\ mount' = Latest + 1 /\ Begin(Latest + 1)
    /\ UNCHANGED <<poll, polls, closing, cancels, asked, got, session, crossed, early>>

(* An event of the live updates renders the page: the effect runs again.    *)
Rendered ==
    /\ mount # 0 /\ CleanUp /\ Begin(mount)
    /\ UNCHANGED <<mount, closing, asked, got, session, crossed>>

(* Fault: the cleanup leaves the interval.                                  *)
CloseKeepingPoll ==
    /\ mount # 0 /\ mount' = 0
    /\ cancels' = IF mount \in done THEN cancels ELSE cancels \cup {Latest}
    /\ UNCHANGED <<shown, start, home, poll, polls, done, closing, asked, got, session, histVars>>

(* The user closes the dialog, and the page unmounts it.                    *)
Close ==
    /\ mount # 0 /\ mount' = 0 /\ CleanUp
    /\ UNCHANGED <<shown, start, home, done, closing, asked, got, session, crossed, late>>

(* The timer of a mount that is done closes the dialog that is open by then. *)
DoneTimer(m) ==
    /\ m \in closing /\ closing' = closing \ {m} /\ mount' = 0
    /\ IF mount # 0 THEN CleanUp ELSE UNCHANGED <<polls, poll, cancels, early>>
    /\ UNCHANGED <<shown, start, home, done, asked, got, session, crossed, late>>

(* The answer to pairStart.  Of several that were under way in a mount,     *)
(* each stops the interval before it and sets its own.                      *)
Started(n) ==
    LET m == home[n]
    IN  /\ start[n] \in {"ok", "failed"}
        /\ start' = [start EXCEPT ![n] = "over"]
        /\ IF start[n] = "ok"
           THEN poll' = [poll EXCEPT ![m] = n] /\ polls' = (polls \ {poll[m]}) \cup {n}
           ELSE UNCHANGED <<poll, polls>>
        /\ shown' = IF start[n] = "failed" /\ m = mount THEN "refused" ELSE shown
        /\ late' = (late /\ ~(start[n] = "ok" /\ m = mount))
        /\ UNCHANGED <<mount, home, done, closing, cancels, asked, got, session, crossed, early>>

(* The fetch of pairStart fails, or its answer is no JSON: api.rpc rejects, *)
(* which begin() does not catch.                                            *)
StartRejects(n) ==
    /\ \/ start[n] = "asked" /\ start' = [start EXCEPT ![n] = "dropped"]
       \/ start[n] \in {"ok", "failed"} /\ start' = [start EXCEPT ![n] = "lost"]
    /\ UNCHANGED <<mount, shown, home, poll, polls, done, closing, cancels, asked, got, session,
                   histVars>>

(* Retry, or Clear & retry.                                                 *)
Retry ==
    /\ mount # 0 /\ shown \in {"error", "refused"} /\ Begin(mount)
    /\ UNCHANGED <<mount, poll, polls, closing, cancels, asked, got, session, crossed, early>>

(* The interval asks for the status, whether or not the one before has been *)
(* told.                                                                    *)
AskStatus(n, q) ==
    /\ n \in polls /\ asked[q] = 0 /\ asked' = [asked EXCEPT ![q] = n]
    /\ UNCHANGED <<mount, shown, start, home, poll, polls, done, closing, cancels, got, session,
                   histVars>>

ServeStatus(q) ==
    /\ asked[q] # 0 /\ got[q] = "none" /\ got' = [got EXCEPT ![q] = session]
    /\ UNCHANGED <<mount, shown, start, home, poll, polls, done, closing, cancels, asked, session,
                   histVars>>

(* The request is over, and if it was no failure its phase is shown.        *)
Over(q) == asked' = [asked EXCEPT ![q] = 0] /\ got' = [got EXCEPT ![q] = "none"]

StatusFails(q) ==
    /\ asked[q] # 0 /\ Over(q)
    /\ UNCHANGED <<mount, shown, start, home, poll, polls, done, closing, cancels, session,
                   histVars>>

StatusComes(q) ==
    LET m == home[asked[q]]
        first == got[q] = "saved" /\ m \notin done
    IN  /\ got[q] # "none" /\ Over(q)
        /\ shown' = IF m = mount /\ shown # "refused" THEN got[q] ELSE shown
        /\ late' = (late \/ (m = mount /\ poll[m] = 0))
        /\ done' = IF first THEN done \cup {m} ELSE done
        /\ closing' = IF first THEN closing \cup {m} ELSE closing
        /\ IF first \/ got[q] = "error"
           THEN poll' = [poll EXCEPT ![m] = 0] /\ polls' = polls \ {poll[m]}
           ELSE UNCHANGED <<poll, polls>>
        /\ UNCHANGED <<mount, start, home, cancels, session, crossed, early>>

-----------------------------------------------------------------------------
(* The daemon *)

(* channel.pairStart keeps a session that is in flight, and fails if there  *)
(* is no such channel any more, or the daemon is not reached.  It is served *)
(* even if the page has given it up.                                        *)
ServeStart(n) ==
    /\ start[n] \in {"asked", "dropped"}
    /\ \E served \in BOOLEAN :
         /\ start' = [start EXCEPT ![n] = IF @ = "dropped" THEN "lost"
                                         ELSE IF served THEN "ok" ELSE "failed"]
         /\ session' = IF served THEN "pairing" ELSE session
         /\ crossed' = (crossed /\ ~served)
    /\ UNCHANGED <<mount, shown, home, poll, polls, done, closing, cancels, asked, got, early, late>>

ServeCancel(n) ==
    /\ n \in cancels /\ cancels' = cancels \ {n}
    /\ session' = "idle"
    /\ crossed' = (crossed \/ \E k \in Begun : k > n /\ start[k] \notin {"asked", "dropped"})
    /\ UNCHANGED <<mount, shown, start, home, poll, polls, done, closing, asked, got, early, late>>

SessionMoves ==
    /\ session = "pairing" /\ session' \in {"saved", "error"}
    /\ UNCHANGED <<dialogVars, histVars>>

Next ==
    \/ Open \/ Rendered \/ Close \/ Retry \/ SessionMoves
    \/ \E n \in Starts :
         DoneTimer(n) \/ Started(n) \/ StartRejects(n) \/ ServeStart(n) \/ ServeCancel(n)
    \/ \E q \in Asks :
         ServeStatus(q) \/ StatusFails(q) \/ StatusComes(q) \/ \E n \in Starts : AskStatus(n, q)

Spec == Init /\ [][Next]_vars

-----------------------------------------------------------------------------
(* Properties *)

(* No interval runs on behind a closed dialog, unless its begin() was still *)
(* waiting for the daemon at a cleanup.  An open dialog whose latest start  *)
(* was answered, and that shows a pairing in progress, polls for it, unless *)
(* the status that it shows came when its interval was stopped; and the     *)
(* daemon has a session for it, unless the cancel of an earlier effect was  *)
(* served after the start of this one.                                      *)
DialogFollows ==
    /\ \A n \in polls : n \in early \/ (mount # 0 /\ home[n] = mount)
    /\ mount # 0 /\ start[Latest] = "over" /\ shown \notin Ended =>
          (poll[mount] # 0 \/ late) /\ (session # "idle" \/ crossed)
=============================================================================
