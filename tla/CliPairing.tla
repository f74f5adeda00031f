----------------------------- MODULE CliPairing -----------------------------
(***************************************************************************)
(* `vargos channel pair <id> [--reset]`: a process of its own that pairs a *)
(* WhatsApp account into the auth directory of a channel, beside a daemon  *)
(* whose adapter may use the same directory.                               *)
(*                                                                         *)
(* Baileys and WhatsApp are outside the repository: a socket that finds no *)
(* login in the directory asks for a QR code; the scan closes it, and the  *)
(* next one logs in; the later of two logins ends the earlier one.         *)
(***************************************************************************)
EXTENDS Naturals

CONSTANTS MaxRestarts, \* how often restart_required is followed: 5 in the code
          MaxUpdates,  \* bound on creds.update events
          MaxStarts    \* bound on starts of the daemon's adapter

PairingAssumption == {MaxRestarts, MaxUpdates, MaxStarts} \subseteq Nat

VARIABLES
    reset,     \* --reset was given
    cli,       \* where the command is
    adapter,   \* the daemon's adapter of the channel; "down" without a daemon
    dir,       \* creds.json: none, of a login that is no good, of a good one, or torn
    login,     \* what the command's socket has read or has got
    shown, connected, restarts, \* pairWhatsApp's qrShown, connected and restarts
    saves,     \* creds.json writes of the command that have not ended
    updates, starts,
    \* history
    kicked,    \* the command ended a session of the adapter
    later,     \* the adapter connected after the guard had asked about it
    blind,     \* the guard got no answer, and the adapter was connected
    touched,   \* the adapter wrote creds.json after the guard
    more       \* creds.update came again during a write or after the last

daemonVars == <<adapter, starts>>
cliVars == <<cli, login, shown, connected, restarts>>
saveVars == <<saves, updates>>
histVars == <<kicked, later, blind, touched, more>>
vars == <<reset, cliVars, daemonVars, dir, saveVars, histVars>>

Waiting == cli = "waiting" \* the promise of pairWhatsApp is not settled

TypeOK ==
    /\ reset \in BOOLEAN
    /\ cli \in {"guard", "refused", "prepare", "connect", "waiting", "saved", "done", "failed", "gone"}
    /\ adapter \in {"down", "error", "connecting", "connected"}
    /\ dir \in {"none", "stale", "paired", "torn"}
    /\ login \in {"none", "stale", "scanned", "in"}
    /\ {shown, connected, kicked, later, blind, touched, more} \subseteq BOOLEAN
    /\ restarts \in 0..MaxRestarts + 1
    /\ saves \in 0..MaxUpdates /\ updates \in 0..MaxUpdates
    /\ starts \in 0..MaxStarts

Init ==
    /\ reset \in BOOLEAN
    /\ cli = "guard"
    /\ adapter \in {"down", "error", "connecting", "connected"}
    /\ dir \in IF adapter = "connected" THEN {"paired"} ELSE {"none", "stale", "paired"}
    /\ login = "none"
    /\ shown = FALSE /\ connected = FALSE /\ restarts = 0
    /\ saves = 0 /\ updates = 0 /\ starts = 0
    /\ kicked = FALSE /\ later = FALSE /\ blind = FALSE /\ touched = FALSE /\ more = FALSE

-----------------------------------------------------------------------------
(* The daemon *)

(* The daemon starts, or somebody restarts the channel.                     *)
AdapterStarts ==
    /\ adapter \in {"down", "error"} /\ starts < MaxStarts
    /\ starts' = starts + 1
    /\ adapter' = "connecting"
    /\ UNCHANGED <<reset, cliVars, dir, saveVars, histVars>>

(* It logs in with what it finds; a login of the command is replaced.       *)
AdapterConnects ==
    /\ adapter = "connecting" /\ dir = "paired"
    /\ adapter' = "connected"
    /\ later' = (later \/ cli # "guard")
    /\ IF login = "in" /\ Waiting THEN cli' = "failed" ELSE UNCHANGED cli
    /\ UNCHANGED <<reset, login, shown, connected, restarts, starts, dir, saveVars, kicked,
                   blind, touched, more>>

(* Without one it asks for a QR code, which the daemon takes for an error.  *)
AdapterFails ==
    /\ adapter \in {"connecting", "connected"}
    /\ adapter' = "error"
    /\ UNCHANGED <<reset, cliVars, starts, dir, saveVars, histVars>>

(* Its saveCreds, with the login it was started with: fails without a       *)
(* directory.                                                               *)
AdapterSaves ==
    /\ adapter \in {"connecting", "connected"} /\ dir # "none"
    /\ dir' \in {"stale", "paired"}
    /\ adapter = "connected" => dir' = "paired"
    /\ touched' = (touched \/ cli # "guard")
    /\ UNCHANGED <<reset, cliVars, daemonVars, saveVars, kicked, later, blind, more>>

-----------------------------------------------------------------------------
(* pairChannel *)

(* Fault: the guard goes by whether the channel is known to the daemon.     *)
GuardKnown ==
    /\ cli = "guard"
    /\ cli' = IF adapter = "error" THEN "refused" ELSE "prepare"
    /\ UNCHANGED <<reset, login, shown, connected, restarts, daemonVars, dir, saveVars, histVars>>

(* isUp() and channel.get: a connected channel is not paired again.  But    *)
(* the command goes on without an answer: the daemon does not listen, as    *)
(* while it boots or drains, or the call fails.                             *)
Guard ==
    /\ cli = "guard"
    /\ \E answered \in BOOLEAN :
         /\ cli' = IF answered /\ adapter = "connected" THEN "refused" ELSE "prepare"
         /\ blind' = (~answered /\ adapter = "connected")
    /\ UNCHANGED <<reset, login, shown, connected, restarts, daemonVars, dir, saveVars, kicked,
                   later, touched, more>>

Prepare ==
    /\ cli = "prepare"
    /\ cli' = "connect"
    /\ dir' = IF reset THEN "none" ELSE dir
    /\ UNCHANGED <<reset, login, shown, connected, restarts, daemonVars, saveVars, histVars>>

(* A socket with what creds.json says; a write under way is over before.    *)
Connect ==
    /\ cli = "connect" /\ saves = 0
    /\ cli' = "waiting"
    /\ login' = CASE dir \in {"none", "torn"} -> "none"
                  [] dir = "stale" -> "stale"
                  [] dir = "paired" -> "scanned"
    /\ UNCHANGED <<reset, shown, connected, restarts, daemonVars, dir, saveVars, histVars>>

(* The QR code is shown, but a second one ends the command.                 *)
ShowQr ==
    /\ Waiting /\ login = "none"
    /\ IF shown THEN cli' = "failed" /\ UNCHANGED shown
                ELSE shown' = TRUE /\ UNCHANGED cli
    /\ UNCHANGED <<reset, login, connected, restarts, daemonVars, dir, saveVars, histVars>>

(* creds.update: saveCreds writes the file.                                 *)
CredsUpdate ==
    /\ updates < MaxUpdates
    /\ updates' = updates + 1
    /\ saves' = saves + 1
    /\ more' = (more \/ saves > 0 \/ cli = "saved")

Scan ==
    /\ Waiting /\ login = "none" /\ shown
    /\ login' = "scanned"
    /\ CredsUpdate
    /\ UNCHANGED <<reset, cli, shown, connected, restarts, daemonVars, dir, kicked, later, blind,
                   touched>>

Update ==
    /\ cli \in {"waiting", "saved"} /\ login \in {"scanned", "in"}
    /\ CredsUpdate
    /\ UNCHANGED <<reset, cliVars, daemonVars, dir, kicked, later, blind, touched>>

(* connection.open: noted, but the promise waits for a write.               *)
Opened ==
    /\ Waiting /\ login = "scanned" /\ (shown => restarts > 0)
    /\ login' = "in" /\ connected' = TRUE
    /\ kicked' = (kicked \/ adapter = "connected")
    /\ adapter' = IF adapter = "connected" THEN "error" ELSE adapter
    /\ UNCHANGED <<reset, cli, shown, restarts, starts, dir, saveVars, later, blind, touched,
                   more>>

(* onCredsSaved                                                             *)
WriteEnds ==
    /\ saves > 0
    /\ saves' = saves - 1
    /\ dir' = "paired"
    /\ cli' = IF Waiting /\ connected THEN "saved" ELSE cli
    /\ UNCHANGED <<reset, login, shown, connected, restarts, daemonVars, updates, histVars>>

(* The connection closes: restart_required comes after a scan and is        *)
(* followed, any other reason is the end.                                   *)
Closed ==
    /\ Waiting
    /\ \/ /\ login = "scanned" /\ restarts < MaxRestarts
          /\ cli' = "connect" /\ restarts' = restarts + 1
       \/ cli' = "failed" /\ UNCHANGED restarts
    /\ login' = "none"
    /\ UNCHANGED <<reset, shown, connected, daemonVars, dir, saveVars, histVars>>

(* process.exit cuts a write short.                                         *)
Exit ==
    /\ cli \in {"saved", "failed"}
    /\ cli' = IF cli = "saved" THEN "done" ELSE "gone"
    /\ dir' = IF saves > 0 THEN "torn" ELSE dir
    /\ saves' = 0
    /\ UNCHANGED <<reset, login, shown, connected, restarts, daemonVars, updates, histVars>>

Next ==
    \/ AdapterStarts \/ AdapterConnects \/ AdapterFails \/ AdapterSaves
    \/ Guard \/ Prepare \/ Connect \/ ShowQr \/ Scan \/ Update \/ Opened \/ WriteEnds
    \/ Closed \/ Exit

Spec == Init /\ [][Next]_vars

-----------------------------------------------------------------------------

(* The command ends a running session of the daemon only if it connected    *)
(* after the guard (cli.ts:217) had asked for its state, or if the guard    *)
(* got no answer about it.                                                  *)
KicksOnlyLater == kicked => later \/ blind

(* When the command says that it is done, a login went through and its      *)
(* credentials are on disk, unless the adapter wrote its own over them, or  *)
(* more of them came while the last were written, or later (channels.ts:82).*)
DoneMeansPaired == cli = "done" => connected /\ (dir = "paired" \/ touched \/ more)
=============================================================================
