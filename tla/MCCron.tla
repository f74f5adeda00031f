------------------------------- MODULE MCCron -------------------------------
(***************************************************************************)
(* The cron service, and the commands that prepare the data directory      *)
(* before the daemon starts it, in one run: a behaviour is one of Cron or  *)
(* Startup, with the other in an initial state.                            *)
(***************************************************************************)
EXTENDS Cron, TLC

CONSTANTS Templates, Managed, Procs, MaxTries

VARIABLES part,
    data, skills, packages, mcp, ledger, proc, mine, raced, skipped, exposed

U == INSTANCE Startup WITH disk <- data

ASSUME CommandsAssumption == U!StartupAssumption

dirVars == <<data, skills, packages, mcp, ledger, proc, mine, raced, skipped, exposed>>
allVars == <<part, vars, dirVars>>

AllInit ==
    /\ part \in {"cron", "startup"}
    /\ part # "startup" => skills = {} /\ packages = "clean"
    /\ Init /\ U!Init

CronStep == part = "cron" /\ Next /\ UNCHANGED <<part, dirVars>>
StartupStep == part = "startup" /\ U!Next /\ UNCHANGED <<part, vars>>

AllNext == CronStep \/ StartupStep

AllSpec == AllInit /\ [][AllNext]_allVars

(* Startup: the files that the commands write, and what they hold when they *)
(* are done.                                                                *)
FilesKept == part = "startup" => U!TypeOK /\ U!EditsStay /\ U!RecordedIsApplied

(* Interchangeable: calls of the cron service, fires; commands.             *)
Symmetry == Permutations(Calls) \cup Permutations(Fires) \cup Permutations(Procs)
=============================================================================
