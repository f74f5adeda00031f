------------------------------- MODULE Startup -------------------------------
(***************************************************************************)
(* What happens to the data directory before any service runs: seeding     *)
(* from the bundled templates, the run-once migrations with their ledger,  *)
(* the provider gate of setup, and `vargos sync`.  The boot process and    *)
(* the CLI's commands are processes that may overlap and may be killed;    *)
(* the user edits the same files.                                          *)
(***************************************************************************)
EXTENDS Naturals, FiniteSets, FiniteSetsExt

CONSTANTS Templates,  \* bundled files
          Managed,    \* those that `vargos sync` offers
          Procs,      \* processes at work at once
          MaxTries    \* rounds of the provider gate (5 in the code)

(* What a value for these has to satisfy.                                   *)
StartupAssumption == Managed \subseteq Templates /\ MaxTries \in Nat

VARIABLES
    disk,      \* each template's file in the data directory
    skills,    \* retired skills that are still there
    packages,  \* agent/settings.json: "adapter", "clean" or "torn"
    mcp,       \* agent/mcp.json: a server's directTools ("none" if off) and exposure
    ledger,    \* .migrations.json: the applied migrations, or Torn
    proc,      \* the processes
    mine,      \* history: files that hold the user's edit
    raced,     \* history: files edited while a process was about to copy them
    skipped,   \* history: migration 2 ran over a file that did not parse
    exposed    \* history: the user has set the server's exposure

dirVars == <<disk, skills, packages, mcp, ledger>>
history == <<mine, raced, skipped, exposed>>
vars == <<dirVars, proc, history>>

Torn == {0}  \* a ledger that cannot be parsed; migrations are numbered 1 and 2
TornMcp == [directTools |-> "none", exposure |-> "torn"]
Off == [last |-> "none", at |-> "off", todo |-> {}, file |-> {}, done |-> {}, tries |-> 0]

Process == [at: {"off", "seed", "copy", "ledger", "migrate", "skills", "packages", "mcp", "record",
                 "provider", "sync"},
            last: {"none", "seed", "migrate", "provider"},
            todo: SUBSET Templates, file: SUBSET Templates, done: SUBSET {1, 2},
            tries: 0..MaxTries]

TypeOK ==
    /\ disk \in [Templates -> {"none", "torn", "old", "bundled", "edited"}]
    /\ skills \subseteq {1, 2}
    /\ packages \in {"adapter", "clean", "torn"}
    /\ mcp \in [directTools: {"none", "true", "some"},
                exposure: {"unset", "direct", "perTool", "user", "torn"}]
    /\ ledger \in {Torn} \cup SUBSET {1, 2}
    /\ {skipped, exposed} \subseteq BOOLEAN
    /\ proc \in [Procs -> Process]
    /\ mine \cup raced \subseteq Templates

(* A new data directory, or one made by an earlier version.                 *)
Init ==
    /\ \/ /\ disk = [f \in Templates |-> "none"] /\ skills = {} /\ packages = "clean"
          /\ mcp = [directTools |-> "none", exposure |-> "unset"]
       \/ /\ disk \in [Templates -> {"none", "old", "bundled"}]
          /\ skills = {1, 2} /\ packages = "adapter"
          /\ mcp \in [directTools: {"none", "true", "some"}, exposure: {"unset"}]
    /\ ledger = {}
    /\ proc = [p \in Procs |-> Off]
    /\ mine = {} /\ raced = {} /\ skipped = FALSE /\ exposed = FALSE

Goto(p, at) == proc' = [proc EXCEPT ![p].at = at]
Exit(p) == proc' = [proc EXCEPT ![p] = Off]

-----------------------------------------------------------------------------
(* Commands.  boot.ts seeds and migrates; setup then asks for a provider;   *)
(* chat only seeds; the config menu only migrates.  `start` (and a bare     *)
(* `vargos`) goes through setup if the install is not ready, otherwise it   *)
(* boots at once; whether a provider is configured is left open.            *)

Commands == [boot |-> "migrate", chat |-> "seed", config |-> "migrate", setup |-> "provider"]

Start(p, cmd) ==
    /\ proc[p] = Off
    /\ proc' = [proc EXCEPT ![p] =
                  IF cmd = "config" THEN [Off EXCEPT !.last = Commands[cmd], !.at = "ledger"]
                  ELSE [Off EXCEPT !.last = Commands[cmd], !.at = "seed", !.todo = Templates]]
    /\ UNCHANGED <<dirVars, history>>

(* What is there and differs from its bundled file.                         *)
Conflicts == {f \in Managed : disk[f] \in {"torn", "old", "edited"}}

(* `vargos sync`: the user picks from what differs among the managed files. *)
Sync(p) ==
    /\ proc[p] = Off
    /\ \E chosen \in SUBSET Conflicts \ {{}} :
         /\ proc' = [proc EXCEPT ![p] = [Off EXCEPT !.at = "sync", !.todo = chosen]]
         /\ mine' = mine \ chosen
    /\ UNCHANGED <<dirVars, raced, skipped, exposed>>

-----------------------------------------------------------------------------
(* lib/templates *)

(* Fault: whatever differs from the bundle is brought up to date.           *)
SeedNextOver(p) ==
    /\ proc[p].at = "seed"
    /\ IF proc[p].todo = {}
       THEN IF proc[p].last = "seed" THEN Exit(p) ELSE Goto(p, "ledger")
       ELSE \E f \in proc[p].todo :
              proc' = [proc EXCEPT ![p].todo = @ \ {f},
                                   ![p].file = IF disk[f] # "bundled" THEN {f} ELSE {},
                                   ![p].at = IF disk[f] # "bundled" THEN "copy" ELSE "seed"]
    /\ UNCHANGED <<dirVars, history>>

(* seedDataDir: existsSync of one file; a missing one is copied, after the  *)
(* wait for mkdir.                                                          *)
SeedNext(p) ==
    /\ proc[p].at = "seed"
    /\ IF proc[p].todo = {}
       THEN IF proc[p].last = "seed" THEN Exit(p) ELSE Goto(p, "ledger")
       ELSE \E f \in proc[p].todo :
              proc' = [proc EXCEPT ![p].todo = @ \ {f},
                                   ![p].file = IF disk[f] = "none" THEN {f} ELSE {},
                                   ![p].at = IF disk[f] = "none" THEN "copy" ELSE "seed"]
    /\ UNCHANGED <<dirVars, history>>

Copy(p) ==
    /\ proc[p].at = "copy"
    /\ disk' = [f \in Templates |-> IF f \in proc[p].file THEN "bundled" ELSE disk[f]]
    /\ proc' = [proc EXCEPT ![p].at = "seed", ![p].file = {}]
    /\ UNCHANGED <<skills, packages, mcp, ledger, history>>

OverrideTemplates(p) ==
    /\ proc[p].at = "sync"
    /\ \E f \in proc[p].todo :
         /\ disk' = [disk EXCEPT ![f] = "bundled"]
         /\ IF proc[p].todo = {f} THEN Exit(p) ELSE proc' = [proc EXCEPT ![p].todo = @ \ {f}]
    /\ UNCHANGED <<skills, packages, mcp, ledger, history>>

-----------------------------------------------------------------------------
(* lib/migrate *)

(* applyMigrations reads the ledger once; one that does not parse counts    *)
(* as empty.                                                                *)
ReadLedger(p) ==
    /\ proc[p].at = "ledger"
    /\ proc' = [proc EXCEPT ![p].at = "migrate", ![p].done = IF ledger = Torn THEN {} ELSE ledger]
    /\ UNCHANGED <<dirVars, history>>

Pending(p) == {1, 2} \ proc[p].done
Current(p) == Min(Pending(p))

NextMigration(p) ==
    /\ proc[p].at = "migrate"
    /\ IF Pending(p) # {} THEN Goto(p, IF Current(p) = 1 THEN "skills" ELSE "packages")
       ELSE IF proc[p].last = "provider" THEN Goto(p, "provider") ELSE Exit(p)
    /\ UNCHANGED <<dirVars, history>>

(* 001: the retired skills are removed, one after the other.                *)
RemoveSkills(p) ==
    /\ proc[p].at = "skills"
    /\ IF skills = {} THEN Goto(p, "record") /\ UNCHANGED skills
       ELSE skills' = skills \ {Min(skills)} /\ UNCHANGED proc
    /\ UNCHANGED <<disk, packages, mcp, ledger, history>>

(* 002: settings.json, then mcp.json.  A file that does not parse is passed *)
(* over, and the migration counts as applied.                               *)
RemoveAdapter(p) ==
    /\ proc[p].at = "packages"
    /\ packages' = IF packages = "adapter" THEN "clean" ELSE packages
    /\ skipped' = (skipped \/ packages = "torn")
    /\ Goto(p, "mcp")
    /\ UNCHANGED <<disk, skills, mcp, ledger, mine, raced, exposed>>

(* migrateServer: directTools becomes an exposure where there is none yet.  *)
Migrated(server) ==
    [directTools |-> "none",
     exposure |-> IF server.exposure # "unset" THEN server.exposure
                  ELSE CASE server.directTools = "true" -> "direct"
                         [] server.directTools = "some" -> "perTool"
                         [] OTHER -> "unset"]

MigrateServers(p) ==
    /\ proc[p].at = "mcp"
    /\ mcp' = IF mcp = TornMcp THEN mcp ELSE Migrated(mcp)
    /\ skipped' = (skipped \/ mcp = TornMcp)
    /\ Goto(p, "record")
    /\ UNCHANGED <<disk, skills, packages, ledger, mine, raced, exposed>>

Record(p) ==
    LET done == proc[p].done \cup {Current(p)}
    IN  /\ proc[p].at = "record"
        /\ ledger' = done
        /\ proc' = [proc EXCEPT ![p].done = done, ![p].at = "migrate"]
        /\ UNCHANGED <<disk, skills, packages, mcp, history>>

(* run() or the ledger's write throws: the rest waits for the next run.     *)
MigrationFails(p) ==
    /\ proc[p].at \in {"skills", "packages", "mcp", "record"}
    /\ IF proc[p].last = "provider" THEN Goto(p, "provider") ELSE Exit(p)
    /\ UNCHANGED <<dirVars, history>>

-----------------------------------------------------------------------------
(* The provider gate of runSetup: up to five rounds of questions, then      *)
(* exit 1; the doctors and the optional channel follow.                     *)
Provider(p) ==
    /\ proc[p].at = "provider"
    /\ \/ Exit(p)
       \/ proc[p].tries < MaxTries /\ proc' = [proc EXCEPT ![p].tries = @ + 1]
    /\ UNCHANGED <<dirVars, history>>

(* The process is killed.  A copy or a write under way is cut short.        *)
Killed(p) ==
    LET at == proc[p].at
    IN  /\ at # "off"
        /\ Exit(p)
        /\ disk' \in {disk} \cup
             {[disk EXCEPT ![f] = "torn"] : f \in IF at = "sync" THEN proc[p].todo
                                                  ELSE IF at = "copy" THEN proc[p].file ELSE {}}
        /\ ledger' \in {ledger} \cup IF at = "record" THEN {Torn} ELSE {}
        /\ packages' \in {packages} \cup IF at = "packages" /\ packages = "adapter" THEN {"torn"} ELSE {}
        /\ mcp' \in {mcp} \cup IF at = "mcp" /\ mcp.directTools # "none" THEN {TornMcp} ELSE {}
        /\ raced' = raced \cup {f \in mine : disk'[f] = "torn"}
        /\ UNCHANGED <<skills, mine, skipped, exposed>>

-----------------------------------------------------------------------------
(* The user *)

EditTemplate(f) ==
    /\ disk' = [disk EXCEPT ![f] = "edited"]
    /\ mine' = mine \cup {f}
    /\ raced' = IF \E p \in Procs : \/ f \in proc[p].file
                                    \/ proc[p].at = "sync" /\ f \in proc[p].todo
                THEN raced \cup {f} ELSE raced \ {f}
    /\ UNCHANGED <<skills, packages, mcp, ledger, proc, skipped, exposed>>

(* mcp.json: a server's exposure is set, or the file is broken for a while. *)
EditMcp ==
    /\ \/ mcp # TornMcp /\ mcp' = [mcp EXCEPT !.exposure = "user"] /\ exposed' = TRUE
       \/ mcp = TornMcp /\ exposed' = FALSE
          /\ mcp' \in [directTools: {"true", "some", "none"}, exposure: {"unset"}]
       \/ ~exposed /\ mcp' = TornMcp /\ UNCHANGED exposed
    /\ UNCHANGED <<disk, skills, packages, ledger, proc, mine, raced>>
    /\ skipped' = (skipped \/ mcp = TornMcp)

Next ==
    \/ \E p \in Procs :
         \/ \E cmd \in DOMAIN Commands : Start(p, cmd)
         \/ Sync(p) \/ SeedNext(p) \/ Copy(p) \/ OverrideTemplates(p)
         \/ ReadLedger(p) \/ NextMigration(p) \/ RemoveSkills(p) \/ RemoveAdapter(p)
         \/ MigrateServers(p) \/ Record(p) \/ MigrationFails(p) \/ Provider(p) \/ Killed(p)
    \/ \E f \in Templates : EditTemplate(f)
    \/ EditMcp

Spec == Init /\ [][Next]_vars

-----------------------------------------------------------------------------
(* Properties *)

(* What the user wrote stays: a template's file that was edited is replaced *)
(* only if the user picked it in `vargos sync` (or wrote it at the moment   *)
(* that a process was about to copy it), and an exposure that was set       *)
(* survives the migration however often a lost ledger, a crash or a second  *)
(* process makes it run again.                                              *)
EditsStay ==
    /\ \A f \in mine \ raced : disk[f] = "edited"
    /\ exposed /\ mcp # TornMcp => mcp.exposure = "user"

(* A migration that the ledger records has been applied, unless it ran over *)
(* a file that did not parse: a crash between the files and the ledger, a   *)
(* torn ledger and two processes that migrate at once lose nothing.         *)
RecordedIsApplied ==
    ledger # Torn =>
        /\ 1 \in ledger => skills = {}
        /\ 2 \in ledger /\ ~skipped => packages # "adapter" /\ mcp.directTools = "none"
=============================================================================
