----------------------------- MODULE MCConsole -----------------------------
(***************************************************************************)
(* The two services that watch the data directory for changes, in one run: *)
(* a behaviour is one of Console, the page of the web console and what     *)
(* keeps it up to date, or of Memory, the index of the workspace, with the *)
(* other in its initial state.                                             *)
(***************************************************************************)
EXTENDS Console, TLC

CONSTANTS Notes, Transcripts, Versions, CutInto(_), MaxPieces, DocLines, Jobs, Nobody

VARIABLES part,
    disk, latest, chunks, rows, status, running, watching, timers, job, hits, dirty

M == INSTANCE Memory WITH Files <- Notes, Sessions <- Transcripts, Lines <- DocLines,
                          Pieces <- CutInto

ASSUME IndexAssumption == M!MemoryAssumption

memoryVars == <<disk, latest, chunks, rows, status, running, watching, timers, job, hits, dirty>>
allVars == <<part, vars, memoryVars>>

AllInit == part \in {"console", "memory"} /\ Init /\ M!Init

ConsoleStep == part = "console" /\ Next /\ UNCHANGED <<part, memoryVars>>
MemoryStep == part = "memory" /\ M!Next /\ UNCHANGED <<part, vars>>

AllNext == ConsoleStep \/ MemoryStep

AllSpec == AllInit /\ [][AllNext]_allVars

(* Memory: once a file is left alone, its index holds exactly its chunks.   *)
IndexKept == part = "memory" => M!TypeOK /\ M!IndexFollowsFile

(* An odd version of a file is cut into two chunks, an even one into one.   *)
OddIsLonger(v) == IF v % 2 = 1 THEN 2 ELSE 1

Symmetry == Permutations(Jobs)
=============================================================================
