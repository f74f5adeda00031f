------------------------------- MODULE Memory -------------------------------
(***************************************************************************)
(* The memory service: the index (a map in memory and rows in the storage) *)
(* of the Markdown files of the workspace and of the session transcripts.  *)
(* It is the Postgres variant, where every storage call waits; with SQLite *)
(* and no embeddings the same steps run without a gap after the stat().    *)
(*                                                                         *)
(* A file's content is its version, which is its mtime and size as well;   *)
(* version v is cut into Pieces(v) chunks, whose ids are <<file, 1>>, ...  *)
(* A transcript has Lines lines all along, each of them a chunk: the agent  *)
(* only appends to it, and what it appends gets ids of its own.             *)
(***************************************************************************)
EXTENDS Naturals, FiniteSets

CONSTANTS Files,       \* Markdown files
          Sessions,    \* transcripts (*.jsonl)
          Versions,    \* the bound on writes: versions are used in order
          Pieces(_),   \* the chunks a version is cut into
          MaxPieces,
          Lines,       \* the lines of each transcript
          Jobs,        \* calls of sync(), reindex() or indexFile() that may be under way at once
          Nobody

(* What a value for these has to satisfy.                                   *)
MemoryAssumption ==
    /\ Versions \subseteq Nat \ {0}
    /\ MaxPieces \in Nat /\ Lines \in Nat
    /\ \A v \in Versions : Pieces(v) \in 1..MaxPieces
    /\ 1..Lines \subseteq Versions /\ Lines <= MaxPieces
    /\ Files \cap Sessions = {} /\ Nobody \notin Files

VARIABLES
    disk,      \* each file's version, 0 if there is none
    latest,    \* the last version that was written
    chunks,    \* MemoryContext.chunks: id -> version, 0 if absent
    rows,      \* the chunks table
    status,    \* the files table: the mtime a file was indexed with, 0 without a row
    running,   \* the process is up
    watching,  \* the file watcher is on
    timers,    \* files with a debounce timer of the watcher
    job,       \* the calls under way
    hits,      \* a row that searchSimilar has read and search() has not merged
    dirty      \* history: files whose last indexing was not a clean one

diskVars == <<disk, latest>>
indexVars == <<chunks, rows, status>>
vars == <<diskVars, indexVars, running, watching, timers, job, hits, dirty>>

Docs == Files \cup Sessions
Ids == Docs \X (1..MaxPieces)
Idle == [at |-> "idle", file |-> Nobody, sync |-> "no", todo |-> {},
         read |-> 0, mtime |-> 0, k |-> 0, alone |-> TRUE]
NoHit == [id |-> Nobody, version |-> 0]

Working == {"check", "row", "read", "delete", "save", "status"}

Job == [at: Working \cup {"idle", "next", "track", "stale", "gone"},
        file: Files \cup {Nobody}, sync: {"no", "due", "forced"}, todo: SUBSET Files,
        read: Versions \cup {0}, mtime: Versions \cup {0}, k: 0..MaxPieces, alone: BOOLEAN]

TypeOK ==
    /\ disk \in [Files -> Versions \cup {0}]
    /\ latest \in Versions \cup {0}
    /\ {chunks, rows} \subseteq [Ids -> Versions \cup {0}]
    /\ status \in [Files -> Versions \cup {0}]
    /\ {running, watching} \subseteq BOOLEAN
    /\ timers \cup dirty \subseteq Files
    /\ job \in [Jobs -> Job]
    /\ hits = NoHit \/ hits \in [id: Ids, version: Versions]

Init ==
    /\ disk = [f \in Files |-> 0] /\ latest = 0
    /\ chunks = [i \in Ids |-> 0] /\ rows = chunks
    /\ status = [f \in Files |-> 0]
    /\ running = FALSE /\ watching = FALSE
    /\ timers = {} /\ hits = NoHit /\ dirty = {}
    /\ job = [j \in Jobs |-> Idle]

-----------------------------------------------------------------------------
(* The workspace.  Anybody may write or delete a file: the agent's tools,   *)
(* an editor, git.  The watcher debounces; what happens while it is off is  *)
(* left to the next sync().                                                 *)

Noticed(f) ==
    IF watching THEN timers' = timers \cup {f} /\ UNCHANGED dirty
                ELSE dirty' = dirty \cup {f} /\ UNCHANGED timers

FileWritten(f) ==
    /\ latest + 1 \in Versions
    /\ latest' = latest + 1
    /\ disk' = [disk EXCEPT ![f] = latest + 1]
    /\ Noticed(f)
    /\ UNCHANGED <<indexVars, running, watching, job, hits>>

FileDeleted(f) ==
    /\ disk[f] # 0
    /\ disk' = [disk EXCEPT ![f] = 0]
    /\ Noticed(f)
    /\ UNCHANGED <<latest, indexVars, running, watching, job, hits>>

-----------------------------------------------------------------------------
(* Indexing one file *)

On(f) == {j \in Jobs : job[j].at \in Working /\ job[j].file = f}
Of(f) == {i \in Ids : i[1] = f}
Without(table, f) == [i \in Ids |-> IF i \in Of(f) THEN 0 ELSE table[i]]

(* indexFile begins, or the check before it; two at work on one file spoil  *)
(* each other's run.                                                        *)
Spoiled(f) == [k \in Jobs |-> IF k \in On(f) THEN [job[k] EXCEPT !.alone = FALSE] ELSE job[k]]

Begin(j, f, stage, todo) ==
    /\ job' = [Spoiled(f) EXCEPT ![j] = [Idle EXCEPT !.at = stage, !.file = f, !.alone = On(f) = {},
                                          !.todo = todo, !.sync = job[j].sync]]
    /\ dirty' = IF On(f) = {} THEN dirty ELSE dirty \cup {f}

(* A job is done with its file: a sync goes on to the next one.             *)
Done(j) ==
    job' = [job EXCEPT ![j] = IF @.sync = "no" THEN Idle
                              ELSE [Idle EXCEPT !.at = "next", !.todo = job[j].todo, !.sync = job[j].sync]]

(* fs.readFile, then fs.stat, then removeFileChunks.  A file that is gone   *)
(* ends the run with a log line, and its chunks stay.                       *)
ReadFile(j) ==
    LET f == job[j].file
    IN  /\ job[j].at = "read" /\ job[j].read = 0 /\ disk[f] # 0
        /\ job' = [job EXCEPT ![j].read = disk[f]]
        /\ UNCHANGED <<diskVars, indexVars, running, watching, timers, hits, dirty>>

(* Fault: the map is left for the inserts to overwrite.                     *)
StatFileKeepingChunks(j) ==
    /\ job[j].at = "read" /\ job[j].read # 0 /\ disk[job[j].file] # 0
    /\ job' = [job EXCEPT ![j].at = "delete", ![j].mtime = disk[job[j].file]]
    /\ UNCHANGED <<diskVars, indexVars, running, watching, timers, hits, dirty>>

StatFile(j) ==
    LET f == job[j].file
    IN  /\ job[j].at = "read" /\ job[j].read # 0 /\ disk[f] # 0
        /\ job' = [job EXCEPT ![j].at = "delete", ![j].mtime = disk[f]]
        /\ chunks' = Without(chunks, f)
        /\ UNCHANGED <<diskVars, rows, status, running, watching, timers, hits, dirty>>

(* deleteChunksByPath; createChunks and the embeddings follow, and the      *)
(* first chunk goes into the map while its row is being saved.              *)
DeleteChunks(j) ==
    LET f == job[j].file
    IN  /\ job[j].at = "delete"
        /\ rows' = Without(rows, f)
        /\ chunks' = [chunks EXCEPT ![<<f, 1>>] = job[j].read]
        /\ job' = [job EXCEPT ![j].at = "save", ![j].k = 1]
        /\ UNCHANGED <<diskVars, status, running, watching, timers, hits, dirty>>

SaveChunk(j) ==
    LET f == job[j].file  k == job[j].k  v == job[j].read
    IN  /\ job[j].at = "save"
        /\ rows' = [rows EXCEPT ![<<f, k>>] = v]
        /\ IF k < Pieces(v)
           THEN /\ chunks' = [chunks EXCEPT ![<<f, k + 1>>] = v]
                /\ job' = [job EXCEPT ![j].k = k + 1]
           ELSE /\ job' = [job EXCEPT ![j].at = "status"]
                /\ UNCHANGED chunks
        /\ UNCHANGED <<diskVars, status, running, watching, timers, hits, dirty>>

(* updateFileStatus.  The run was clean if it was alone on the file and     *)
(* read what it recorded the mtime of.                                      *)
UpdateStatus(j) ==
    LET f == job[j].file
    IN  /\ job[j].at = "status"
        /\ status' = [status EXCEPT ![f] = job[j].mtime]
        /\ dirty' = IF job[j].alone /\ job[j].read = job[j].mtime
                       /\ (disk[f] = job[j].mtime \/ f \in timers)
                    THEN dirty \ {f} ELSE dirty \cup {f}
        /\ Done(j)
        /\ UNCHANGED <<diskVars, chunks, rows, running, watching, timers, hits>>

(* The catch of indexFile: the file is gone, or a storage call fails.       *)
IndexFails(j) ==
    /\ job[j].at \in {"read", "delete", "save", "status"}
    /\ job[j].at = "read" => disk[job[j].file] = 0
    /\ dirty' = dirty \cup {job[j].file}
    /\ Done(j)
    /\ UNCHANGED <<diskVars, indexVars, running, watching, timers, hits>>

-----------------------------------------------------------------------------
(* Callers of indexFile *)

(* memory.write: the file, then its index, whatever the watcher does.       *)
WriteFile(j, f) ==
    /\ running /\ watching /\ job[j].at = "idle" /\ latest + 1 \in Versions
    /\ latest' = latest + 1
    /\ disk' = [disk EXCEPT ![f] = latest + 1]
    /\ timers' = timers \cup {f}
    /\ Begin(j, f, "read", {})
    /\ UNCHANGED <<indexVars, running, watching, hits>>

(* 500 ms after the last change of f that the watcher saw.                  *)
TimerFires(j, f) ==
    /\ f \in timers /\ job[j].at = "idle"
    /\ timers' = timers \ {f}
    /\ Begin(j, f, "read", {})
    /\ UNCHANGED <<diskVars, indexVars, running, watching, hits>>

(* sync(): glob, then file by file.  lastSync is set when a sync ends, so   *)
(* several may be under way; within five seconds of one, sync() returns.    *)
(* A forced one indexes every file, whatever the check of it says.          *)
StartSync(j, sync) ==
    job' = [job EXCEPT ![j] = [Idle EXCEPT !.at = "next", !.sync = sync,
                                           !.todo = {f \in Files : disk[f] # 0}]]

Sync(j) ==
    /\ running /\ watching /\ job[j].at = "idle"
    /\ StartSync(j, "due")
    /\ UNCHANGED <<diskVars, indexVars, running, watching, timers, hits, dirty>>

NextFile(j) ==
    /\ job[j].at = "next"
    /\ \E f \in job[j].todo : Begin(j, f, IF job[j].sync = "due" THEN "check" ELSE "read",
                                     job[j].todo \ {f})
    /\ UNCHANGED <<diskVars, indexVars, running, watching, timers, hits>>

(* checkNeedsReindex: stat, then the row of the files table.                *)
CheckNeedsReindex(j) ==
    LET f == job[j].file
    IN  /\ \/ /\ job[j].at = "check"
              /\ job' = [job EXCEPT ![j].at = IF disk[f] = 0 THEN "read" ELSE "row",
                                    ![j].mtime = disk[f]]
           \/ /\ job[j].at = "row"
              /\ IF status[f] # job[j].mtime
                 THEN job' = [job EXCEPT ![j].at = "read", ![j].mtime = 0]
                 ELSE Done(j)
        /\ UNCHANGED <<diskVars, indexVars, running, watching, timers, hits, dirty>>

(* indexSessions and the end of sync(): every line of every transcript.     *)
IndexSessions(j) ==
    LET lines == {i \in Ids : i[1] \in Sessions /\ i[2] <= Lines}
    IN  /\ job[j].at = "next" /\ job[j].todo = {}
        /\ chunks' = [i \in Ids |-> IF i \in lines THEN i[2] ELSE chunks[i]]
        /\ rows' = [i \in Ids |-> IF i \in lines THEN i[2] ELSE rows[i]]
        /\ job' = [job EXCEPT ![j] = Idle]
        /\ UNCHANGED <<diskVars, status, running, watching, timers, hits, dirty>>

(* memory.reindex: the files there are, then the rows of the files table;   *)
(* with none of a file that is gone, the forced sync follows.               *)
Reindex(j) ==
    LET gone == {f \in Files : disk[f] = 0}
    IN  /\ running /\ watching /\ job[j].at = "idle"
        /\ IF gone = {} THEN StartSync(j, "forced")
           ELSE job' = [job EXCEPT ![j] = [Idle EXCEPT !.at = "track", !.todo = gone]]
        /\ UNCHANGED <<diskVars, indexVars, running, watching, timers, hits, dirty>>

GetAllTrackedPaths(j) ==
    LET stale == {f \in job[j].todo : status[f] # 0}
    IN  /\ job[j].at = "track"
        /\ IF stale = {} THEN StartSync(j, "forced")
           ELSE job' = [job EXCEPT ![j].at = "stale", ![j].todo = stale]
        /\ UNCHANGED <<diskVars, indexVars, running, watching, timers, hits, dirty>>

(* What reindex takes out of the index, the file may be back by then.       *)
TakenOut(f, j, stage, todo) ==
    /\ job' = [Spoiled(f) EXCEPT ![j] = [Idle EXCEPT !.at = stage, !.file = f, !.todo = todo]]
    /\ dirty' = dirty \cup {f}

(* A tracked file that was not there: its chunks, then their rows; the row  *)
(* of the files table is left.  A forced sync follows.                      *)
RemoveStale(j) ==
    /\ job[j].at = "stale"
    /\ \E f \in job[j].todo :
         /\ chunks' = Without(chunks, f)
         /\ TakenOut(f, j, "gone", job[j].todo \ {f})
    /\ UNCHANGED <<diskVars, rows, status, running, watching, timers, hits>>

DeleteStale(j) ==
    /\ job[j].at = "gone"
    /\ rows' = Without(rows, job[j].file)
    /\ TakenOut(job[j].file, j, "stale", job[j].todo)
    /\ UNCHANGED <<diskVars, chunks, status, running, watching, timers, hits>>

SyncForced(j) ==
    /\ job[j].at = "stale" /\ job[j].todo = {}
    /\ StartSync(j, "forced")
    /\ UNCHANGED <<diskVars, indexVars, running, watching, timers, hits, dirty>>

(* A storage call of it fails.                                              *)
ReindexFails(j) ==
    /\ job[j].at \in {"track", "gone"}
    /\ job' = [job EXCEPT ![j] = Idle]
    /\ UNCHANGED <<diskVars, indexVars, running, watching, timers, hits, dirty>>

(* search(): searchSimilar reads rows; what comes back is merged into the   *)
(* map, even if it was removed in the meantime.                             *)
Search ==
    /\ running /\ watching /\ hits = NoHit
    /\ \E i \in Ids : rows[i] # 0 /\ hits' = [id |-> i, version |-> rows[i]]
    /\ UNCHANGED <<diskVars, indexVars, running, watching, timers, job, dirty>>

MergeHits ==
    LET i == hits.id
    IN  /\ hits # NoHit
        /\ hits' = NoHit
        /\ IF chunks[i] = 0
           THEN /\ chunks' = [chunks EXCEPT ![i] = hits.version]
                /\ dirty' = dirty \cup ({i[1]} \cap Files)
                /\ job' = Spoiled(i[1])
           ELSE UNCHANGED <<chunks, dirty, job>>
        /\ UNCHANGED <<diskVars, rows, status, running, watching, timers>>

-----------------------------------------------------------------------------
(* initialize(): the map is loaded from the rows, then the first sync runs; *)
(* the watcher starts after it.                                             *)
Initialize(j) ==
    /\ ~running
    /\ running' = TRUE
    /\ chunks' = rows
    /\ StartSync(j, "due")
    /\ UNCHANGED <<diskVars, rows, status, watching, timers, hits, dirty>>

StartFileWatcher ==
    /\ running /\ ~watching /\ \A j \in Jobs : job[j] = Idle
    /\ watching' = TRUE
    /\ UNCHANGED <<diskVars, indexVars, running, timers, job, hits, dirty>>

(* The process dies, or close(): timers, calls and the map are gone.        *)
Crash ==
    /\ running
    /\ running' = FALSE /\ watching' = FALSE
    /\ dirty' = dirty \cup timers \cup {f \in Files : On(f) # {}}
    /\ timers' = {} /\ hits' = NoHit
    /\ job' = [j \in Jobs |-> Idle]
    /\ chunks' = [i \in Ids |-> 0]
    /\ UNCHANGED <<diskVars, rows, status>>

Next ==
    \/ \E f \in Files : \/ FileWritten(f) \/ FileDeleted(f)
                        \/ \E j \in Jobs : WriteFile(j, f) \/ TimerFires(j, f)
    \/ \E j \in Jobs :
         \/ ReadFile(j) \/ StatFile(j) \/ DeleteChunks(j) \/ SaveChunk(j) \/ UpdateStatus(j)
         \/ IndexFails(j) \/ Sync(j) \/ NextFile(j) \/ CheckNeedsReindex(j) \/ IndexSessions(j)
         \/ Reindex(j) \/ GetAllTrackedPaths(j) \/ RemoveStale(j) \/ DeleteStale(j)
         \/ SyncForced(j) \/ ReindexFails(j) \/ Initialize(j)
    \/ Search \/ MergeHits \/ StartFileWatcher \/ Crash

Spec == Init /\ [][Next]_vars

-----------------------------------------------------------------------------
(* Properties *)

Settled(f) == running /\ f \notin timers \cup dirty /\ On(f) = {}

(* Once nothing is at work on a file and its last indexing was a clean one  *)
(* (alone, unbroken, of a file that did not change between the read and the *)
(* stat, and no change the watcher could not see), the map and the rows     *)
(* hold exactly the chunks of what is on the disk: no tail of a longer      *)
(* older version, across changes, searches, crashes and restarts.           *)
IndexFollowsFile ==
    \A f \in Files : Settled(f) /\ disk[f] # 0 =>
        \A i \in Of(f) :
            LET v == IF i[2] <= Pieces(disk[f]) THEN disk[f] ELSE 0
            IN  rows[i] = v /\ chunks[i] = v
=============================================================================
