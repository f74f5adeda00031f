------------------------------ MODULE Sessions ------------------------------
(***************************************************************************)
(* The console's view of the session transcripts: the sessions page lists  *)
(* what a walk over ~/.vargos/sessions finds, while the agent goes on      *)
(* appending to the files, and opens one of them.                          *)
(*                                                                         *)
(* The agent keeps the session with key a:b:c in the directory a/b/c.  A   *)
(* directory is the sequence of its names; a session file is known by its  *)
(* directory, and holds a number of messages.                              *)
(***************************************************************************)
EXTENDS Naturals, Sequences

CONSTANTS Keys,    \* the directories of sessions, each the name of its file
          Loads,   \* requests for the list that are on their way at a time
          MaxMsgs, \* bound on the messages of a file
          None

VARIABLES
    msgs,     \* the whole lines of each file, None when it is not there
    torn,     \* files whose last line is being written
    removed,  \* files that somebody has deleted
    load,     \* each request: none, on its way, or answered
    todo,     \* what its walk has still to look at
    reading,  \* the file whose lines it counts
    out,      \* what it has counted
    began,    \* history: the files when it began
    list,     \* the list on the page, None until the first answer
    error,    \* the page shows an error in place of it
    view,     \* the transcript page: which file, and what the list said of it
    events    \* the messages on the transcript page

fileVars == <<msgs, torn, removed>>
walkVars == <<load, todo, reading, out, began>>
pageVars == <<list, error, view, events>>
vars == <<fileVars, walkVars, pageVars>>

Counts == 0..MaxMsgs
Files == [Keys -> Counts \cup {None}]
SessionsAssumption ==
    /\ MaxMsgs \in Nat
    /\ \A k \in Keys : k \in Seq(STRING) /\ k # <<>>
    /\ None \notin Keys /\ None \notin Counts /\ None \notin Files
NoFiles == [k \in Keys |-> None]
NoView == [file |-> None, listed |-> 0]
OnSessionsPage == view = NoView
There == {k \in Keys : msgs[k] # None}
Parent(p) == SubSeq(p, 1, Len(p) - 1)
Prefixes == UNION {{SubSeq(k, 1, n) : n \in 1..Len(k)} : k \in Keys}
Item(kind, p, chat) == [kind |-> kind, path |-> p, chat |-> chat]

TypeOK ==
    /\ msgs \in Files
    /\ torn \subseteq There /\ removed \subseteq Keys \ There
    /\ load \in [Loads -> {"idle", "walking", "listed", "failed", "hung"}]
    /\ \A l \in Loads : \A i \in todo[l] :
        i.kind \in {"call", "dir", "file", "found"} /\ i.path \in Prefixes /\ i.chat \in BOOLEAN
    /\ reading \in [Loads -> Keys \cup {None}]
    /\ out \in [Loads -> Files] /\ began \in [Loads -> Files]
    /\ list \in Files \cup {None} /\ error \in BOOLEAN
    /\ view \in [file: Keys \cup {None}, listed: Counts]
    /\ events \in 0..MaxMsgs + 1 \cup {None}

Init ==
    /\ msgs \in [Keys -> {None, 0}]
    /\ torn = {} /\ removed = {}
    /\ load = [l \in Loads |-> "idle"]
    /\ todo = [l \in Loads |-> {}]
    /\ reading = [l \in Loads |-> None]
    /\ out = [l \in Loads |-> NoFiles] /\ began = [l \in Loads |-> NoFiles]
    /\ list = None /\ error = FALSE
    /\ view = NoView /\ events = None

-----------------------------------------------------------------------------
(* The files *)

(* A new session: a directory for its key, and a file in it.                *)
NewSession(k) ==
    /\ msgs[k] = None /\ k \notin removed
    /\ msgs' = [msgs EXCEPT ![k] = 0]
    /\ UNCHANGED <<torn, removed, walkVars, pageVars>>

AppendBegins(k) ==
    /\ k \in There \ torn /\ msgs[k] < MaxMsgs
    /\ torn' = torn \cup {k}
    /\ UNCHANGED <<msgs, removed, walkVars, pageVars>>

AppendEnds(k) ==
    /\ k \in torn
    /\ torn' = torn \ {k}
    /\ msgs' = [msgs EXCEPT ![k] = @ + 1]
    /\ UNCHANGED <<removed, walkVars, pageVars>>

(* Nothing in the repository deletes a transcript; somebody does.           *)
Remove(k) ==
    /\ k \in There
    /\ removed' = removed \cup {k}
    /\ msgs' = [msgs EXCEPT ![k] = None]
    /\ torn' = torn \ {k}
    /\ UNCHANGED <<walkVars, pageVars>>

-----------------------------------------------------------------------------
(* The walk *)

(* GET /api/sessions, on mount and when the page hears of a change.  Every  *)
(* directory of sessions/ is a channel.                                     *)
Ask(l) ==
    /\ OnSessionsPage /\ load[l] \in {"idle", "hung"}
    /\ load' = [load EXCEPT ![l] = "walking"]
    /\ todo' = [todo EXCEPT ![l] = {Item("call", SubSeq(k, 1, 1), FALSE) : k \in There}]
    /\ began' = [began EXCEPT ![l] = msgs]
    /\ out' = [out EXCEPT ![l] = NoFiles]
    /\ UNCHANGED <<fileVars, reading, pageVars>>

SubDirs(p) ==
    {SubSeq(k, 1, Len(p) + 1) : k \in {d \in There : Len(d) > Len(p) /\ SubSeq(d, 1, Len(p)) = p}}

(* Fault: only the files of the directory itself, and subagents.            *)
FlatEntries(i) ==
    CASE i.kind = "call" ->
            {Item("file", k, i.chat) : k \in {i.path} \cap There}
                \cup {Item("dir", p, i.chat) : p \in SubDirs(i.path)}
      [] i.kind = "dir" ->
            IF i.path[Len(i.path)] = "subagent" /\ i.chat
            THEN {Item("call", p, TRUE) : p \in SubDirs(i.path)} ELSE {}

(* collectChannelFiles reads a directory: the files in it, and in every     *)
(* directory below it, but a directory `subagent` of a chat has one         *)
(* directory for each subagent, to be collected in the same way.            *)
Entries(i) ==
    CASE i.kind = "call" ->
            {Item("file", k, i.chat) : k \in {i.path} \cap There}
                \cup {Item("dir", p, i.chat) : p \in SubDirs(i.path)}
      [] i.kind = "dir" ->
            IF i.path[Len(i.path)] = "subagent" /\ i.chat
            THEN {Item("call", p, TRUE) : p \in SubDirs(i.path)}
            ELSE {Item("found", k, TRUE) : k \in {i.path} \cap There}

Collect(l, i) ==
    /\ load[l] = "walking" /\ reading[l] = None
    /\ i \in todo[l] /\ i.kind \in {"call", "dir"}
    /\ todo' = [todo EXCEPT ![l] = (@ \ {i}) \cup Entries(i)]
    /\ UNCHANGED <<fileVars, load, reading, out, began, pageVars>>

Answer(l, a) ==
    /\ load' = [load EXCEPT ![l] = a]
    /\ todo' = [todo EXCEPT ![l] = {}]
    /\ reading' = [reading EXCEPT ![l] = None]

(* lstat: a file of the channel's directory that is gone is left out.       *)
Lstat(l, i) ==
    /\ load[l] = "walking" /\ reading[l] = None
    /\ i \in todo[l] /\ i.kind = "file"
    /\ todo' = [todo EXCEPT ![l] = (@ \ {i}) \cup
                  {Item("found", k, i.chat) : k \in {i.path} \cap There}]
    /\ UNCHANGED <<fileVars, load, reading, out, began, pageVars>>

(* stat: a file that is gone by now, or was listed by readdir alone, fails  *)
(* the request.                                                             *)
Stat(l, i) ==
    /\ load[l] = "walking" /\ reading[l] = None
    /\ i \in todo[l] /\ i.kind = "found"
    /\ IF i.path \in There
       THEN /\ todo' = [todo EXCEPT ![l] = @ \ {i}]
            /\ reading' = [reading EXCEPT ![l] = i.path]
            /\ UNCHANGED load
       ELSE Answer(l, "failed")
    /\ UNCHANGED <<fileVars, out, began, pageVars>>

(* The stream counts the lines that have their end.  When it cannot open    *)
(* the file its error goes to nobody: the request is not answered.          *)
Count(l) ==
    /\ load[l] = "walking" /\ reading[l] # None
    /\ IF reading[l] \in There
       THEN /\ out' = [out EXCEPT ![l][reading[l]] = msgs[reading[l]]]
            /\ reading' = [reading EXCEPT ![l] = None]
            /\ UNCHANGED <<load, todo>>
       ELSE Answer(l, "hung") /\ UNCHANGED out
    /\ UNCHANGED <<fileVars, began, pageVars>>

Listed(l) ==
    /\ load[l] = "walking" /\ reading[l] = None /\ todo[l] = {}
    /\ Answer(l, "listed")
    /\ UNCHANGED <<fileVars, out, began, pageVars>>

-----------------------------------------------------------------------------
(* The pages *)

(* Answers come in any order, and not to a page that is gone.               *)
Loaded(l) ==
    /\ OnSessionsPage /\ load[l] \in {"listed", "failed"}
    /\ load' = [load EXCEPT ![l] = "idle"]
    /\ out' = [out EXCEPT ![l] = NoFiles] /\ began' = [began EXCEPT ![l] = NoFiles]
    /\ IF load[l] = "listed" THEN list' = out[l] /\ error' = FALSE
                             ELSE error' = TRUE /\ UNCHANGED list
    /\ UNCHANGED <<fileVars, todo, reading, view, events>>

Open(k) ==
    /\ OnSessionsPage /\ list # None /\ ~error
    /\ list[k] # None
    /\ view' = [file |-> k, listed |-> list[k]]
    /\ load' = [l \in Loads |-> "idle"] /\ todo' = [l \in Loads |-> {}]
    /\ reading' = [l \in Loads |-> None]
    /\ out' = [l \in Loads |-> NoFiles] /\ began' = [l \in Loads |-> NoFiles]
    /\ UNCHANGED <<fileVars, list, error, events>>

(* loadTranscript: every line that parses; that may be the last one, before *)
(* its end is written.                                                      *)
ReadTranscript ==
    /\ view.file \in There /\ events = None
    /\ \/ events' = msgs[view.file]
       \/ view.file \in torn /\ events' = msgs[view.file] + 1
    /\ UNCHANGED <<fileVars, walkVars, list, error, view>>

(* Back to the sessions page, which is a new one.                           *)
Back ==
    /\ ~OnSessionsPage
    /\ view' = NoView /\ events' = None
    /\ list' = None /\ error' = FALSE
    /\ UNCHANGED <<fileVars, walkVars>>

Next ==
    \/ \E k \in Keys :
        NewSession(k) \/ AppendBegins(k) \/ AppendEnds(k) \/ Remove(k) \/ Open(k)
    \/ \E l \in Loads :
        \/ Ask(l) \/ Count(l) \/ Listed(l) \/ Loaded(l)
        \/ \E i \in todo[l] : Collect(l, i) \/ Lstat(l, i) \/ Stat(l, i)
    \/ ReadTranscript \/ Back

Spec == Init /\ [][Next]_vars

-----------------------------------------------------------------------------

(* What a finished walk says of a file that was there all along.            *)
Counted(l, k) ==
    load[l] = "listed" /\ began[l][k] # None /\ k \in There
        => out[l][k] # None /\ out[l][k] \in began[l][k]..msgs[k]

(* The list has every session of the first two levels that was there while  *)
(* it was made, with a count of that time; nothing else stops it but a file *)
(* that goes away under it.                                                 *)
ListsSessions ==
    /\ \A l \in Loads, k \in Keys : Len(k) <= 2 => Counted(l, k)
    /\ (\E l \in Loads : load[l] \in {"failed", "hung"}) => removed # {}

(* A transcript shows no less than the list did when it was opened.         *)
TranscriptFollows == events # None => events >= view.listed
=============================================================================
