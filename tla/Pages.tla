------------------------------- MODULE Pages --------------------------------
(***************************************************************************)
(* A page of the web console that lists items and edits them in a form:    *)
(* the cron page with its jobs, or the agents page with its persona files. *)
(* The page loads the list when it is mounted, after a change on disk and  *)
(* after a save; whatever is in the form stays the user's while it does.   *)
(*                                                                         *)
(* An item's content is a number.  0 is an item that is not there.         *)
(***************************************************************************)
EXTENDS Naturals, FiniteSets

CONSTANTS Items,    \* jobs or persona files
          Loads,    \* requests for the list, numbered as they are sent
          MaxText,  \* bound on edits: the contents that are ever written
          None

VARIABLES
    page,      \* the cron or the agents page
    store,     \* what the daemon, or the disk, has
    texts,     \* contents written so far
    load,      \* every request for the list: not sent, on its way, or answered
    answer,    \* the list it was answered with
    due,       \* useLiveRefresh's timer, or runJob's, is set
    jobs,      \* the list on the page, None until the first answer
    error,     \* the page shows an error in place of everything else
    formOpen, editing, origin, \* the page's form state: open, which item, as listed
    fields,    \* the content of the form
    typed,     \* the user has changed it since the form was filled
    busy,      \* the form waits for its save
    saving,    \* the item being saved, its text, and whether its form is the one open
    \* history
    lost,      \* why typed text went away without the user's doing
    rejected   \* a save's request got no response at all

pageVars == <<jobs, error, formOpen, editing, origin>>
formVars == <<fields, typed, busy>>
netVars == <<load, answer, due, saving>>
histVars == <<lost, rejected>>
vars == <<page, store, texts, pageVars, formVars, netVars, histVars>>

Texts == 0..MaxText
Lists == [Items -> Texts]
PagesAssumption == MaxText \in Nat \ {0} /\ None \notin Lists
NoList == [i \in Items |-> 0]
NoSave == [item |-> None, text |-> 0, same |-> FALSE]

(* The page renders its form only below a list; a rendered form that is not *)
(* open keeps its fields and its busy.                                      *)
Rendered == jobs # None /\ ~error

TypeOK ==
    /\ page \in {"cron", "agents"}
    /\ store \in Lists /\ jobs \in Lists \cup {None}
    /\ texts \in Texts
    /\ load \in [Loads -> {"unsent", "sent", "listed", "failed", "done"}]
    /\ answer \in [Loads -> Lists]
    /\ {due, error, formOpen, typed, busy, rejected} \subseteq BOOLEAN
    /\ editing \in Items \cup {None}
    /\ origin \in Texts /\ fields \in Texts
    /\ saving \in [item: Items \cup {None}, text: Texts, same: BOOLEAN]
    /\ lost \subseteq {"failed load", "late save", "refresh"}

Init ==
    /\ page \in {"cron", "agents"}
    /\ store \in [Items -> {0, 1}] /\ texts = 1
    /\ load = [l \in Loads |-> IF l = 1 THEN "sent" ELSE "unsent"]
    /\ answer = [l \in Loads |-> NoList]
    /\ due = FALSE
    /\ jobs = None /\ error = FALSE
    /\ formOpen = FALSE /\ editing = None /\ origin = 0
    /\ fields = 0 /\ typed = FALSE /\ busy = FALSE
    /\ saving = NoSave
    /\ lost = {} /\ rejected = FALSE

-----------------------------------------------------------------------------
(* The list *)

Sending == {l \in Loads : load[l] = "unsent" /\ \A m \in Loads : load[m] = "unsent" => l <= m}
CanLoad == Sending # {}
Load == load' = [l \in Loads |-> IF l \in Sending THEN "sent" ELSE load[l]]

(* The route asks the daemon, or reads agents/*.md.                         *)
ListItems(l) ==
    /\ load[l] = "sent"
    /\ \/ load' = [load EXCEPT ![l] = "listed"] /\ answer' = [answer EXCEPT ![l] = store]
       \/ load' = [load EXCEPT ![l] = "failed"] /\ UNCHANGED answer
    /\ UNCHANGED <<page, store, texts, pageVars, formVars, due, saving, histVars>>

Losing(why) == IF typed /\ formOpen THEN lost \cup {why} ELSE lost

(* Fault: the form is given the item of the new list, and fills itself anew.*)
ShowListInForm(l) ==
    /\ jobs' = answer[l] /\ error' = FALSE
    /\ lost' = Losing("refresh")
    /\ fields' = IF editing = None THEN 0 ELSE answer[l][editing]
    /\ origin' = fields' /\ typed' = FALSE
    /\ UNCHANGED <<formOpen, editing, busy, saving>>

(* An item that the form edits is the object of the list it was opened      *)
(* from: a new list does not touch it.  A form that comes back after an     *)
(* error is a new one, and fills itself from that object.                   *)
ShowList(l) ==
    /\ jobs' = answer[l] /\ error' = FALSE
    /\ IF error /\ formOpen THEN fields' = origin ELSE UNCHANGED fields
    /\ UNCHANGED <<formOpen, editing, origin, typed, busy, lost, saving>>

(* The error takes the form's place: the form is unmounted.                 *)
ShowError ==
    /\ error' = TRUE
    /\ lost' = Losing("failed load")
    /\ typed' = FALSE /\ busy' = FALSE /\ fields' = 0
    /\ saving' = [saving EXCEPT !.same = FALSE]
    /\ UNCHANGED <<jobs, formOpen, editing, origin>>

Loaded(l) ==
    /\ load[l] \in {"listed", "failed"}
    /\ load' = [load EXCEPT ![l] = "done"] /\ answer' = [answer EXCEPT ![l] = NoList]
    /\ IF load[l] = "listed" THEN ShowList(l) ELSE ShowError
    /\ UNCHANGED <<page, store, texts, due, rejected>>

(* An item changes under the page: the agent, the CLI, an editor.           *)
Change(i) ==
    /\ texts < MaxText
    /\ texts' = texts + 1
    /\ store' = [store EXCEPT ![i] = texts']
    /\ UNCHANGED <<page, pageVars, formVars, netVars, histVars>>

(* useLiveRefresh hears of a change, or of the gateway going up or down.    *)
Announced ==
    /\ ~due
    /\ due' = TRUE
    /\ UNCHANGED <<page, store, texts, pageVars, formVars, load, answer, saving, histVars>>

Refresh ==
    /\ due /\ CanLoad
    /\ due' = FALSE /\ Load
    /\ UNCHANGED <<page, store, texts, pageVars, formVars, answer, saving, histVars>>

-----------------------------------------------------------------------------
(* The page's own actions *)

(* The form fills itself when it is opened, or given another object.        *)
Fill(c) == fields' = c /\ typed' = FALSE

OpenForm(i) ==
    /\ Rendered /\ ~formOpen
    /\ i # None => jobs[i] # 0
    /\ formOpen' = TRUE /\ editing' = i
    /\ origin' = IF i = None THEN 0 ELSE jobs[i]
    /\ Fill(origin')
    /\ saving' = [saving EXCEPT !.same = FALSE]
    /\ UNCHANGED <<page, store, texts, load, answer, due, jobs, error, busy, histVars>>

Type ==
    /\ Rendered /\ formOpen /\ texts < MaxText
    /\ texts' = texts + 1
    /\ fields' = texts' /\ typed' = TRUE
    /\ UNCHANGED <<page, store, pageVars, busy, netVars, histVars>>

Cancel ==
    /\ Rendered /\ formOpen
    /\ formOpen' = FALSE /\ typed' = FALSE
    /\ saving' = [saving EXCEPT !.same = FALSE]
    /\ UNCHANGED <<page, store, texts, load, answer, due, jobs, error, editing, origin,
                   fields, busy, histVars>>

(* cron.remove after the browser's confirm().                               *)
RemoveJob(i) ==
    /\ page = "cron" /\ Rendered /\ ~formOpen /\ jobs[i] # 0
    /\ \/ store' = [store EXCEPT ![i] = 0] /\ CanLoad /\ Load
       \/ UNCHANGED <<store, load>>
    /\ UNCHANGED <<page, texts, pageVars, formVars, answer, due, saving, histVars>>

(* cron.run is answered ok, and sets a timer to load the list again.        *)
RunJob(i) ==
    /\ page = "cron" /\ Rendered /\ ~formOpen /\ jobs[i] # 0
    /\ ~due /\ due' = TRUE
    /\ UNCHANGED <<page, store, texts, pageVars, formVars, load, answer, saving, histVars>>

-----------------------------------------------------------------------------
(* Saving *)

Submit(i) ==
    /\ Rendered /\ formOpen /\ ~busy /\ saving = NoSave
    /\ fields # 0
    /\ busy' = TRUE
    /\ saving' = [item |-> i, text |-> fields, same |-> TRUE]
    /\ UNCHANGED <<page, store, texts, load, answer, due, pageVars, fields, typed, histVars>>

(* cron.update of the job, with every field, or cron.add.                   *)
SubmitJob == page = "cron" /\ Submit(editing)

(* A PUT of the file that the form names, whether it is there or not.       *)
SubmitPersona(i) == page = "agents" /\ editing \in {None, i} /\ Submit(i)

(* What the save may write: cron.add makes a new id, cron.update needs one. *)
Targets ==
    IF page = "agents" THEN {saving.item}
    ELSE IF saving.item = None THEN {i \in Items : store[i] = 0}
    ELSE {i \in {saving.item} : store[i] # 0}

Write == \E i \in Targets : store' = [store EXCEPT ![i] = saving.text]

(* Closes the form, whatever is in it by now.                               *)
CloseAfterSave ==
    /\ formOpen' = FALSE /\ typed' = FALSE
    /\ lost' = IF saving.same /\ fields = saving.text THEN lost ELSE Losing("late save")

(* The answer is ok.                                                        *)
Saved ==
    /\ saving # NoSave /\ CanLoad
    /\ Write
    /\ busy' = FALSE /\ saving' = NoSave
    /\ CloseAfterSave
    /\ Load
    /\ UNCHANGED <<page, texts, answer, due, jobs, error, editing, origin, fields,
                   rejected>>

(* The answer is an error: a toast, and the form stays as it is.            *)
SaveRefused ==
    /\ saving # NoSave
    /\ busy' = FALSE /\ saving' = NoSave
    /\ UNCHANGED <<page, store, texts, load, answer, due, pageVars, fields, typed, histVars>>

(* fetch rejects, or its body is no JSON: submit throws and never clears    *)
(* busy.  The change may have been made.                                    *)
SaveRejected ==
    /\ saving # NoSave
    /\ Write \/ UNCHANGED store
    /\ saving' = NoSave /\ rejected' = TRUE
    /\ UNCHANGED <<page, texts, load, answer, due, pageVars, formVars, lost>>

Next ==
    \/ Announced \/ Refresh \/ Type \/ Cancel
    \/ SubmitJob \/ Saved \/ SaveRefused \/ SaveRejected
    \/ \E l \in Loads : ListItems(l) \/ Loaded(l)
    \/ \E i \in Items :
        Change(i) \/ RemoveJob(i) \/ RunJob(i) \/ SubmitPersona(i)
    \/ \E i \in Items \cup {None} : OpenForm(i)

Spec == Init /\ [][Next]_vars

-----------------------------------------------------------------------------

(* What is typed into an open form goes away behind the user's back only    *)
(* when a load fails (cron/page.tsx:97 unmounts the form) or when a save is *)
(* answered that was of an earlier form or text (cron-form.tsx:86).         *)
TextKept ==
    /\ lost \subseteq {"failed load", "late save"}
    /\ formOpen /\ Rendered /\ ~typed => fields = origin

(* The Save button is disabled only while a save is on its way, unless the  *)
(* request of one was rejected (cron-form.tsx:66 has no finally).           *)
BusyBacked == busy => saving # NoSave \/ rejected
=============================================================================
