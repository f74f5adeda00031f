------------------------------ MODULE Overflow ------------------------------
(***************************************************************************)
(* The overflow guard of the agent service (subscribeToSessionEvents, at   *)
(* agent_end, compaction_start and compaction_end), for one session of a   *)
(* channel.  When an inference does not fit the model's context, the SDK   *)
(* compacts the history and may infer again; after a compaction the        *)
(* service nudges the session with a prompt, which may not fit either.     *)
(***************************************************************************)
EXTENDS Naturals

CONSTANT BreakAfter  \* OVERFLOW_COMPACTION_BREAK_AFTER (3 in the code)

OverflowAssumption == BreakAfter \in Nat \ {0}

VARIABLES
    waiting,     \* the session has prompts still to run
    run,         \* "idle", "infers", or "over": ended over the limit
    compacting,  \* "no", or the reason of the compaction under way
    burst,       \* overflowBursts.get(sessionKey); open is whether there is one
    nudges,      \* history: nudges since the burst began, and
    notices      \*     notices to the chat of overflows, likewise

vars == <<waiting, run, compacting, burst, nudges, notices>>

NoBurst == [open |-> FALSE, ends |-> 0, noticed |-> FALSE, broken |-> FALSE]

TypeOK ==
    /\ waiting \in BOOLEAN
    /\ run \in {"idle", "infers", "over"}
    /\ compacting \in {"no", "overflow", "threshold"}
    /\ burst \in [open : BOOLEAN, ends : 0..BreakAfter, noticed : BOOLEAN, broken : BOOLEAN]
    /\ nudges \in Nat /\ notices \in Nat

Init ==
    /\ waiting = FALSE /\ run = "idle" /\ compacting = "no"
    /\ burst = NoBurst /\ nudges = 0 /\ notices = 0

-----------------------------------------------------------------------------
(* The SDK *)

Prompted ==
    /\ waiting' = TRUE
    /\ UNCHANGED <<run, compacting, burst, nudges, notices>>

Infer ==
    /\ run = "idle" /\ compacting = "no" /\ waiting
    /\ run' = "infers" /\ waiting' \in BOOLEAN
    /\ UNCHANGED <<compacting, burst, nudges, notices>>

-----------------------------------------------------------------------------
(* The handlers *)

(* agent_end of a run that has answered.                                    *)
Answered ==
    /\ run = "infers" /\ run' = "idle"
    /\ burst' = NoBurst /\ nudges' = 0 /\ notices' = 0
    /\ UNCHANGED <<waiting, compacting>>

(* Fault: the burst ends with any run, answered or not.                     *)
FailsForgetting ==
    /\ run = "infers"
    /\ run' \in {"over", "idle"}
    /\ burst' = NoBurst
    /\ UNCHANGED <<waiting, compacting, nudges, notices>>

(* agent_end of a run that did not fit, or failed in another way.           *)
Fails ==
    /\ run = "infers"
    /\ run' \in {"over", "idle"}
    /\ UNCHANGED <<waiting, compacting, burst, nudges, notices>>

(* compaction_start: one notice for a burst, and one for each compaction    *)
(* that no overflow has caused.                                             *)
CompactionStart ==
    /\ compacting = "no"
    /\ \/ /\ run = "over" /\ compacting' = "overflow"
          /\ burst' = [burst EXCEPT !.open = TRUE, !.noticed = TRUE]
          /\ notices' = IF burst.noticed THEN notices ELSE notices + 1
       \/ /\ run = "idle" /\ compacting' = "threshold"
          /\ UNCHANGED <<burst, notices>>
    /\ UNCHANGED <<waiting, run, nudges>>

(* The rest of a compaction that did not help: the SDK infers again when it *)
(* was for an overflow, or leaves the session idle.                         *)
GoesOn ==
    /\ compacting' = "no"
    /\ IF compacting = "overflow" THEN run' \in {"infers", "idle"} ELSE UNCHANGED run

CompactionAborted ==
    /\ compacting # "no" /\ GoesOn
    /\ UNCHANGED <<waiting, burst, nudges, notices>>

(* compaction_end: every one counts while a burst is open.                  *)
CompactionEnd ==
    /\ compacting # "no" /\ GoesOn
    /\ IF burst.open /\ (burst.broken \/ burst.ends + 1 >= BreakAfter)
       THEN /\ burst' = [burst EXCEPT !.broken = TRUE]
            /\ UNCHANGED <<waiting, nudges>>
       ELSE /\ burst' = [burst EXCEPT !.ends = IF burst.open THEN @ + 1 ELSE @]
            /\ waiting' = TRUE
            /\ nudges' = IF burst.open THEN nudges + 1 ELSE nudges
    /\ UNCHANGED notices

Next ==
    \/ Prompted \/ Infer \/ Answered \/ Fails
    \/ CompactionStart \/ CompactionAborted \/ CompactionEnd

Spec == Init /\ [][Next]_vars

-----------------------------------------------------------------------------
(* Property *)

(* However often the history is compacted without helping, whatever the     *)
(* user sends meanwhile: until a run answers, the service nudges a session  *)
(* that does not fit fewer than BreakAfter times, and the chat is told of   *)
(* the overflow once.                                                       *)
NudgesBounded == nudges < BreakAfter /\ notices <= 1
=============================================================================
