------------------------------- MODULE MCLive -------------------------------
(***************************************************************************)
(* What must happen in the end, in one run: a behaviour is one of          *)
(* Conversation or of Daemon, with the other in its initial state (where   *)
(* no action that Fairness names is enabled in Conversation).              *)
(***************************************************************************)
EXTENDS Conversation

CONSTANTS Boots, NoBoot

ASSUME LiveAssumption == NoBoot \notin Boots

VARIABLES part, sup, stopping, child, killed, respawn, hard, boot, code, reaped, term, shutting,
          restarting, hangs, wedged

D == INSTANCE Daemon

daemonVars == <<sup, stopping, child, killed, respawn, hard, boot, code, reaped, term, shutting,
                restarting, hangs, wedged>>
allVars == <<part, vars, daemonVars>>

AllInit == part \in {"conversation", "daemon"} /\ Init /\ D!Init

ConversationStep == part = "conversation" /\ Next /\ UNCHANGED <<part, daemonVars>>
DaemonStep == part = "daemon" /\ D!Next /\ UNCHANGED <<part, vars>>

AllNext == ConversationStep \/ DaemonStep

(* The fairness of Conversation; and Node's timers, exit events and settled *)
(* promises of a process that is not blocked are served.                    *)
AllSpec ==
    /\ AllInit /\ [][AllNext]_allVars /\ Fairness
    /\ WF_allVars(part = "daemon" /\ D!Internal /\ UNCHANGED <<part, vars>>)

(* Daemon: no second boot process, none outlives the supervisor (unless its *)
(* event loop is blocked).                                                  *)
NoStrayBoot == part = "daemon" => D!TypeOK /\ D!NoStrayBoot

(* Daemon: a supervisor that was told to stop exits.                        *)
StopsWhenTold == D!StopsWhenTold
=============================================================================
