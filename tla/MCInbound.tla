------------------------------- MODULE MCInbound -------------------------------
(***************************************************************************)
(* The two ends of a message's way, in one run: a behaviour is one of      *)
(* Inbound, where messages come in, or of Delegation, where the agent's    *)
(* sessions hand work on to subagents, with the other in an initial state. *)
(***************************************************************************)
EXTENDS Inbound, TLC

CONSTANTS Keys, Gens, Tools, Strict, MaxEdits, None

VARIABLES part,
    persona, default, edits, configured, gen, init, known, methods, made, cached, disposed, run,
    stage, by, owner, toolset, lax, crossed

A == INSTANCE Delegation

ASSUME AgentAssumption == A!DelegationAssumption

agentVars == <<persona, default, edits, configured, gen, init, known, methods, made, cached,
               disposed, run, stage, by, owner, toolset, lax, crossed>>
allVars == <<part, vars, agentVars>>

AllInit ==
    /\ part \in {"inbound", "agent"}
    /\ part # "agent" => persona = [f \in A!Files |-> "strict"] /\ configured = FALSE
    /\ Init /\ A!Init

InboundStep == part = "inbound" /\ Next /\ UNCHANGED <<part, agentVars>>
AgentStep == part = "agent" /\ A!Next /\ UNCHANGED <<part, vars>>

AllNext == InboundStep \/ AgentStep

AllSpec == AllInit /\ [][AllNext]_allVars

(* Delegation: nobody waits for a call that is gone, a whitelist that was   *)
(* there all along is kept, and the agent runs one live session per key.    *)
DelegationKept ==
    part = "agent" => A!TypeOK /\ A!AnswersComplete /\ A!WhitelistKept /\ A!OneLiveSession

(* A chat, its subagent, and that one's own subagent.                       *)
ChatAndTwoBelow == {<<1>>, <<1, 1>>, <<1, 1, 1>>}

Whitelists == [channel |-> {"agent.execute", "memory.search"}, subagent |-> {"memory.search"}]

Symmetry == Permutations(Loops)
================================================================================
