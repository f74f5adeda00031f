------------------------------ MODULE Webhooks ------------------------------
(***************************************************************************)
(* The webhooks edge: POST /hooks/:id is answered at once; the transform,  *)
(* the agent's run in a session named after the hook and the millisecond,  *)
(* and the delivery of its response to the hook's targets follow behind    *)
(* the answer, several at a time, across restarts of the edge.             *)
(***************************************************************************)
EXTENDS Naturals, FiniteSets

CONSTANTS Posts,    \* requests
          Hooks,    \* configured hooks
          Targets,  \* the targets that a hook notifies
          MaxMs     \* milliseconds that the clock may show

WebhooksAssumption == MaxMs \in Nat \ {0}

VARIABLES
    now,     \* the clock, in milliseconds
    server,  \* "on", "closing" or "off"
    req,     \* each request: its hook, where it is, and the answers that it got
    key,     \* its session key, <<>> before it has one
    alone,   \* its session ran nothing else while it ran
    sent,    \* the targets that its response was sent to
    active,  \* activeHooks
    fired    \* history: the millisecond in which its run began

vars == <<now, server, req, key, alone, sent, active, fired>>

NoHook == "none"
Idle == [hook |-> NoHook, at |-> "none", answers |-> 0]
At(p, at) == req' = [req EXCEPT ![p].at = at]
Running == {p \in Posts : req[p].at = "run"}

TypeOK ==
    /\ now \in 1..MaxMs /\ server \in {"on", "closing", "off"}
    /\ req \in [Posts -> [hook: Hooks \cup {NoHook}, answers: 0..1,
                          at: {"none", "body", "transform", "run", "notify", "over"}]]
    /\ \A p \in Posts : key[p] = <<>> \/ (key[p][1] = req[p].hook /\ key[p][2] <= now)
    /\ alone \in [Posts -> BOOLEAN] /\ sent \in [Posts -> SUBSET Targets]
    /\ active \subseteq Hooks /\ fired \in [Posts -> 0..now]

Init ==
    /\ now = 1 /\ server = "on" /\ req = [p \in Posts |-> Idle]
    /\ key = [p \in Posts |-> <<>>] /\ alone = [p \in Posts |-> TRUE]
    /\ sent = [p \in Posts |-> {}] /\ active = {} /\ fired = [p \in Posts |-> 0]

Tick == now < MaxMs /\ now' = now + 1 /\ UNCHANGED <<server, req, key, alone, sent, active, fired>>

-----------------------------------------------------------------------------
(* The HTTP server *)

(* A request of another kind, for an unknown hook, or with a wrong token is *)
(* refused; otherwise its body is awaited.                                  *)
HandleRequest(p) ==
    /\ server = "on" /\ req[p] = Idle
    /\ \/ req' = [req EXCEPT ![p].at = "over", ![p].answers = 1]
       \/ \E h \in Hooks : req' = [req EXCEPT ![p].hook = h, ![p].at = "body"]
    /\ UNCHANGED <<now, server, key, alone, sent, active, fired>>

(* The body is too large, broken off, or late.                              *)
BodyFails(p) ==
    /\ req[p].at = "body"
    /\ req' = [req EXCEPT ![p].at = "over", ![p].answers = @ + 1]
    /\ UNCHANGED <<now, server, key, alone, sent, active, fired>>

(* The body's end: answered, then the transform is loaded and called.       *)
BodyEnds(p) ==
    /\ req[p].at = "body"
    /\ req' = [req EXCEPT ![p].at = "transform", ![p].answers = @ + 1]
    /\ UNCHANGED <<now, server, key, alone, sent, active, fired>>

(* stopHttp takes no new requests and waits for those that are coming in.   *)
Stop == server = "on" /\ server' = "closing" /\ UNCHANGED <<now, req, key, alone, sent, active, fired>>

Stopped ==
    /\ server = "closing" /\ \A p \in Posts : req[p].at # "body"
    /\ server' = "off"
    /\ UNCHANGED <<now, req, key, alone, sent, active, fired>>

(* The next instance has an empty activeHooks.                              *)
Start ==
    /\ server = "off" /\ server' = "on" /\ active' = {}
    /\ UNCHANGED <<now, req, key, alone, sent, fired>>

-----------------------------------------------------------------------------
(* fireHook *)

(* The transform throws, or returns no task.                                *)
Skip(p) ==
    /\ req[p].at = "transform" /\ At(p, "over")
    /\ UNCHANGED <<now, server, key, alone, sent, active, fired>>

(* Fault: one session for each hook.                                        *)
KeyOfHook(h) == <<h, 1>>

WebhookSessionKey(h) == <<h, now>>

(* agent.execute: a run whose session is busy is steered into the run that  *)
(* goes on there, and neither has the session for itself.                   *)
Fire(p) ==
    LET k == WebhookSessionKey(req[p].hook)
        with == {q \in Running : key[q] = k}
    IN  /\ req[p].at = "transform" /\ At(p, "run")
        /\ key' = [key EXCEPT ![p] = k] /\ fired' = [fired EXCEPT ![p] = now]
        /\ alone' = [q \in Posts |-> alone[q] /\ ~(with # {} /\ q \in with \cup {p})]
        /\ active' = active \cup {req[p].hook}
        /\ UNCHANGED <<now, server, sent>>

(* The run ends, and agent.onCompleted with it: with a response that goes   *)
(* to the targets, with none, or with an error.                             *)
Completed(p) ==
    /\ req[p].at = "run"
    /\ At(p, "notify") \/ At(p, "over")
    /\ active' = active \ {req[p].hook}
    /\ UNCHANGED <<now, server, key, alone, sent, fired>>

(* Every target is sent the response; one that fails is only logged.        *)
Notify(p) ==
    /\ req[p].at = "notify" /\ At(p, "over")
    /\ sent' = [sent EXCEPT ![p] = Targets]
    /\ UNCHANGED <<now, server, key, alone, active, fired>>

Next ==
    \/ Tick \/ Stop \/ Stopped \/ Start
    \/ \E p \in Posts : \/ HandleRequest(p) \/ BodyFails(p) \/ BodyEnds(p)
                        \/ Skip(p) \/ Fire(p) \/ Completed(p) \/ Notify(p)

Spec == Init /\ [][Next]_vars

-----------------------------------------------------------------------------
(* Properties *)

(* However posts to a hook overlap, a run has its session, and with it the  *)
(* response that is sent to the targets, for itself, unless another post    *)
(* to the same hook began its run in the same millisecond.                  *)
RunsAlone ==
    \A p \in Posts : alone[p] \/ \E q \in Posts \ {p} :
        req[q].hook = req[p].hook /\ fired[q] = fired[p]
=============================================================================
