----------------------------- MODULE Delegation -----------------------------
(***************************************************************************)
(* AgentService across its reloads: the sessions it creates for the chats  *)
(* of one channel and for the subagents they delegate to, with the persona *)
(* file that each of them follows, its tools, and the timeouts of the calls*)
(* that wait for one another.                                              *)
(*                                                                         *)
(* A session key is a path: <<c>> for a chat, k \o <<i>> for a subagent of *)
(* k (`:subagent:` and a random id, never used twice).  A chat has one     *)
(* execute call at a time here; what two of them do to one another, and    *)
(* appendMessage, is in Conversation.                                      *)
(***************************************************************************)
EXTENDS Naturals, Sequences, FiniteSets

CONSTANTS Keys,    \* session keys, bounding the subagents and their depth
          Gens,    \* instances of the service, numbered: the bound on reloads
          Tools,   \* bus methods offered as tools
          Strict,  \* [file |-> tools that its whitelist matches]
          MaxEdits,\* bound on changes of the persona files
          None

(* What a value for these has to satisfy.                                   *)
DelegationAssumption ==
    /\ \A k \in Keys : Len(k) > 0 /\ (Len(k) > 1 => SubSeq(k, 1, Len(k) - 1) \in Keys)
    /\ Gens \subseteq Nat \ {0} /\ 1 \in Gens
    /\ "agent.execute" \in Tools
    /\ Strict \in [{"channel", "subagent"} -> SUBSET Tools]
    /\ MaxEdits \in Nat
    /\ \A S \in SUBSET Tools : None # S

VARIABLES
    persona,    \* agents/<channel>.md and agents/subagent.md
    default,    \* agents/default.md, which has no whitelist as it is bundled
    edits,      \* changes of persona files so far (bound)
    configured, \* the channel is in config.json
    gen, init,  \* the newest instance, and how far its init() is
    known,      \* instances whose this.config has the channel
    methods,    \* bus methods registered
    made,       \* session objects: <<instance, key>> -> what it was made with
    cached,     \* AgentService.sessions of every instance
    disposed,   \* session objects disposed of
    run,        \* session objects with a Pi run
    stage, by,  \* the execute call on a key, and the instance that serves it
    owner,      \* subagent key -> the session object whose tool call created it
    toolset,    \* the tools that the call has gathered
    lax,        \* history: files that were not a whitelist at some time
    crossed     \* history: keys whose session was being created at a dispose()

fileVars == <<persona, default, edits, configured, lax>>
lifeVars == <<gen, init, known, methods, crossed>>
objVars == <<made, cached, disposed, run>>
callVars == <<stage, by, owner, toolset>>
vars == <<fileVars, lifeVars, objVars, callVars>>

Files == {"channel", "subagent"}
FileKinds == {"missing", "blank", "open", "strict"} \* blank: empty, or being written
Objects == Gens \X Keys
Nobody == <<0, <<>>>>
Creating == {"persona", "ensuring", "copying", "reading", "building"}
Settled == {"free", "answered", "failed", "timedOut"}

Parent(k) == SubSeq(k, 1, Len(k) - 1)
IsSubagent(k) == Len(k) > 1
Descends(d, k) == Len(d) > Len(k) /\ SubSeq(d, 1, Len(k)) = k
Object(k) == <<by[k], k>>

TypeOK ==
    /\ persona \in [Files -> FileKinds]
    /\ default \in {"missing", "open"}
    /\ edits \in 0..MaxEdits
    /\ configured \in BOOLEAN
    /\ gen \in Gens /\ init \in {"reading", "registering", "failed", "up", "released"}
    /\ known \subseteq Gens
    /\ methods \subseteq Tools
    /\ made \in [Objects -> (SUBSET Tools) \cup {None}]
    /\ cached \cup disposed \cup run \subseteq {o \in Objects : made[o] # None}
    /\ stage \in [Keys -> Settled \cup Creating \cup {"prompting"}]
    /\ by \in [Keys -> Gens]
    /\ owner \in [Keys -> Objects \cup {Nobody}]
    /\ toolset \in [Keys -> SUBSET Tools]
    /\ lax \subseteq Files
    /\ crossed \subseteq Keys

(* boot.ts has seeded default.md and subagent.md if they were missing.      *)
Init ==
    /\ persona \in [Files -> {"missing", "strict"}] /\ persona["subagent"] = "strict"
    /\ default = "open"
    /\ edits = 0
    /\ configured \in BOOLEAN
    /\ gen = 1 /\ init = "reading"
    /\ known = {}
    /\ methods = Tools \ {"agent.execute"}
    /\ made = [o \in Objects |-> None]
    /\ cached = {} /\ disposed = {} /\ run = {}
    /\ stage = [k \in Keys |-> "free"]
    /\ by = [k \in Keys |-> 1]
    /\ owner = [k \in Keys |-> Nobody]
    /\ toolset = [k \in Keys |-> {}]
    /\ lax = {f \in Files : persona[f] # "strict"}
    /\ crossed = {}

-----------------------------------------------------------------------------
(* The life of the service *)

(* init() has read the configuration, and keeps it for good.                *)
ReadConfig ==
    /\ init = "reading"
    /\ init' = "registering"
    /\ known' = IF configured THEN known \cup {gen} ELSE known
    /\ UNCHANGED <<fileVars, gen, methods, crossed, objVars, callVars>>

RegisterMethods ==
    /\ init = "registering"
    /\ init' = "up"
    /\ methods' = methods \cup {"agent.execute"}
    /\ UNCHANGED <<fileVars, gen, known, crossed, objVars, callVars>>

(* models.json does not load: init() throws before it registers.            *)
InitFails ==
    /\ init = "registering"
    /\ init' = "failed"
    /\ UNCHANGED <<fileVars, gen, known, methods, crossed, objVars, callVars>>

(* Fault: the sessions are forgotten, but not disposed of.                  *)
ForgetSessions ==
    /\ cached' = {o \in cached : o[1] # gen}
    /\ UNCHANGED disposed

DisposeSessions ==
    /\ cached' = {o \in cached : o[1] # gen}
    /\ disposed' = disposed \cup {o \in cached : o[1] = gen}

(* bus.restart: releaseService, then dispose() up to its only step.         *)
Dispose ==
    /\ init \in {"up", "failed"}
    /\ gen + 1 \in Gens
    /\ init' = "released"
    /\ methods' = methods \ {"agent.execute"}
    /\ DisposeSessions
    /\ crossed' = crossed \cup {k \in Keys : stage[k] \in Creating /\ by[k] = gen}
    /\ UNCHANGED <<fileVars, gen, known, made, run, callVars>>

Reload ==
    /\ init = "released"
    /\ init' = "reading"
    /\ gen' = gen + 1
    /\ UNCHANGED <<fileVars, known, methods, crossed, objVars, callVars>>

-----------------------------------------------------------------------------
(* Files and configuration change under the service *)

(* channel.register: the channel is configured and started while we run.    *)
RegisterChannel ==
    /\ ~configured
    /\ configured' = TRUE
    /\ UNCHANGED <<persona, default, edits, lax, lifeVars, objVars, callVars>>

(* saveAgentPersona truncates the file, and then writes it.                 *)
SaveBegins(f) ==
    /\ edits < MaxEdits
    /\ edits' = edits + 1
    /\ persona' = [persona EXCEPT ![f] = "blank"]
    /\ lax' = lax \cup {f}
    /\ UNCHANGED <<default, configured, lifeVars, objVars, callVars>>

(* A whitelist without an entry is no whitelist.                            *)
SaveEnds(f, kind) ==
    /\ persona[f] = "blank"
    /\ \A k \in Keys : f = "channel" => stage[k] # "copying"
    /\ persona' = [persona EXCEPT ![f] = kind]
    /\ UNCHANGED <<default, edits, configured, lax, lifeVars, objVars, callVars>>

(* Somebody deletes default.md (not while it is being copied).              *)
DeleteDefault ==
    /\ default # "missing" /\ edits < MaxEdits
    /\ edits' = edits + 1
    /\ \A k \in Keys : stage[k] # "copying"
    /\ default' = "missing"
    /\ lax' = lax \cup {"channel"}
    /\ UNCHANGED <<persona, configured, lifeVars, objVars, callVars>>

-----------------------------------------------------------------------------
(* agent.execute *)

Goto(k, s) == stage' = [stage EXCEPT ![k] = s]

(* A call reaches the registered instance, which has the session or not.    *)
Execute(k, o) ==
    /\ "agent.execute" \in methods
    /\ <<gen, k>> \notin run
    /\ by' = [by EXCEPT ![k] = gen]
    /\ owner' = [owner EXCEPT ![k] = o]
    /\ IF <<gen, k>> \in cached
       THEN Goto(k, "prompting") /\ run' = run \cup {<<gen, k>>}
       ELSE Goto(k, "persona") /\ UNCHANGED run
    /\ UNCHANGED <<fileVars, lifeVars, made, cached, disposed, toolset>>

(* A channel calls for a message, when the chat's last call has settled.    *)
FromChat(k) == ~IsSubagent(k) /\ stage[k] \in Settled /\ Execute(k, Nobody)

(* The agent-execute tool of a session: a new key, and a wait for its call. *)
Delegate(o, k) ==
    /\ IsSubagent(k) /\ Parent(k) = o[2] /\ stage[k] = "free"
    /\ o \in run
    /\ "agent.execute" \in made[o]
    /\ Execute(k, o)

(* createCustomTools: what is not internal of what the bus has now.         *)
BusTools == methods \cap Tools

(* getCustomTools: less what a whitelist, if it has an entry, leaves out.   *)
CustomTools(f, kind) == IF kind = "strict" THEN BusTools \cap Strict[f] ELSE BusTools

(* The persona file says `kind` ("blank" when there is no persona).         *)
Gather(k, f, kind) ==
    /\ toolset' = [toolset EXCEPT ![k] = CustomTools(f, kind)]
    /\ Goto(k, "building")

LoadSubagentPersona(k) ==
    /\ stage[k] = "persona" /\ IsSubagent(k)
    /\ Gather(k, "subagent", persona["subagent"])
    /\ UNCHANGED <<fileVars, lifeVars, objVars, by, owner>>

(* No persona for a channel that init() did not see, and none for any       *)
(* channel without default.md.                                              *)
LoadChannelPersona(k) ==
    /\ stage[k] = "persona" /\ ~IsSubagent(k)
    /\ IF by[k] \in known /\ default # "missing"
       THEN Goto(k, "ensuring") /\ UNCHANGED toolset
       ELSE Gather(k, "channel", "blank")
    /\ UNCHANGED <<fileVars, lifeVars, objVars, by, owner>>

(* ensureChannelPersonaFiles: copy default.md when the file is not there.   *)
EnsurePersona(k) ==
    /\ stage[k] = "ensuring"
    /\ IF persona["channel"] # "missing"
       THEN Goto(k, "reading") /\ UNCHANGED persona
       ELSE IF default = "missing"
       THEN Goto(k, "failed") /\ UNCHANGED persona
       ELSE Goto(k, "copying") /\ persona' = [persona EXCEPT !["channel"] = "blank"]
    /\ UNCHANGED <<default, edits, configured, lax, lifeVars, objVars, by, owner, toolset>>

CopyEnds(k) ==
    /\ stage[k] = "copying"
    /\ \/ Goto(k, "reading") /\ persona' = [persona EXCEPT !["channel"] = default]
       \/ Goto(k, "failed") /\ UNCHANGED persona
    /\ UNCHANGED <<default, edits, configured, lax, lifeVars, objVars, by, owner, toolset>>

ReadPersona(k) ==
    /\ stage[k] = "reading"
    /\ Gather(k, "channel", persona["channel"])
    /\ UNCHANGED <<fileVars, lifeVars, objVars, by, owner>>

(* The prompt's files, the resource loader and Pi are through: the session  *)
(* is in the map of the instance that served the call, and gets its prompt. *)
Create(k) ==
    /\ stage[k] = "building"
    /\ made' = [made EXCEPT ![Object(k)] = toolset[k]]
    /\ cached' = cached \cup {Object(k)}
    /\ run' = run \cup {Object(k)}
    /\ Goto(k, "prompting")
    /\ toolset' = [toolset EXCEPT ![k] = {}]
    /\ UNCHANGED <<fileVars, lifeVars, disposed, by, owner>>

CreateFails(k) ==
    /\ stage[k] = "building"
    /\ Goto(k, "failed")
    /\ toolset' = [toolset EXCEPT ![k] = {}]
    /\ UNCHANGED <<fileVars, lifeVars, objVars, by, owner>>

(* A run awaits the tool calls it has made.                                 *)
Awaits(o) == {k \in Keys : owner[k] = o /\ stage[k] \notin Settled}

(* The run ends, with an answer or an error; so does the call, if it has    *)
(* not timed out.                                                           *)
RunEnds(o, outcome) ==
    /\ o \in run
    /\ Awaits(o) = {}
    /\ run' = run \ {o}
    /\ IF Object(o[2]) = o /\ stage[o[2]] = "prompting"
       THEN Goto(o[2], outcome) ELSE UNCHANGED stage
    /\ UNCHANGED <<fileVars, lifeVars, made, cached, disposed, by, owner, toolset>>

(* withTimeout gives up on the prompt, but the run goes on.  Every call has *)
(* the same limit: the timer of the call that a subagent works for was set  *)
(* before, and has fired or does not count any more.                        *)
TimesOut(k) ==
    /\ stage[k] = "prompting"
    /\ IsSubagent(k) => stage[owner[k][2]] # "prompting" \/ Object(owner[k][2]) # owner[k]
    /\ Goto(k, "timedOut")
    /\ UNCHANGED <<fileVars, lifeVars, objVars, by, owner, toolset>>

Next ==
    \/ ReadConfig \/ RegisterMethods \/ InitFails \/ Dispose \/ Reload
    \/ RegisterChannel \/ DeleteDefault
    \/ \E f \in Files : SaveBegins(f) \/ \E kind \in {"open", "strict"} : SaveEnds(f, kind)
    \/ \E k \in Keys :
        \/ FromChat(k) \/ LoadSubagentPersona(k) \/ LoadChannelPersona(k) \/ EnsurePersona(k)
        \/ CopyEnds(k) \/ ReadPersona(k) \/ Create(k) \/ CreateFails(k) \/ TimesOut(k)
        \/ \E o \in Objects : Delegate(o, k)
    \/ \E o \in Objects, outcome \in {"answered", "failed"} : RunEnds(o, outcome)

Spec == Init /\ [][Next]_vars

-----------------------------------------------------------------------------

(* Whoever got an answer has no subagent at work behind it: only calls that *)
(* timed out leave runs that nobody awaits (agent/index.ts:234), all those  *)
(* above them timed out before, and only a chat is asked again after that.  *)
AnswersComplete ==
    \A d \in Keys :
        (/\ IsSubagent(d) /\ Object(d) \in run /\ owner[d] # Nobody
         /\ Object(Parent(d)) = owner[d] /\ stage[Parent(d)] = "answered")
            => stage[d] = "timedOut" /\ ~IsSubagent(Parent(d))

(* While a persona file and default.md stay what they were and have a       *)
(* whitelist, no session has a tool the whitelist leaves out, unless the    *)
(* channel was registered after init() read the configuration (:587).       *)
WhitelistKept ==
    \A o \in Objects : made[o] # None =>
        LET f == IF IsSubagent(o[2]) THEN "subagent" ELSE "channel"
        IN  \/ made[o] \subseteq Strict[f]
            \/ f \in lax
            \/ f = "channel" /\ o[1] \notin known

(* A chat has one session in memory that was not disposed of, unless one    *)
(* was being created while dispose() ran (:164, :385).                      *)
OneLiveSession ==
    \A k \in Keys \ crossed : Cardinality({o \in cached \cup run : o[2] = k} \ disposed) <= 1
=============================================================================
