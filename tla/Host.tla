-------------------------------- MODULE Host --------------------------------
(***************************************************************************)
(* The bus, the service loader and the MCP client service: who registered  *)
(* a method or a listener, whom the bus holds it for, and what a reload    *)
(* (bus.restart) releases.  A Load names one load of a service and the     *)
(* instance that it creates.                                               *)
(*                                                                         *)
(* A service other than Mcp stands for channel, cron or agent: it listens  *)
(* before the first wait of its init() and registers its method after it.  *)
(* Mcp registers mcp.list at once and then connects its servers one by     *)
(* one; every server offers one tool, a method named after the server.     *)
(***************************************************************************)
EXTENDS Naturals, FiniteSets

CONSTANTS Services,  \* services on disk
          Edges,     \* those under edge/, loaded after the others
          Mcp,       \* services/mcp
          Servers,   \* configured MCP servers
          Loads,     \* loads, numbered as they begin: the bound on restarts
          None

ASSUME HostAssumption ==
    /\ Mcp \in Services \ Edges
    /\ Edges \subseteq Services
    /\ Loads \subseteq Nat
    /\ None \notin Services \cup Loads
    /\ \A N \in SUBSET (Services \cup Servers) : None # N

VARIABLES
    registry,        \* EmitterBus.registry: method -> entry
    wiring,          \* EmitterBus.wiring[s].methods, None without an entry
    offs,            \* EmitterBus.wiring[s].offs: instances whose listener it holds
    listening,       \* instances with a listener on the emitter
    loadingService,  \* EmitterBus.loadingService
    specs,           \* ServiceLoader.specs
    instances,       \* ServiceLoader.instances
    stage, target,   \* where each load is, and the service it loads
    old,             \* the instance a restart found and disposes of
    booting,         \* the load that boot.ts waits for
    disposed,        \* instances whose dispose() has returned
    conn,            \* each instance's connection to each server
    down,            \* boot.ts gave up: process.exit(1)
    overlapped       \* history: a restart began while another load was running

busVars == <<registry, wiring, offs, listening, loadingService>>
loadVars == <<specs, instances, stage, target, old, booting, disposed, down, overlapped>>
vars == <<busVars, loadVars, conn>>

Names == Services \cup Servers
Entries == [service: Services, by: Loads]
Busy == {"disposing", "importing", "init", "connecting"}
Created == {l \in Loads : stage[l] \in {"init", "connecting", "live", "broken"}}
Registered == {n \in Names : registry[n] # None}

TypeOK ==
    /\ registry \in [Names -> Entries \cup {None}]
    /\ wiring \in [Services -> (SUBSET Names) \cup {None}]
    /\ offs \in [Services -> SUBSET Loads]
    /\ listening \subseteq Loads
    /\ loadingService \in Services \cup {None}
    /\ specs \subseteq Services
    /\ instances \in [Services -> Loads \cup {None}]
    /\ stage \in [Loads -> Busy \cup {"idle", "live", "broken", "unloadable"}]
    /\ target \in [Loads -> Services \cup {None}]
    /\ old \in [Loads -> Loads \cup {None}]
    /\ booting \in Loads \cup {None}
    /\ disposed \subseteq Loads
    /\ conn \in [Loads -> [Servers -> {"none", "trying", "late", "failed", "open", "lateOpen", "closed"}]]
    /\ down \in BOOLEAN
    /\ overlapped \in BOOLEAN

Init ==
    /\ registry = [n \in Names |-> None]
    /\ wiring = [s \in Services |-> None]
    /\ offs = [s \in Services |-> {}]
    /\ listening = {}
    /\ loadingService = None
    /\ specs = {}
    /\ instances = [s \in Services |-> None]
    /\ stage = [l \in Loads |-> "idle"]
    /\ target = [l \in Loads |-> None]
    /\ old = target
    /\ booting = None
    /\ disposed = {}
    /\ conn = [l \in Loads |-> [x \in Servers |-> "none"]]
    /\ down = FALSE
    /\ overlapped = FALSE

-----------------------------------------------------------------------------
(* The bus *)

(* A registration by instance l: attributed to the service being loaded,    *)
(* else to the one its name begins with, and tracked if that one has an     *)
(* entry in wiring.  The caller has checked that the name is free.          *)
Attributed(s) == IF loadingService # None THEN loadingService ELSE s

Register(n, l) ==
    LET s == Attributed(target[l])
    IN  /\ registry' = [registry EXCEPT ![n] = [service |-> s, by |-> l]]
        /\ wiring' = IF wiring[s] = None THEN wiring
                     ELSE [wiring EXCEPT ![s] = @ \cup {n}]

(* bus.on within the first step of init: the loader has just set            *)
(* loadingService.                                                          *)
Listen(l) ==
    /\ listening' = listening \cup {l}
    /\ offs' = [offs EXCEPT ![target[l]] = @ \cup {l}]

BeginLoading(s) ==
    /\ loadingService' = s
    /\ wiring' = [wiring EXCEPT ![s] = IF @ = None THEN {} ELSE @]

EndLoading == loadingService' = None

(* releaseService(s), unless s is None, and the unregister by name of tools *)
(* with which the MCP service's dispose() goes on.                          *)
ToolsOf(i) == {x \in Servers : i # None /\ conn[i][x] \in {"open", "lateOpen"}}
Held(s) == IF s = None \/ wiring[s] = None THEN {} ELSE wiring[s]
HeldFor(n, s) == registry[n] # None /\ registry[n].service = s

(* Fault: the listeners are forgotten but never taken off the emitter.      *)
ReleaseMethodsOnly(s, tools) ==
    /\ registry' = [n \in Names |-> IF n \in Held(s) \cup tools THEN None ELSE registry[n]]
    /\ wiring' = [t \in Services |->
                    IF t = s THEN None
                    ELSE IF wiring[t] = None THEN None ELSE wiring[t] \ tools]
    /\ offs' = [t \in Services |-> IF t = s THEN {} ELSE offs[t]]
    /\ UNCHANGED listening

Release(s, tools) ==
    /\ registry' = [n \in Names |-> IF n \in Held(s) \cup tools THEN None ELSE registry[n]]
    /\ wiring' = [t \in Services |->
                    IF t = s \/ wiring[t] = None THEN None
                    ELSE {n \in wiring[t] : n \notin tools \/ ~HeldFor(n, t)}]
    /\ listening' = listening \ (IF s = None THEN {} ELSE offs[s])
    /\ offs' = [t \in Services |-> IF t = s THEN {} ELSE offs[t]]

-----------------------------------------------------------------------------
(* The loader *)

AnyBusy == \E l \in Loads : stage[l] \in Busy
NextLoad(l) == stage[l] = "idle" /\ \A k \in Loads : k < l => stage[k] # "idle"

(* discoverServices: core services come in the order of their priority;     *)
(* here Mcp (40) after every service of the default priority.               *)
CoreTurn(s) == s \notin Edges /\ (s = Mcp => Services \ (Edges \cup {Mcp}) \subseteq specs)

(* discoverEdgeServices: boot.ts loads these when the core services are up. *)
EdgeTurn(s) == s \in Edges /\ Services \ Edges \subseteq specs

BootLoad(l, s) ==
    /\ booting = None /\ NextLoad(l)
    /\ s \notin specs /\ (CoreTurn(s) \/ EdgeTurn(s))
    /\ booting' = l
    /\ specs' = specs \cup {s}
    /\ stage' = [stage EXCEPT ![l] = "importing"]
    /\ target' = [target EXCEPT ![l] = s]
    /\ overlapped' = (overlapped \/ AnyBusy)
    /\ UNCHANGED <<busVars, instances, old, disposed, conn, down>>

(* bus.restart: unload up to the wait for dispose(), or, without an         *)
(* instance, up to the wait for import().                                   *)
Restart(l, s) ==
    /\ NextLoad(l) /\ s \in specs
    /\ Release(s, ToolsOf(instances[s]))
    /\ stage' = [stage EXCEPT ![l] = IF instances[s] = None THEN "importing" ELSE "disposing"]
    /\ target' = [target EXCEPT ![l] = s]
    /\ old' = [old EXCEPT ![l] = instances[s]]
    /\ overlapped' = (overlapped \/ AnyBusy)
    /\ UNCHANGED <<loadingService, specs, instances, booting, disposed, conn, down>>

(* dispose() has returned or thrown.  It has closed what its servers map    *)
(* held by then; the loader drops whichever instance its own map holds now. *)
Disposed(l) ==
    /\ stage[l] = "disposing"
    /\ stage' = [stage EXCEPT ![l] = "importing"]
    /\ Release(None, ToolsOf(old[l]))
    /\ instances' = [instances EXCEPT ![target[l]] = None]
    /\ disposed' = disposed \cup {old[l]}
    /\ conn' = [conn EXCEPT ![old[l]] =
                  [x \in Servers |-> IF x \in ToolsOf(old[l]) THEN "closed" ELSE @[x]]]
    /\ UNCHANGED <<loadingService, specs, target, old, booting, down, overlapped>>

(* The end of load l.  When boot waits for it, boot goes on, or, if a core  *)
(* service has failed to load, ends the process.                            *)
Ends(l, outcome) ==
    /\ stage' = [stage EXCEPT ![l] = outcome]
    /\ booting' = IF booting = l THEN None ELSE booting
    /\ down' = (booting = l /\ outcome # "live" /\ target[l] \notin Edges)

ImportFails(l) ==
    /\ stage[l] = "importing"
    /\ Ends(l, "unloadable")
    /\ UNCHANGED <<busVars, specs, instances, target, old, disposed, conn, overlapped>>

(* import() has returned: the instance takes its place in the map before    *)
(* init() begins, and init() runs up to its first wait.                     *)
ImportedMcp(l) ==
    /\ stage[l] = "importing" /\ target[l] = Mcp
    /\ instances' = [instances EXCEPT ![Mcp] = l]
    /\ IF registry[Mcp] = None
       THEN /\ loadingService' = Mcp
            /\ registry' = [registry EXCEPT ![Mcp] = [service |-> Mcp, by |-> l]]
            /\ wiring' = [wiring EXCEPT ![Mcp] = IF @ = None THEN {Mcp} ELSE @ \cup {Mcp}]
            /\ stage' = [stage EXCEPT ![l] = "connecting"]
            /\ UNCHANGED <<booting, down>>
       ELSE /\ wiring' = [wiring EXCEPT ![Mcp] = IF @ = None THEN {} ELSE @]
            /\ EndLoading
            /\ Ends(l, "broken")
            /\ UNCHANGED registry
    /\ UNCHANGED <<listening, offs, specs, target, old, disposed, conn, overlapped>>

ImportedPlain(l) ==
    /\ stage[l] = "importing" /\ target[l] # Mcp
    /\ instances' = [instances EXCEPT ![target[l]] = l]
    /\ BeginLoading(target[l])
    /\ Listen(l)
    /\ stage' = [stage EXCEPT ![l] = "init"]
    /\ UNCHANGED <<registry, specs, target, old, booting, disposed, conn, down, overlapped>>

(* The rest of a plain service's init: it registers its method, which may   *)
(* be taken, and the loader's finally closes the bracket.                   *)
InitEnds(l) ==
    LET s == target[l]
    IN  /\ stage[l] = "init"
        /\ EndLoading
        /\ IF registry[s] = None
           THEN Register(s, l) /\ Ends(l, "live")
           ELSE Ends(l, "broken") /\ UNCHANGED <<registry, wiring>>
        /\ UNCHANGED <<listening, offs, specs, instances, target, old, disposed, conn, overlapped>>

(* init() throws after its first wait.  What it has registered stays, and   *)
(* so does the instance, until a restart unloads it.                        *)
InitFails(l) ==
    /\ stage[l] = "init"
    /\ EndLoading
    /\ Ends(l, "broken")
    /\ UNCHANGED <<registry, wiring, listening, offs, specs, instances, target, old, disposed,
                   conn, overlapped>>

-----------------------------------------------------------------------------
(* The MCP client: start() takes the servers one after the other, giving    *)
(* each five seconds; a connection that takes longer goes on regardless.    *)

Trying(l) == {x \in Servers : conn[l][x] = "trying"}

Connect(l, x) ==
    /\ stage[l] = "connecting" /\ Trying(l) = {}
    /\ conn[l][x] = "none"
    /\ \E c \in {"trying", "failed"} : conn' = [conn EXCEPT ![l][x] = c]
    /\ UNCHANGED <<busVars, loadVars>>

(* connectServer after listTools: the server joins the map, its tool the    *)
(* registry.  A name already taken throws, and the transport is closed.     *)
Connected(l, x) ==
    /\ conn[l][x] \in {"trying", "late"}
    /\ IF registry[x] = None
       THEN /\ Register(x, l)
            /\ conn' = [conn EXCEPT ![l][x] = IF @ = "late" THEN "lateOpen" ELSE "open"]
       ELSE /\ conn' = [conn EXCEPT ![l][x] = "failed"]
            /\ UNCHANGED <<registry, wiring>>
    /\ UNCHANGED <<listening, offs, loadingService, loadVars>>

(* The process does not start, the handshake fails, or the five seconds     *)
(* pass first.                                                              *)
ConnectFails(l, x) ==
    /\ \/ conn[l][x] \in {"trying", "late"} /\ conn' = [conn EXCEPT ![l][x] = "failed"]
       \/ conn[l][x] = "trying" /\ conn' = [conn EXCEPT ![l][x] = "late"]
    /\ UNCHANGED <<busVars, loadVars>>

Started(l) ==
    /\ stage[l] = "connecting"
    /\ \A x \in Servers : conn[l][x] \notin {"none", "trying"}
    /\ EndLoading
    /\ Ends(l, "live")
    /\ UNCHANGED <<registry, wiring, listening, offs, specs, instances, target, old, disposed,
                   conn, overlapped>>

-----------------------------------------------------------------------------
Next ==
    /\ ~down
    /\ \E l \in Loads :
        \/ \E s \in Services : BootLoad(l, s) \/ Restart(l, s)
        \/ Disposed(l) \/ ImportFails(l) \/ ImportedMcp(l) \/ ImportedPlain(l)
        \/ InitEnds(l) \/ InitFails(l) \/ Started(l)
        \/ \E x \in Servers : Connect(l, x) \/ Connected(l, x) \/ ConnectFails(l, x)

Spec == Init /\ [][Next]_vars

-----------------------------------------------------------------------------
(* Properties *)

(* The bracket of loader.load closes whatever init() does: with no init()   *)
(* running, the bus attributes nothing to a service it is not loading.      *)
BracketCloses ==
    (\A l \in Loads : stage[l] \notin {"init", "connecting"}) => loadingService = None

Late(n) == n \in Servers /\ conn[registry[n].by][n] = "lateOpen"

(* As long as reloads do not overlap, every method and every listener       *)
(* belongs to the present instance of the service the bus holds it for, so  *)
(* that the next reload releases it; an instance that was replaced has been *)
(* disposed of and keeps no server process.  A tool whose server came up    *)
(* after its five seconds is the exception: the bus may hold it for nobody, *)
(* or for the service that happened to be loading.                          *)
WiringFollows ==
    ~overlapped =>
        /\ \A n \in Registered : ~Late(n) =>
              LET e == registry[n]
              IN  /\ e.service = target[e.by]
                  /\ instances[e.service] = e.by
                  /\ wiring[e.service] # None /\ n \in wiring[e.service]
        /\ \A l \in listening : instances[target[l]] = l /\ l \in offs[target[l]]
        /\ \A l \in Created \ disposed : instances[target[l]] = l
        /\ \A l \in disposed, x \in Servers : conn[l][x] # "open"

(* What the bus and the loader hold belongs to the present instances,       *)
(* whatever init() does; with the types.                                    *)
ReloadsFollow == TypeOK /\ BracketCloses /\ WiringFollows
=============================================================================
