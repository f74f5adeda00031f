------------------------------ MODULE Host_proofs ------------------------------
(***************************************************************************)
(* That a reload releases what the bus and the loader hold for a service,  *)
(* for any services, MCP servers and number of loads; and the invariants   *)
(* of the parts of MCHost that are the daemon's: Overflow, Rpc, Webhooks,  *)
(* CliPairing and Media.                                                   *)
(***************************************************************************)
EXTENDS MCHost, TLAPS

-----------------------------------------------------------------------------
(* The inductive invariant *)

\* Where things come from, however many loads overlap: what names a load names one whose
\* import has returned, and whoever connects to a server is an instance of Mcp.
Provenance ==
    /\ \A l \in Loads :
        /\ stage[l] # "idle" => target[l] \in specs
        /\ stage[l] = "connecting" => target[l] = Mcp
        /\ stage[l] = "disposing" => old[l] \in Created /\ target[old[l]] = target[l]
        /\ \A x \in Servers :
            /\ conn[l][x] # "none" => l \in Created /\ target[l] = Mcp
            /\ conn[l][x] = "trying" => stage[l] = "connecting"
    /\ \A s \in Services : instances[s] # None => instances[s] \in Created /\ target[instances[s]] = s
    /\ \A n \in Registered : registry[n].by \in Created
    /\ listening \cup disposed \subseteq Created

\* While no two loads overlap there is one of them at a time.
OneAtATime == \A l, k \in Loads : stage[l] \in Busy /\ stage[k] \in Busy => l = k

\* A service being disposed of has been released; one being imported has no instance; one
\* whose init() runs is the one the bus attributes registrations to.
LoadInv ==
    \A l \in Loads :
        /\ stage[l] = "disposing" =>
            /\ old[l] = instances[target[l]]
            /\ \A n \in Registered : ~Late(n) => registry[n].service # target[l]
            /\ \A k \in listening : target[k] # target[l]
        /\ stage[l] = "importing" => instances[target[l]] = None
        /\ stage[l] \in {"init", "connecting"} =>
            /\ instances[target[l]] = l
            /\ loadingService = target[l]
            /\ wiring[target[l]] # None

\* The loader's map never leads back to an instance that was disposed of.
DisposedInv == \A l \in disposed : instances[target[l]] # l

\* WiringFollows, part by part.
MethodsInv ==
    \A n \in Registered : ~Late(n) =>
        /\ registry[n].service = target[registry[n].by]
        /\ instances[registry[n].service] = registry[n].by
        /\ wiring[registry[n].service] # None /\ n \in wiring[registry[n].service]
ListenersInv == \A l \in listening : instances[target[l]] = l /\ l \in offs[target[l]]
CurrentInv == \A l \in Created \ disposed : instances[target[l]] = l
ClosedInv == \A l \in disposed, x \in Servers : conn[l][x] # "open"

Calm == /\ OneAtATime /\ LoadInv /\ DisposedInv
        /\ MethodsInv /\ ListenersInv /\ CurrentInv /\ ClosedInv

TInv == TypeOK /\ Provenance /\ BracketCloses
IInv == TInv /\ (~overlapped => Calm)

-----------------------------------------------------------------------------
(* What the operators of the bus do *)

LEMMA Typed == TypeOK => /\ stage \in [Loads -> Busy \cup {"idle", "live", "broken", "unloadable"}]
                         /\ Created \subseteq Loads /\ Registered \subseteq Names
                         /\ \A n \in Registered : registry[n] \in Entries
BY DEF TypeOK, Created, Registered

LEMMA NoneIsNot == None \notin Services /\ None \notin Loads /\ Mcp \in Services
BY HostAssumption

LEMMA ToolsTyped == ASSUME NEW i \in Loads \cup {None} PROVE ToolsOf(i) \subseteq Servers
BY DEF ToolsOf

\* A release only takes away: what the released service held, and the tools.
LEMMA ReleaseTakes ==
  ASSUME TypeOK, NEW s \in Services \cup {None}, NEW tools \in SUBSET Servers, Release(s, tools)
  PROVE  /\ registry' \in [Names -> Entries \cup {None}]
         /\ wiring' \in [Services -> (SUBSET Names) \cup {None}]
         /\ offs' \in [Services -> SUBSET Loads]
         /\ listening' \subseteq listening
         /\ \A n \in Registered' : n \in Registered /\ registry'[n] = registry[n]
                                   /\ n \notin Held(s) \cup tools
<1>1. registry' \in [Names -> Entries \cup {None}]
  BY DEF Release, TypeOK
<1>2. wiring' \in [Services -> (SUBSET Names) \cup {None}]
  BY DEF Release, TypeOK
<1>3. offs' \in [Services -> SUBSET Loads] /\ listening' \subseteq listening
  BY DEF Release, TypeOK
<1>4. \A n \in Registered' : n \in Registered /\ registry'[n] = registry[n]
                             /\ n \notin Held(s) \cup tools
  BY DEF Release, TypeOK, Registered
<1>5. QED
  BY <1>1, <1>2, <1>3, <1>4

LEMMA RegisterTypes ==
  ASSUME TypeOK, NEW n \in Names, NEW l \in Loads, target[l] \in Services, Register(n, l)
  PROVE  /\ Attributed(target[l]) \in Services
         /\ registry' \in [Names -> Entries \cup {None}]
         /\ wiring' \in [Services -> (SUBSET Names) \cup {None}]
<1>1. Attributed(target[l]) \in Services
  BY DEF TypeOK, Attributed
<1>2. registry' \in [Names -> Entries \cup {None}]
  BY <1>1 DEF Register, TypeOK, Entries
<1>3. wiring' \in [Services -> (SUBSET Names) \cup {None}]
  BY <1>1 DEF Register, TypeOK
<1>4. QED
  BY <1>1, <1>2, <1>3

LEMMA BeginTypes ==
  ASSUME TypeOK, NEW s \in Services, BeginLoading(s)
  PROVE  /\ loadingService' \in Services
         /\ wiring' \in [Services -> (SUBSET Names) \cup {None}]
BY DEF BeginLoading, TypeOK

-----------------------------------------------------------------------------
(* Types, provenance and the bracket *)

LEMMA InitTyped == Init => TInv
<1> SUFFICES ASSUME Init PROVE TInv
  OBVIOUS
<1> USE HostAssumption
<1>1. TypeOK
  BY DEF Init, TypeOK
<1>2. Registered = {} /\ listening = {} /\ disposed = {}
  BY DEF Init, Registered
<1>3. Provenance
  BY <1>2 DEF Init, Provenance
<1>4. BracketCloses
  BY DEF Init, BracketCloses
<1>5. QED
  BY <1>1, <1>3, <1>4 DEF TInv

LEMMA BootLoadTyped ==
  ASSUME TInv, NEW l \in Loads, NEW s \in Services, BootLoad(l, s)
  PROVE  TInv'
<1> USE HostAssumption
<1>1. stage[l] = "idle" /\ stage' = [stage EXCEPT ![l] = "importing"]
      /\ target' = [target EXCEPT ![l] = s] /\ specs' = specs \cup {s}
      /\ UNCHANGED <<busVars, instances, old, disposed, conn, down>>
  BY DEF BootLoad, NextLoad
<1>2. TypeOK'
  <2>1. stage' \in [Loads -> Busy \cup {"idle", "live", "broken", "unloadable"}]
    BY <1>1 DEF TInv, TypeOK, Busy
  <2>2. target' \in [Loads -> Services \cup {None}] /\ specs' \subseteq Services
        /\ booting' \in Loads \cup {None} /\ overlapped' \in BOOLEAN
    BY <1>1 DEF TInv, TypeOK, BootLoad
  <2>3. QED
    BY <1>1, <2>1, <2>2 DEF TInv, TypeOK, busVars
<1>3. l \notin Created /\ Created' = Created
  BY <1>1 DEF TInv, TypeOK, Created
<1>4. Provenance'
  BY <1>1, <1>3 DEF TInv, TypeOK, Provenance, busVars, Registered
<1>5. BracketCloses'
  BY <1>1 DEF TInv, TypeOK, BracketCloses, busVars
<1>6. QED
  BY <1>2, <1>4, <1>5 DEF TInv

LEMMA RestartTyped ==
  ASSUME TInv, NEW l \in Loads, NEW s \in Services, Restart(l, s)
  PROVE  TInv'
<1> USE NoneIsNot
<1> DEFINE first == IF instances[s] = None THEN "importing" ELSE "disposing"
           tools == ToolsOf(instances[s])
<1>1. /\ stage[l] = "idle" /\ s \in specs /\ Release(s, tools)
      /\ stage' = [stage EXCEPT ![l] = first] /\ target' = [target EXCEPT ![l] = s]
      /\ old' = [old EXCEPT ![l] = instances[s]] /\ overlapped' = (overlapped \/ AnyBusy)
      /\ UNCHANGED <<loadingService, specs, instances, booting, disposed, conn, down>>
  BY DEF Restart, NextLoad
<1>2. instances[s] \in Loads \cup {None} /\ tools \in SUBSET Servers /\ TypeOK
  BY ToolsTyped DEF TInv, TypeOK
<1>3. /\ registry' \in [Names -> Entries \cup {None}]
      /\ wiring' \in [Services -> (SUBSET Names) \cup {None}]
      /\ offs' \in [Services -> SUBSET Loads]
      /\ listening' \subseteq listening
      /\ \A n \in Registered' : n \in Registered /\ registry'[n] = registry[n]
  <2> HIDE DEF tools
  <2>1. QED
    BY <1>1, <1>2, ReleaseTakes
<1>4. TypeOK'
  <2>1. stage' \in [Loads -> Busy \cup {"idle", "live", "broken", "unloadable"}]
    BY <1>1, <1>2 DEF TypeOK, Busy
  <2>2. target' \in [Loads -> Services \cup {None}] /\ old' \in [Loads -> Loads \cup {None}]
        /\ listening' \subseteq Loads /\ overlapped' \in BOOLEAN
    BY <1>1, <1>2, <1>3 DEF TypeOK
  <2>3. QED
    BY <1>1, <1>2, <1>3, <2>1, <2>2 DEF TypeOK
<1>5. l \notin Created /\ Created' = Created
  BY <1>1, <1>2 DEF TypeOK, Created
<1>6. Provenance'
  BY <1>1, <1>2, <1>3, <1>5 DEF TInv, TypeOK, Provenance
<1>7. BracketCloses'
  BY <1>1, <1>2 DEF TInv, TypeOK, BracketCloses
<1>8. QED
  BY <1>4, <1>6, <1>7 DEF TInv

\* What an instance has open is closed, and nothing else.
Closing(i) == [conn EXCEPT ![i] = [x \in Servers |-> IF x \in ToolsOf(i) THEN "closed" ELSE @[x]]]

LEMMA ClosingCloses ==
  ASSUME TypeOK, NEW i \in Loads, conn' = Closing(i)
  PROVE  /\ conn' \in [Loads -> [Servers -> {"none", "trying", "late", "failed", "open",
                                           "lateOpen", "closed"}]]
         /\ \A l \in Loads, x \in Servers :
              /\ ~(l = i /\ x \in ToolsOf(i)) => conn'[l][x] = conn[l][x]
              /\ conn'[l][x] # conn[l][x] => conn'[l][x] = "closed" /\ conn[l][x] # "none"
         /\ \A x \in Servers : conn'[i][x] # "open"
<1> USE NoneIsNot
<1>1. \A x \in Servers : x \in ToolsOf(i) <=> conn[i][x] \in {"open", "lateOpen"}
  BY DEF ToolsOf
<1> DEFINE row == [x \in Servers |-> IF x \in ToolsOf(i) THEN "closed" ELSE conn[i][x]]
<1>2. conn' = [conn EXCEPT ![i] = row]
  BY DEF Closing, TypeOK
<1>3. row \in [Servers -> {"none", "trying", "late", "failed", "open", "lateOpen", "closed"}]
      /\ \A x \in Servers : row[x] = IF x \in ToolsOf(i) THEN "closed" ELSE conn[i][x]
  BY DEF TypeOK
<1> HIDE DEF row
<1>4. \A l \in Loads : conn'[l] = IF l = i THEN row ELSE conn[l]
  BY <1>2 DEF TypeOK
<1>5. conn' \in [Loads -> [Servers -> {"none", "trying", "late", "failed", "open", "lateOpen",
                                       "closed"}]]
  BY <1>2, <1>3 DEF TypeOK
<1>6. \A l \in Loads, x \in Servers :
        /\ ~(l = i /\ x \in ToolsOf(i)) => conn'[l][x] = conn[l][x]
        /\ conn'[l][x] # conn[l][x] => conn'[l][x] = "closed" /\ conn[l][x] # "none"
  BY <1>1, <1>3, <1>4
<1>7. \A x \in Servers : conn'[i][x] # "open"
  BY <1>1, <1>3, <1>4
<1>8. QED
  BY <1>5, <1>6, <1>7

LEMMA DisposedDoes ==
  ASSUME TInv, NEW l \in Loads, Disposed(l)
  PROVE  /\ stage[l] = "disposing" /\ old[l] \in Created /\ target[l] \in Services
         /\ target[old[l]] = target[l] /\ ToolsOf(old[l]) \in SUBSET Servers
         /\ Release(None, ToolsOf(old[l])) /\ stage' = [stage EXCEPT ![l] = "importing"]
         /\ instances' = [instances EXCEPT ![target[l]] = None]
         /\ disposed' = disposed \cup {old[l]} /\ conn' = Closing(old[l])
         /\ UNCHANGED <<loadingService, specs, target, old, booting, down, overlapped>>
<1>1. old[l] \in Created /\ target[old[l]] = target[l] /\ target[l] \in Services
      /\ stage[l] = "disposing"
  BY DEF TInv, TypeOK, Provenance, Disposed
<1>2. ToolsOf(old[l]) \in SUBSET Servers
  BY <1>1, ToolsTyped DEF Created
<1>3. QED
  BY <1>1, <1>2 DEF Disposed, Closing

LEMMA DisposedTyped ==
  ASSUME TInv, NEW l \in Loads, Disposed(l)
  PROVE  TInv'
<1> USE NoneIsNot
<1> DEFINE tools == ToolsOf(old[l])
<1>1. /\ stage[l] = "disposing" /\ old[l] \in Created /\ target[l] \in Services
      /\ target[old[l]] = target[l] /\ tools \in SUBSET Servers
      /\ Release(None, tools) /\ stage' = [stage EXCEPT ![l] = "importing"]
      /\ instances' = [instances EXCEPT ![target[l]] = None]
      /\ disposed' = disposed \cup {old[l]} /\ conn' = Closing(old[l])
      /\ UNCHANGED <<loadingService, specs, target, old, booting, down, overlapped>>
  BY DisposedDoes
<1> HIDE DEF tools
<1>2. /\ registry' \in [Names -> Entries \cup {None}]
      /\ wiring' \in [Services -> (SUBSET Names) \cup {None}]
      /\ offs' \in [Services -> SUBSET Loads]
      /\ listening' \subseteq listening
      /\ \A n \in Registered' : n \in Registered /\ registry'[n] = registry[n]
  BY <1>1, ReleaseTakes DEF TInv
<1>3. old[l] \in Loads
  BY <1>1 DEF Created
<1>4. /\ conn' \in [Loads -> [Servers -> {"none", "trying", "late", "failed", "open",
                                          "lateOpen", "closed"}]]
      /\ \A k \in Loads, x \in Servers :
           conn'[k][x] = conn[k][x] \/ (conn'[k][x] = "closed" /\ conn[k][x] # "none")
  <2>1. TypeOK /\ conn' = Closing(old[l])
    BY <1>1 DEF TInv
  <2>2. QED
    BY <1>3, <2>1, ClosingCloses
<1>5. TypeOK'
  <2>1. stage' \in [Loads -> Busy \cup {"idle", "live", "broken", "unloadable"}]
    BY <1>1 DEF TInv, TypeOK, Busy
  <2>2. instances' \in [Services -> Loads \cup {None}] /\ disposed' \subseteq Loads
        /\ listening' \subseteq Loads
    BY <1>1, <1>2, <1>3 DEF TInv, TypeOK
  <2>3. QED
    BY <1>1, <1>2, <1>4, <2>1, <2>2 DEF TInv, TypeOK
<1>6. Created' = Created
  BY <1>1 DEF TInv, TypeOK, Created
<1>7. Provenance'
  <2> USE <1>1, <1>6 DEF TInv, TypeOK, Provenance
  <2>1. \A k \in Loads :
          /\ stage'[k] # "idle" => target'[k] \in specs'
          /\ stage'[k] = "connecting" => target'[k] = Mcp
          /\ stage'[k] = "disposing" => old'[k] \in Created' /\ target'[old'[k]] = target'[k]
    OBVIOUS
  <2>2. \A k \in Loads, x \in Servers :
          /\ conn'[k][x] # "none" => k \in Created' /\ target'[k] = Mcp
          /\ conn'[k][x] = "trying" => stage'[k] = "connecting"
    BY <1>4
  <2>3. \A s \in Services : instances'[s] # None =>
          instances'[s] \in Created' /\ target'[instances'[s]] = s
    OBVIOUS
  <2>4. \A n \in Registered' : registry'[n].by \in Created'
    BY <1>2
  <2>5. listening' \cup disposed' \subseteq Created'
    BY <1>2
  <2>6. QED
    BY <2>1, <2>2, <2>3, <2>4, <2>5
<1>8. BracketCloses'
  BY <1>1 DEF TInv, TypeOK, BracketCloses
<1>9. QED
  BY <1>5, <1>7, <1>8 DEF TInv

\* What the end of a load changes.
LEMMA EndsDoes ==
  ASSUME TypeOK, NEW l \in Loads, NEW o \in {"live", "broken", "unloadable"}, Ends(l, o)
  PROVE  /\ stage' = [stage EXCEPT ![l] = o]
         /\ stage' \in [Loads -> Busy \cup {"idle", "live", "broken", "unloadable"}]
         /\ booting' \in Loads \cup {None} /\ down' \in BOOLEAN
BY DEF Ends, TypeOK

LEMMA ImportFailsTyped ==
  ASSUME TInv, NEW l \in Loads, ImportFails(l)
  PROVE  TInv'
<1>1. stage[l] = "importing" /\ Ends(l, "unloadable")
      /\ UNCHANGED <<busVars, specs, instances, target, old, disposed, conn, overlapped>>
  BY DEF ImportFails
<1>2. /\ stage' = [stage EXCEPT ![l] = "unloadable"]
      /\ stage' \in [Loads -> Busy \cup {"idle", "live", "broken", "unloadable"}]
      /\ booting' \in Loads \cup {None} /\ down' \in BOOLEAN
  BY <1>1, EndsDoes DEF TInv
<1>3. TypeOK'
  BY <1>1, <1>2 DEF TInv, TypeOK, busVars
<1>4. Created' = Created
  BY <1>1, <1>2 DEF TInv, TypeOK, Created
<1>5. Provenance'
  BY <1>1, <1>2, <1>4 DEF TInv, TypeOK, Provenance, busVars, Registered
<1>6. BracketCloses'
  BY <1>1, <1>2 DEF TInv, TypeOK, BracketCloses, busVars
<1>7. QED
  BY <1>3, <1>5, <1>6 DEF TInv

LEMMA ImportedMcpTyped ==
  ASSUME TInv, NEW l \in Loads, ImportedMcp(l)
  PROVE  TInv'
<1> USE HostAssumption
<1> DEFINE outcome == IF registry[Mcp] = None THEN "connecting" ELSE "broken"
<1>1. /\ stage[l] = "importing" /\ target[l] = Mcp /\ stage' = [stage EXCEPT ![l] = outcome]
      /\ instances' = [instances EXCEPT ![Mcp] = l]
      /\ loadingService' = IF registry[Mcp] = None THEN Mcp ELSE None
      /\ registry' = IF registry[Mcp] = None
                     THEN [registry EXCEPT ![Mcp] = [service |-> Mcp, by |-> l]] ELSE registry
      /\ UNCHANGED <<listening, offs, specs, target, old, disposed, conn, overlapped>>
  BY DEF ImportedMcp, Ends, EndLoading
<1>2. booting' \in Loads \cup {None} /\ down' \in BOOLEAN
  BY DEF ImportedMcp, Ends, TInv, TypeOK
<1>3. wiring' \in [Services -> (SUBSET Names) \cup {None}]
  BY DEF ImportedMcp, TInv, TypeOK, Names
<1>4. TypeOK'
  <2>1. stage' \in [Loads -> Busy \cup {"idle", "live", "broken", "unloadable"}]
    BY <1>1 DEF TInv, TypeOK, Busy
  <2>2. registry' \in [Names -> Entries \cup {None}]
    BY <1>1 DEF TInv, TypeOK, Entries
  <2>3. instances' \in [Services -> Loads \cup {None}] /\ loadingService' \in Services \cup {None}
    BY <1>1 DEF TInv, TypeOK
  <2>4. QED
    BY <1>1, <1>2, <1>3, <2>1, <2>2, <2>3 DEF TInv, TypeOK
<1>5. Created' = Created \cup {l}
  BY <1>1 DEF TInv, TypeOK, Created
<1>6. \A n \in Registered' : (n \in Registered /\ registry'[n] = registry[n])
                             \/ registry'[n].by = l
  BY <1>1 DEF TInv, TypeOK, Registered
<1>7. Provenance'
  BY <1>1, <1>5, <1>6 DEF TInv, TypeOK, Provenance
<1>8. BracketCloses'
  BY <1>1 DEF TInv, TypeOK, BracketCloses
<1>9. QED
  BY <1>4, <1>7, <1>8 DEF TInv

LEMMA ImportedPlainTyped ==
  ASSUME TInv, NEW l \in Loads, ImportedPlain(l)
  PROVE  TInv'
<1> USE HostAssumption
<1>1. /\ stage[l] = "importing" /\ target[l] # Mcp /\ target[l] \in Services
      /\ instances' = [instances EXCEPT ![target[l]] = l]
      /\ BeginLoading(target[l]) /\ Listen(l) /\ stage' = [stage EXCEPT ![l] = "init"]
      /\ UNCHANGED <<registry, specs, target, old, booting, disposed, conn, down, overlapped>>
  BY DEF TInv, TypeOK, Provenance, ImportedPlain
<1>2. /\ loadingService' \in Services
      /\ wiring' \in [Services -> (SUBSET Names) \cup {None}]
  BY <1>1, BeginTypes DEF TInv
<1>3. TypeOK'
  <2>1. stage' \in [Loads -> Busy \cup {"idle", "live", "broken", "unloadable"}]
    BY <1>1 DEF TInv, TypeOK, Busy
  <2>2. /\ instances' \in [Services -> Loads \cup {None}]
        /\ listening' \subseteq Loads /\ offs' \in [Services -> SUBSET Loads]
    BY <1>1 DEF TInv, TypeOK, Listen
  <2>3. QED
    BY <1>1, <1>2, <2>1, <2>2 DEF TInv, TypeOK
<1>4. Created' = Created \cup {l} /\ listening' = listening \cup {l} /\ Registered' = Registered
  BY <1>1 DEF TInv, TypeOK, Created, Listen, Registered
<1>5. Provenance'
  BY <1>1, <1>4 DEF TInv, TypeOK, Provenance
<1>6. BracketCloses'
  BY <1>1 DEF TInv, TypeOK, BracketCloses
<1>7. QED
  BY <1>3, <1>5, <1>6 DEF TInv

LEMMA InitEndsTyped ==
  ASSUME TInv, NEW l \in Loads, InitEnds(l)
  PROVE  TInv'
<1> USE HostAssumption
<1> DEFINE outcome == IF registry[target[l]] = None THEN "live" ELSE "broken"
<1>1. /\ stage[l] = "init" /\ target[l] \in Services /\ loadingService' = None
      /\ Ends(l, outcome)
      /\ \/ Register(target[l], l)
         \/ UNCHANGED <<registry, wiring>>
      /\ UNCHANGED <<listening, offs, specs, instances, target, old, disposed, conn, overlapped>>
  BY DEF TInv, TypeOK, Provenance, InitEnds, EndLoading
<1>2. /\ stage' = [stage EXCEPT ![l] = outcome]
      /\ stage' \in [Loads -> Busy \cup {"idle", "live", "broken", "unloadable"}]
      /\ booting' \in Loads \cup {None} /\ down' \in BOOLEAN
  <2>1. outcome \in {"live", "broken", "unloadable"}
    OBVIOUS
  <2> HIDE DEF outcome
  <2>2. QED
    BY <1>1, <2>1, EndsDoes DEF TInv
<1>3. /\ registry' \in [Names -> Entries \cup {None}]
      /\ wiring' \in [Services -> (SUBSET Names) \cup {None}]
  <2>1. target[l] \in Names
    BY <1>1 DEF Names
  <2>2. QED
    BY <1>1, <2>1, RegisterTypes DEF TInv, TypeOK
<1>4. TypeOK'
  BY <1>1, <1>2, <1>3 DEF TInv, TypeOK
<1>5. Created' = Created /\ l \in Created
  BY <1>1, <1>2 DEF TInv, TypeOK, Created
<1>6. \A n \in Registered' : (n \in Registered /\ registry'[n] = registry[n])
                             \/ registry'[n].by = l
  BY <1>1 DEF TInv, TypeOK, Registered, Register
<1>7. Provenance'
  BY <1>1, <1>2, <1>5, <1>6 DEF TInv, TypeOK, Provenance
<1>8. BracketCloses'
  BY <1>1 DEF BracketCloses
<1>9. QED
  BY <1>4, <1>7, <1>8 DEF TInv

\* init() fails, or the servers have all been tried.
InitOver(l) == InitFails(l) \/ Started(l)

LEMMA InitOverDoes ==
  ASSUME TInv, NEW l \in Loads, InitOver(l)
  PROVE  /\ stage[l] \in {"init", "connecting"} /\ loadingService' = None
         /\ \E o \in {"live", "broken"} : stage' = [stage EXCEPT ![l] = o]
         /\ stage' \in [Loads -> Busy \cup {"idle", "live", "broken", "unloadable"}]
         /\ booting' \in Loads \cup {None} /\ down' \in BOOLEAN
         /\ stage[l] = "connecting" => \A x \in Servers : conn[l][x] # "trying"
         /\ UNCHANGED <<registry, wiring, listening, offs, specs, instances, target, old, disposed,
                        conn, overlapped>>
<1>1. PICK o \in {"live", "broken"} : Ends(l, o)
  BY DEF InitOver, InitFails, Started
<1>2. /\ stage' = [stage EXCEPT ![l] = o]
      /\ stage' \in [Loads -> Busy \cup {"idle", "live", "broken", "unloadable"}]
      /\ booting' \in Loads \cup {None} /\ down' \in BOOLEAN
  BY <1>1, EndsDoes DEF TInv
<1>3. QED
  BY <1>2 DEF InitOver, InitFails, Started, EndLoading

LEMMA InitOverTyped ==
  ASSUME TInv, NEW l \in Loads, InitOver(l)
  PROVE  TInv'
<1>1. /\ stage[l] \in {"init", "connecting"} /\ loadingService' = None
      /\ stage' \in [Loads -> Busy \cup {"idle", "live", "broken", "unloadable"}]
      /\ booting' \in Loads \cup {None} /\ down' \in BOOLEAN
      /\ stage[l] = "connecting" => \A x \in Servers : conn[l][x] # "trying"
      /\ UNCHANGED <<registry, wiring, listening, offs, specs, instances, target, old, disposed,
                     conn, overlapped>>
  BY InitOverDoes
<1>2. PICK o \in {"live", "broken"} : stage' = [stage EXCEPT ![l] = o]
  BY InitOverDoes
<1>3. TypeOK'
  BY <1>1 DEF TInv, TypeOK
<1>4. Created' = Created
  BY <1>1, <1>2 DEF TInv, TypeOK, Created
<1>5. Provenance'
  BY <1>1, <1>2, <1>4 DEF TInv, TypeOK, Provenance, Registered
<1>6. BracketCloses'
  BY <1>1 DEF BracketCloses
<1>7. QED
  BY <1>3, <1>5, <1>6 DEF TInv

\* One connection moves on.
LEMMA ConnMoves ==
  ASSUME TypeOK, NEW l \in Loads, NEW x \in Servers,
         NEW c \in {"trying", "late", "failed", "open", "lateOpen"}
  PROVE  /\ [conn EXCEPT ![l][x] = c] \in
              [Loads -> [Servers -> {"none", "trying", "late", "failed", "open", "lateOpen", "closed"}]]
         /\ \A k \in Loads, y \in Servers :
              [conn EXCEPT ![l][x] = c][k][y] = IF k = l /\ y = x THEN c ELSE conn[k][y]
BY DEF TypeOK

\* The steps of a connection: it is begun, it comes up, in time or not, or it is given up.
LEMMA ConnectDoes ==
  ASSUME TypeOK, NEW l \in Loads, NEW x \in Servers, Connect(l, x) \/ ConnectFails(l, x)
  PROVE  /\ UNCHANGED <<busVars, loadVars>>
         /\ \E c \in {"trying", "late", "failed"} :
              /\ conn' = [conn EXCEPT ![l][x] = c]
              /\ c = "trying" => stage[l] = "connecting"
         /\ \/ conn[l][x] \in {"trying", "late"}
            \/ conn[l][x] = "none" /\ stage[l] = "connecting"
BY DEF Connect, ConnectFails

LEMMA ConnectTyped ==
  ASSUME TInv, NEW l \in Loads, NEW x \in Servers, Connect(l, x) \/ ConnectFails(l, x)
  PROVE  TInv'
<1>1. /\ UNCHANGED <<busVars, loadVars>>
      /\ \/ conn[l][x] \in {"trying", "late"}
         \/ conn[l][x] = "none" /\ stage[l] = "connecting"
  BY ConnectDoes DEF TInv
<1>2. PICK c \in {"trying", "late", "failed"} : conn' = [conn EXCEPT ![l][x] = c]
                                                /\ (c = "trying" => stage[l] = "connecting")
  BY ConnectDoes DEF TInv
<1>3. /\ conn' \in [Loads -> [Servers -> {"none", "trying", "late", "failed", "open", "lateOpen",
                                          "closed"}]]
      /\ \A k \in Loads, y \in Servers : conn'[k][y] = IF k = l /\ y = x THEN c ELSE conn[k][y]
  BY <1>2, ConnMoves DEF TInv
<1>4. TypeOK'
  BY <1>1, <1>3 DEF TInv, TypeOK, busVars, loadVars
<1>5. Created' = Created /\ Registered' = Registered
  BY <1>1 DEF Created, Registered, busVars, loadVars
<1>6. l \in Created /\ target[l] = Mcp
  BY <1>1 DEF TInv, Provenance, Created
<1>7. Provenance'
  BY <1>1, <1>2, <1>3, <1>5, <1>6 DEF TInv, Provenance, busVars, loadVars
<1>8. BracketCloses'
  BY <1>1 DEF TInv, BracketCloses, busVars, loadVars
<1>9. QED
  BY <1>4, <1>7, <1>8 DEF TInv

LEMMA ConnectedDoes ==
  ASSUME TInv, NEW l \in Loads, NEW x \in Servers, Connected(l, x)
  PROVE  /\ l \in Created /\ target[l] = Mcp /\ conn[l][x] \in {"trying", "late"}
         /\ \/ registry[x] = None /\ Register(x, l)
               /\ \/ conn' = [conn EXCEPT ![l][x] = "lateOpen"]
                  \/ /\ conn[l][x] = "trying"
                     /\ conn' = [conn EXCEPT ![l][x] = "open"]
            \/ registry[x] # None /\ UNCHANGED <<registry, wiring>>
               /\ conn' = [conn EXCEPT ![l][x] = "failed"]
         /\ UNCHANGED <<listening, offs, loadingService, loadVars>>
<1>1. l \in Created /\ target[l] = Mcp /\ conn[l][x] \in {"trying", "late"}
  BY DEF Connected, TInv, Provenance
<1>2. UNCHANGED <<listening, offs, loadingService, loadVars>>
  BY DEF Connected
<1>3. CASE registry[x] = None
  <2>1. conn[l][x] # "late" => conn[l][x] = "trying"
    BY <1>1
  <2>2. Register(x, l)
        /\ conn' = [conn EXCEPT ![l][x] = IF conn[l][x] = "late" THEN "lateOpen" ELSE "open"]
    BY <1>3, Zenon DEF Connected
  <2>3. QED
    BY <1>1, <1>2, <1>3, <2>1, <2>2
<1>4. CASE registry[x] # None
  BY <1>1, <1>2, <1>4 DEF Connected
<1>5. QED
  BY <1>3, <1>4

LEMMA ConnectedTyped ==
  ASSUME TInv, NEW l \in Loads, NEW x \in Servers, Connected(l, x)
  PROVE  TInv'
<1> USE HostAssumption
<1>1. /\ l \in Created /\ target[l] = Mcp
      /\ \/ Register(x, l)
         \/ UNCHANGED <<registry, wiring>>
      /\ UNCHANGED <<listening, offs, loadingService, loadVars>>
  BY ConnectedDoes
<1>2. PICK c \in {"failed", "open", "lateOpen"} : conn' = [conn EXCEPT ![l][x] = c]
  BY ConnectedDoes
<1>3. /\ conn' \in [Loads -> [Servers -> {"none", "trying", "late", "failed", "open", "lateOpen",
                                          "closed"}]]
      /\ \A k \in Loads, y \in Servers : conn'[k][y] = IF k = l /\ y = x THEN c ELSE conn[k][y]
  BY <1>2, ConnMoves DEF TInv
<1>4. /\ registry' \in [Names -> Entries \cup {None}]
      /\ wiring' \in [Services -> (SUBSET Names) \cup {None}]
  <2>1. x \in Names /\ target[l] \in Services
    BY <1>1 DEF Names
  <2>2. QED
    BY <1>1, <2>1, RegisterTypes DEF TInv, TypeOK
<1>5. TypeOK'
  BY <1>1, <1>3, <1>4 DEF TInv, TypeOK, loadVars
<1>6. Created' = Created
  BY <1>1 DEF Created, loadVars
<1>7. \A n \in Registered' : (n \in Registered /\ registry'[n] = registry[n])
                             \/ registry'[n].by = l
  BY <1>1 DEF TInv, TypeOK, Registered, Register, Names
<1>8. Provenance'
  BY <1>1, <1>2, <1>3, <1>6, <1>7 DEF TInv, Provenance, loadVars
<1>9. BracketCloses'
  BY <1>1 DEF TInv, BracketCloses, loadVars
<1>10. QED
  BY <1>5, <1>8, <1>9 DEF TInv

LEMMA StepTyped == TInv /\ [Next]_vars => TInv'
<1> SUFFICES ASSUME TInv, [Next]_vars PROVE TInv'
  OBVIOUS
<1>1. CASE UNCHANGED vars
  BY <1>1 DEF vars, busVars, loadVars, TInv, TypeOK, Provenance, BracketCloses, Created, Registered
<1>2. CASE Next
  <2>1. PICK l \in Loads :
          \/ \E s \in Services : BootLoad(l, s) \/ Restart(l, s)
          \/ Disposed(l) \/ ImportFails(l) \/ ImportedMcp(l) \/ ImportedPlain(l)
          \/ InitEnds(l) \/ InitFails(l) \/ Started(l)
          \/ \E x \in Servers : Connect(l, x) \/ Connected(l, x) \/ ConnectFails(l, x)
    BY <1>2 DEF Next
  <2>2. QED
    BY <2>1, BootLoadTyped, RestartTyped, DisposedTyped, ImportFailsTyped, ImportedMcpTyped,
       ImportedPlainTyped, InitEndsTyped, InitOverTyped, ConnectTyped, ConnectedTyped DEF InitOver
<1>3. QED
  BY <1>1, <1>2

-----------------------------------------------------------------------------
(* While no loads overlap *)

\* A load that begins is the only one.
LEMMA Alone ==
  ASSUME TInv, Calm, NEW l \in Loads, NEW w \in {"importing", "disposing"},
         ~AnyBusy, stage' = [stage EXCEPT ![l] = w]
  PROVE  OneAtATime' /\ \A k \in Loads : stage'[k] \in Busy => k = l
BY DEF TInv, TypeOK, AnyBusy, OneAtATime

LEMMA BootLoadCalm ==
  ASSUME TInv, Calm, NEW l \in Loads, NEW s \in Services, BootLoad(l, s), ~overlapped'
  PROVE  Calm'
<1> USE NoneIsNot
<1>1. /\ stage[l] = "idle" /\ stage' = [stage EXCEPT ![l] = "importing"]
      /\ target' = [target EXCEPT ![l] = s] /\ s \notin specs /\ ~AnyBusy
      /\ UNCHANGED <<registry, wiring, offs, listening, instances, disposed, conn>>
  BY DEF BootLoad, NextLoad, busVars
<1>2. OneAtATime' /\ \A k \in Loads : stage'[k] \in Busy => k = l
  BY <1>1, Alone
<1>3. /\ l \notin Created /\ Created' = Created /\ Registered' = Registered
      /\ \A k \in Created : target'[k] = target[k]
      /\ listening \cup disposed \subseteq Created
      /\ \A n \in Registered : registry[n].by \in Created /\ Late(n)' = Late(n)
  BY <1>1 DEF TInv, TypeOK, Created, Registered, Provenance, Late
<1>4. instances[s] = None
  <2>1. \A k \in Created : target[k] \in specs
    BY DEF TInv, Provenance, Created
  <2>2. instances[s] # None => instances[s] \in Created /\ target[instances[s]] = s
    BY DEF TInv, Provenance
  <2>3. QED
    BY <1>1, <2>1, <2>2
<1>5. LoadInv'
  BY <1>1, <1>2, <1>4 DEF LoadInv, TInv, TypeOK, Busy
<1>6. DisposedInv' /\ CurrentInv' /\ ListenersInv' /\ ClosedInv'
  BY <1>1, <1>3 DEF Calm, DisposedInv, CurrentInv, ListenersInv, ClosedInv
<1>7. MethodsInv'
  BY <1>1, <1>3 DEF Calm, MethodsInv
<1>8. QED
  BY <1>2, <1>5, <1>6, <1>7 DEF Calm

\* What is left after a release is held for another service, which still holds it.
LEMMA ReleaseLeaves ==
  ASSUME TypeOK, NEW s \in Services \cup {None}, NEW tools \in SUBSET Servers, Release(s, tools),
         NEW n \in Registered', NEW t \in Services, t # s, wiring[t] # None, n \in wiring[t]
  PROVE  wiring'[t] # None /\ n \in wiring'[t]
<1> USE HostAssumption
<1>1. n \notin tools
  BY ReleaseTakes
<1>2. wiring'[t] = {m \in wiring[t] : m \notin tools \/ ~HeldFor(m, t)}
  BY DEF Release
<1>3. wiring'[t] \in SUBSET (Services \cup Servers)
  BY <1>2 DEF TypeOK, Names
<1>4. QED
  BY <1>1, <1>2, <1>3

LEMMA RestartCalm ==
  ASSUME TInv, Calm, NEW l \in Loads, NEW s \in Services, Restart(l, s), ~overlapped'
  PROVE  Calm'
<1> USE NoneIsNot
<1> DEFINE first == IF instances[s] = None THEN "importing" ELSE "disposing"
           tools == ToolsOf(instances[s])
<1>1. /\ stage[l] = "idle" /\ Release(s, tools) /\ ~AnyBusy
      /\ stage' = [stage EXCEPT ![l] = first] /\ target' = [target EXCEPT ![l] = s]
      /\ old' = [old EXCEPT ![l] = instances[s]]
      /\ UNCHANGED <<instances, disposed, conn>>
  BY DEF Restart, NextLoad
<1>2. instances[s] \in Loads \cup {None} /\ tools \in SUBSET Servers /\ TypeOK
  BY ToolsTyped DEF TInv, TypeOK
<1> HIDE DEF tools
<1>3. /\ listening' \subseteq listening
      /\ \A n \in Registered' : n \in Registered /\ registry'[n] = registry[n] /\ n \notin Held(s)
  BY <1>1, <1>2, ReleaseTakes
<1>4. OneAtATime' /\ \A k \in Loads : stage'[k] \in Busy => k = l
  BY <1>1, Alone
<1>5. /\ l \notin Created /\ Created' = Created
      /\ \A k \in Created : target'[k] = target[k]
      /\ listening \cup disposed \subseteq Created
      /\ \A n \in Registered : registry[n].by \in Created
  BY <1>1 DEF TInv, TypeOK, Created, Provenance
<1>6. \A n \in Registered' : Late(n)' = Late(n)
  BY <1>1, <1>3 DEF Late
<1>7. \A n \in Registered' : ~Late(n) => registry[n].service # s
  BY <1>3 DEF Calm, MethodsInv, Held
<1>8. \A k \in listening' : target[k] # s /\ k \in offs'[target[k]]
  <2>1. SUFFICES ASSUME NEW k \in listening' PROVE target[k] # s /\ k \in offs'[target[k]]
    OBVIOUS
  <2>2. k \in listening /\ k \notin offs[s] /\ k \in offs[target[k]] /\ target[k] \in Services
    BY <1>1, <1>3, <1>5 DEF Release, Calm, ListenersInv, TInv, TypeOK, Provenance, Created
  <2>3. QED
    BY <1>1, <2>2 DEF Release
<1>9. LoadInv'
  <2>1. stage'[l] = first /\ target'[l] = s /\ old'[l] = instances[s]
    BY <1>1, <1>2 DEF TypeOK
  <2>2. \A n \in Registered' : ~Late(n)' => registry'[n].service # s
    BY <1>3, <1>6, <1>7
  <2>3. \A k \in listening' : target'[k] # s
    BY <1>3, <1>5, <1>8
  <2>4. QED
    BY <1>1, <1>4, <2>1, <2>2, <2>3 DEF LoadInv, Busy
<1>10. DisposedInv' /\ CurrentInv' /\ ClosedInv'
  BY <1>1, <1>5 DEF Calm, DisposedInv, CurrentInv, ClosedInv
<1>11. ListenersInv'
  BY <1>1, <1>3, <1>5, <1>8 DEF Calm, ListenersInv
<1>12. MethodsInv'
  <2>1. SUFFICES ASSUME NEW n \in Registered', ~Late(n)'
                 PROVE  LET t == registry'[n].service
                        IN  /\ t = target'[registry'[n].by] /\ instances'[t] = registry'[n].by
                            /\ wiring'[t] # None /\ n \in wiring'[t]
    BY DEF MethodsInv
  <2> DEFINE t == registry[n].service
  <2>2. /\ registry'[n] = registry[n] /\ registry[n].by \in Created /\ t # s /\ t \in Services
        /\ t = target[registry[n].by] /\ instances[t] = registry[n].by
        /\ wiring[t] # None /\ n \in wiring[t]
    BY <1>2, <1>3, <1>5, <1>6, <1>7, <2>1, Typed DEF Calm, MethodsInv, Entries
  <2>3. wiring'[t] # None /\ n \in wiring'[t]
    <3> HIDE DEF t
    <3>1. QED
      BY <1>1, <1>2, <2>2, ReleaseLeaves
  <2>4. QED
    BY <1>1, <1>5, <2>2, <2>3
<1>13. QED
  BY <1>4, <1>9, <1>10, <1>11, <1>12 DEF Calm

LEMMA DisposedCalm ==
  ASSUME TInv, Calm, NEW l \in Loads, Disposed(l)
  PROVE  Calm'
<1> USE NoneIsNot
<1> DEFINE tools == ToolsOf(old[l])
           s == target[l]
<1>1. /\ stage[l] = "disposing" /\ old[l] \in Created /\ s \in Services
      /\ target[old[l]] = s /\ tools \in SUBSET Servers
      /\ Release(None, tools) /\ stage' = [stage EXCEPT ![l] = "importing"]
      /\ instances' = [instances EXCEPT ![s] = None]
      /\ disposed' = disposed \cup {old[l]} /\ conn' = Closing(old[l])
      /\ target' = target /\ old' = old
  BY DisposedDoes
<1>2. old[l] \in Loads /\ TypeOK
  BY <1>1 DEF Created, TInv
<1>3. /\ \A k \in Loads, x \in Servers :
            /\ ~(k = old[l] /\ x \in tools) => conn'[k][x] = conn[k][x]
            /\ conn'[k][x] # conn[k][x] => conn'[k][x] = "closed"
      /\ \A x \in Servers : conn'[old[l]][x] # "open"
  BY <1>1, <1>2, ClosingCloses
<1> HIDE DEF tools
<1>4. /\ listening' = listening /\ offs' = offs
      /\ \A n \in Registered' : n \in Registered /\ registry'[n] = registry[n] /\ n \notin tools
  <2>1. listening' = listening /\ offs' = offs
    BY <1>1, <1>2 DEF Release, TypeOK
  <2>2. QED
    BY <1>1, <1>2, <2>1, ReleaseTakes
<1>5. /\ \A k \in Loads : stage[k] \in Busy => k = l
      /\ old[l] = instances[s]
      /\ \A n \in Registered : ~Late(n) => registry[n].service # s
      /\ \A k \in listening : target[k] # s
  BY <1>1 DEF Calm, OneAtATime, LoadInv, Busy
<1>6. /\ Created' = Created /\ Created \subseteq Loads
      /\ listening \cup disposed \subseteq Created
      /\ \A n \in Registered : registry[n].by \in Created
      /\ \A k \in Created : target[k] \in Services
  BY <1>1 DEF TInv, TypeOK, Created, Provenance
<1>7. \A n \in Registered' : Late(n)' = Late(n)
  <2>1. SUFFICES ASSUME NEW n \in Registered', n \in Servers
                 PROVE  conn'[registry'[n].by][n] = conn[registry[n].by][n]
    BY <1>4 DEF Late
  <2>2. registry'[n] = registry[n] /\ registry[n].by \in Loads /\ n \notin tools
    BY <1>4, <1>6
  <2>3. QED
    BY <1>3, <2>1, <2>2
<1>8. OneAtATime' /\ \A k \in Loads : stage'[k] \in Busy => k = l
  BY <1>1, <1>2, <1>5 DEF OneAtATime, TypeOK, Busy
<1>9. LoadInv'
  BY <1>1, <1>2, <1>8 DEF LoadInv, TypeOK, Busy
<1>10. \A t \in Services : instances'[t] = IF t = s THEN None ELSE instances[t]
  BY <1>1, <1>2 DEF TypeOK
<1>11. DisposedInv' /\ CurrentInv' /\ ListenersInv'
  <2>1. DisposedInv'
    <3>1. SUFFICES ASSUME NEW k \in disposed' PROVE instances'[target[k]] # k
      BY <1>1 DEF DisposedInv
    <3>2. k \in Loads /\ target[k] \in Services /\ (k \in disposed \/ target[k] = s)
      BY <1>1, <1>6
    <3>3. QED
      BY <1>10, <3>2 DEF Calm, DisposedInv
  <2>2. CurrentInv'
    <3>1. SUFFICES ASSUME NEW k \in Created, k \notin disposed, k # old[l]
                   PROVE  instances'[target[k]] = k
      BY <1>1, <1>6 DEF CurrentInv
    <3>2. instances[target[k]] = k /\ target[k] \in Services
      BY <1>6, <3>1 DEF Calm, CurrentInv
    <3>3. QED
      BY <1>5, <1>10, <3>1, <3>2
  <2>3. ListenersInv'
    <3>1. \A k \in listening : target[k] \in Services /\ target[k] # s
      BY <1>5, <1>6
    <3>2. QED
      BY <1>1, <1>4, <1>10, <3>1 DEF Calm, ListenersInv
  <2>4. QED
    BY <2>1, <2>2, <2>3
<1>12. ClosedInv'
  <2>1. \A k \in disposed : k \in Loads
    BY <1>6
  <2>2. \A k \in disposed, x \in Servers : conn'[k][x] # "open"
    BY <1>3, <2>1 DEF Calm, ClosedInv
  <2>3. QED
    BY <1>1, <1>3, <2>2 DEF ClosedInv
<1>13. MethodsInv'
  <2>1. SUFFICES ASSUME NEW n \in Registered', ~Late(n)'
                 PROVE  LET t == registry'[n].service
                        IN  /\ t = target'[registry'[n].by] /\ instances'[t] = registry'[n].by
                            /\ wiring'[t] # None /\ n \in wiring'[t]
    BY DEF MethodsInv
  <2> DEFINE t == registry[n].service
  <2>2. /\ registry'[n] = registry[n] /\ t # s /\ t \in Services
        /\ t = target[registry[n].by] /\ instances[t] = registry[n].by
        /\ wiring[t] # None /\ n \in wiring[t]
    BY <1>2, <1>4, <1>5, <1>7, <2>1, Typed DEF Calm, MethodsInv, Entries
  <2>3. wiring'[t] # None /\ n \in wiring'[t]
    <3> HIDE DEF t
    <3>1. t # None
      BY <2>2
    <3>2. QED
      BY <1>1, <1>2, <2>2, <3>1, ReleaseLeaves
  <2>4. QED
    BY <1>1, <1>10, <2>2, <2>3
<1>14. QED
  BY <1>8, <1>9, <1>11, <1>12, <1>13 DEF Calm

\* A load ends: nothing is asked of it as a load any more.
LEMMA EndedCalm ==
  ASSUME TInv, Calm, NEW l \in Loads, NEW o \in {"live", "broken", "unloadable"}, stage[l] \in Busy,
         stage[l] = "importing" => o = "unloadable",
         stage[l] \in {"init", "connecting"} => o # "unloadable", stage[l] # "disposing",
         stage' = [stage EXCEPT ![l] = o],
         UNCHANGED <<registry, wiring, offs, listening, instances, target, old, disposed, conn>>
  PROVE  Calm'
<1>1. \A k \in Loads : stage[k] \in Busy => k = l
  BY DEF Calm, OneAtATime
<1>2. \A k \in Loads : stage'[k] \notin Busy
  BY <1>1 DEF TInv, TypeOK, Busy
<1>3. OneAtATime' /\ LoadInv'
  BY <1>2 DEF OneAtATime, LoadInv, Busy
<1>4. Created' = Created /\ Registered' = Registered
  BY DEF TInv, TypeOK, Created, Busy, Registered
<1>5. DisposedInv' /\ CurrentInv' /\ ListenersInv' /\ ClosedInv'
  BY <1>4 DEF Calm, DisposedInv, CurrentInv, ListenersInv, ClosedInv
<1>6. MethodsInv'
  BY <1>4 DEF Calm, MethodsInv, Late
<1>7. QED
  BY <1>3, <1>5, <1>6 DEF Calm

LEMMA ImportFailsCalm ==
  ASSUME TInv, Calm, NEW l \in Loads, ImportFails(l)
  PROVE  Calm'
<1>1. /\ stage[l] = "importing" /\ stage' = [stage EXCEPT ![l] = "unloadable"]
      /\ UNCHANGED <<registry, wiring, offs, listening, instances, target, old, disposed, conn>>
  BY DEF ImportFails, Ends, busVars
<1>2. QED
  BY <1>1, EndedCalm DEF Busy

LEMMA InitOverCalm ==
  ASSUME TInv, Calm, NEW l \in Loads, InitOver(l)
  PROVE  Calm'
<1>1. PICK o \in {"live", "broken"} : stage' = [stage EXCEPT ![l] = o]
  BY InitOverDoes
<1>2. /\ stage[l] \in {"init", "connecting"}
      /\ UNCHANGED <<registry, wiring, offs, listening, instances, target, old, disposed, conn>>
  BY InitOverDoes
<1>3. QED
  BY <1>1, <1>2, EndedCalm DEF Busy

\* import() has returned to a service that had no instance left: the new one takes over.
LEMMA ImportedCalm ==
  ASSUME TInv, Calm, NEW l \in Loads, stage[l] = "importing", target[l] \in Services,
         NEW w \in {"init", "connecting", "broken"},
         stage' = [stage EXCEPT ![l] = w], instances' = [instances EXCEPT ![target[l]] = l],
         \A t \in Services : wiring[t] # None =>
            wiring'[t] # None /\ (wiring[t] \subseteq wiring'[t]),
         \A t \in Services : offs[t] \subseteq offs'[t],
         \A k \in listening' : k \in listening \/ (k = l /\ l \in offs'[target[l]]),
         \A n \in Registered' : \/ n \in Registered /\ registry'[n] = registry[n]
                                \/ registry'[n] = [service |-> target[l], by |-> l]
                                   /\ wiring'[target[l]] # None /\ n \in wiring'[target[l]],
         w # "broken" => loadingService' = target[l] /\ wiring'[target[l]] # None,
         UNCHANGED <<target, old, disposed, conn>>
  PROVE  Calm'
<1> USE NoneIsNot
<1> DEFINE s == target[l]
<1>1. /\ \A k \in Loads : stage[k] \in Busy => k = l
      /\ instances[s] = None
  BY DEF Calm, OneAtATime, LoadInv, Busy
<1>2. /\ l \notin Created /\ Created' = Created \cup {l} /\ Created \subseteq Loads
      /\ listening \cup disposed \subseteq Created
      /\ \A n \in Registered : registry[n].by \in Created
      /\ \A k \in Created : target[k] \in Services
  BY DEF TInv, TypeOK, Created, Provenance
<1>3. \A t \in Services : instances'[t] = IF t = s THEN l ELSE instances[t]
  BY DEF TInv, TypeOK
<1>4. OneAtATime' /\ \A k \in Loads : stage'[k] \in Busy => k = l
  BY <1>1 DEF OneAtATime, TInv, TypeOK, Busy
<1>5. LoadInv'
  BY <1>3, <1>4 DEF LoadInv, TInv, TypeOK, Busy
<1>6. DisposedInv' /\ CurrentInv' /\ ClosedInv'
  BY <1>1, <1>2, <1>3 DEF Calm, DisposedInv, CurrentInv, ClosedInv
<1>7. ListenersInv'
  <2>1. \A k \in listening : target[k] # s /\ target[k] \in Services
    <3>1. SUFFICES ASSUME NEW k \in listening PROVE target[k] # s /\ target[k] \in Services
      OBVIOUS
    <3>2. k \in Loads /\ target[k] \in Services /\ instances[target[k]] = k
      BY <1>2 DEF Calm, ListenersInv
    <3>3. QED
      BY <1>1, <3>2
  <2>2. \A k \in listening : offs[target[k]] \subseteq offs'[target[k]]
    BY <2>1
  <2>3. QED
    BY <1>3, <2>1, <2>2 DEF Calm, ListenersInv
<1>8. MethodsInv'
  <2>1. SUFFICES ASSUME NEW n \in Registered', ~Late(n)'
                 PROVE  LET t == registry'[n].service
                        IN  /\ t = target'[registry'[n].by] /\ instances'[t] = registry'[n].by
                            /\ wiring'[t] # None /\ n \in wiring'[t]
    BY DEF MethodsInv
  <2>2. CASE registry'[n] = [service |-> s, by |-> l] /\ wiring'[s] # None /\ n \in wiring'[s]
    BY <1>3, <2>2
  <2>3. CASE n \in Registered /\ registry'[n] = registry[n]
    <3>1. ~Late(n) /\ registry[n].service \in Services
      BY <2>1, <2>3, Typed DEF Late, Entries, TInv
    <3>2. registry[n].by \in Created
      BY <1>2, <2>3
    <3> DEFINE t == registry[n].service
    <3>3. /\ t = target[registry[n].by] /\ instances[t] = registry[n].by
          /\ wiring[t] # None /\ n \in wiring[t] /\ t \in Services
      BY <2>3, <3>1 DEF Calm, MethodsInv
    <3>4. t # s
      BY <1>1, <1>2, <3>2, <3>3
    <3>5. wiring'[t] # None /\ n \in wiring'[t]
      BY <3>3
    <3>6. QED
      BY <1>3, <2>3, <3>3, <3>4, <3>5
  <2>4. QED
    BY <2>2, <2>3
<1>9. QED
  BY <1>4, <1>5, <1>6, <1>7, <1>8 DEF Calm

LEMMA SetsAreSomething == \A N \in SUBSET Names : N # None
BY HostAssumption DEF Names

LEMMA ImportedMcpCalm ==
  ASSUME TInv, Calm, NEW l \in Loads, ImportedMcp(l)
  PROVE  Calm'
<1> USE NoneIsNot
<1>1. /\ stage[l] = "importing" /\ target[l] = Mcp /\ instances' = [instances EXCEPT ![Mcp] = l]
      /\ UNCHANGED <<listening, offs, target, old, disposed, conn>>
  BY DEF ImportedMcp
<1>2. PICK w \in {"connecting", "broken"} :
        /\ stage' = [stage EXCEPT ![l] = w]
        /\ w # "broken" => loadingService' = Mcp /\ registry[Mcp] = None
        /\ w # "broken" => registry' = [registry EXCEPT ![Mcp] = [service |-> Mcp, by |-> l]]
        /\ w # "broken" =>
             wiring' = [wiring EXCEPT ![Mcp] = IF @ = None THEN {Mcp} ELSE @ \cup {Mcp}]
        /\ w = "broken" => registry' = registry
        /\ w = "broken" => wiring' = [wiring EXCEPT ![Mcp] = IF @ = None THEN {} ELSE @]
  BY DEF ImportedMcp, Ends
<1>3. /\ {Mcp} # None /\ {} # None
      /\ \A t \in Services : wiring[t] # None => wiring[t] \cup {Mcp} # None
  BY SetsAreSomething DEF Names, TInv, TypeOK
<1>4. \A t \in Services : wiring[t] # None => wiring'[t] # None /\ (wiring[t] \subseteq wiring'[t])
  <2>1. CASE w = "broken"
    BY <1>2, <2>1 DEF TInv, TypeOK
  <2>2. CASE w # "broken"
    <3>1. \A t \in Services : wiring'[t] = IF t # Mcp THEN wiring[t]
                                           ELSE IF wiring[t] = None THEN {Mcp} ELSE wiring[t] \cup {Mcp}
      BY <1>2, <2>2 DEF TInv, TypeOK
    <3>2. QED
      BY <1>3, <3>1
  <2>3. QED
    BY <2>1, <2>2
<1>5. w # "broken" => wiring'[Mcp] # None /\ Mcp \in wiring'[Mcp]
  <2>1. SUFFICES ASSUME w # "broken" PROVE wiring'[Mcp] # None /\ Mcp \in wiring'[Mcp]
    OBVIOUS
  <2>2. wiring'[Mcp] = IF wiring[Mcp] = None THEN {Mcp} ELSE wiring[Mcp] \cup {Mcp}
    BY <1>2, <2>1 DEF TInv, TypeOK
  <2>3. QED
    BY <1>3, <2>2
<1>6. \A n \in Registered' : \/ n \in Registered /\ registry'[n] = registry[n]
                             \/ registry'[n] = [service |-> Mcp, by |-> l] /\ n = Mcp
                                /\ w # "broken"
  BY <1>2 DEF TInv, TypeOK, Registered
<1>7. QED
  <2>1. \A n \in Registered' : \/ n \in Registered /\ registry'[n] = registry[n]
                               \/ registry'[n] = [service |-> target[l], by |-> l]
                                  /\ wiring'[target[l]] # None /\ n \in wiring'[target[l]]
    BY <1>1, <1>5, <1>6
  <2>2. /\ w # "broken" => loadingService' = target[l] /\ wiring'[target[l]] # None
        /\ target[l] \in Services /\ instances' = [instances EXCEPT ![target[l]] = l]
    BY <1>1, <1>2, <1>5
  <2>3. \A t \in Services : offs[t] \subseteq offs'[t]
    BY <1>1
  <2>4. w \in {"init", "connecting", "broken"} /\ stage' = [stage EXCEPT ![l] = w]
    BY <1>2
  <2>5. QED
    BY <1>1, <1>4, <2>1, <2>2, <2>3, <2>4, ImportedCalm

LEMMA ImportedPlainCalm ==
  ASSUME TInv, Calm, NEW l \in Loads, ImportedPlain(l)
  PROVE  Calm'
<1> USE NoneIsNot
<1>1. /\ stage[l] = "importing" /\ target[l] \in Services
      /\ instances' = [instances EXCEPT ![target[l]] = l]
      /\ BeginLoading(target[l]) /\ Listen(l) /\ stage' = [stage EXCEPT ![l] = "init"]
      /\ UNCHANGED <<registry, target, old, disposed, conn>>
  BY DEF TInv, TypeOK, Provenance, ImportedPlain
<1>2. \A t \in Services : wiring'[t] = IF t = target[l] /\ wiring[t] = None THEN {} ELSE wiring[t]
  BY <1>1 DEF BeginLoading, TInv, TypeOK
<1>3. {} # None
  BY SetsAreSomething
<1>4. wiring'[target[l]] # None /\ loadingService' = target[l]
  BY <1>1, <1>2, <1>3 DEF BeginLoading
<1>5. \A t \in Services : wiring[t] # None => wiring'[t] # None /\ (wiring[t] \subseteq wiring'[t])
  BY <1>2
<1>6. /\ \A t \in Services : offs[t] \subseteq offs'[t]
      /\ \A k \in listening' : k \in listening \/ (k = l /\ l \in offs'[target[l]])
  BY <1>1 DEF Listen, TInv, TypeOK
<1>7. Registered' = Registered
  BY <1>1 DEF Registered
<1>8. QED
  BY <1>1, <1>4, <1>5, <1>6, <1>7, ImportedCalm

\* A registration made while its own service is being loaded is tracked for that service.
LEMMA RegisterTracks ==
  ASSUME TypeOK, NEW n \in Names, NEW l \in Loads, target[l] \in Services, Register(n, l)
  PROVE  /\ \A t \in Services : wiring[t] # None =>
               wiring'[t] # None /\ (wiring[t] \subseteq wiring'[t])
         /\ \A m \in Registered' : m # n => m \in Registered /\ registry'[m] = registry[m]
         /\ registry'[n].by = l
         /\ loadingService = target[l] /\ wiring[target[l]] # None =>
               /\ registry'[n].service = target[l]
               /\ wiring'[target[l]] # None /\ n \in wiring'[target[l]]
<1> USE NoneIsNot
<1> DEFINE s == Attributed(target[l])
<1>1. s \in Services /\ (loadingService = target[l] => s = target[l])
  BY DEF Attributed, TypeOK
<1>2. registry' = [registry EXCEPT ![n] = [service |-> s, by |-> l]]
  BY DEF Register
<1>3. wiring[s] # None => wiring' = [wiring EXCEPT ![s] = wiring[s] \cup {n}]
  BY <1>1 DEF Register, TypeOK
<1>4. wiring[s] = None => wiring' = wiring
  BY DEF Register
<1> HIDE DEF s
<1>5. wiring[s] # None => wiring[s] \cup {n} # None
  BY <1>1, SetsAreSomething DEF TypeOK
<1>6. \A t \in Services : wiring[t] # None => wiring'[t] # None /\ (wiring[t] \subseteq wiring'[t])
  BY <1>1, <1>3, <1>4, <1>5 DEF TypeOK
<1>7. \A m \in Registered' : m # n => m \in Registered /\ registry'[m] = registry[m]
  BY <1>2 DEF TypeOK, Registered
<1>8. registry'[n].by = l /\ registry'[n].service = s
  BY <1>2 DEF TypeOK
<1>9. wiring[s] # None => wiring'[s] # None /\ n \in wiring'[s]
  BY <1>1, <1>3, <1>5 DEF TypeOK
<1>10. QED
  BY <1>1, <1>6, <1>7, <1>8, <1>9

LEMMA InitEndsCalm ==
  ASSUME TInv, Calm, NEW l \in Loads, InitEnds(l)
  PROVE  Calm'
<1> USE NoneIsNot
<1> DEFINE s == target[l]
           outcome == IF registry[s] = None THEN "live" ELSE "broken"
<1>1. /\ stage[l] = "init" /\ s \in Services /\ stage' = [stage EXCEPT ![l] = outcome]
      /\ \/ registry[s] = None /\ Register(s, l)
         \/ UNCHANGED <<registry, wiring>>
      /\ UNCHANGED <<listening, offs, instances, target, old, disposed, conn>>
  BY DEF TInv, TypeOK, Provenance, InitEnds, Ends
<1>2. CASE UNCHANGED <<registry, wiring>>
  <2>1. outcome \in {"live", "broken"}
    OBVIOUS
  <2> HIDE DEF outcome
  <2>2. QED
    BY <1>1, <1>2, <2>1, EndedCalm DEF Busy
<1>3. CASE registry[s] = None /\ Register(s, l)
  <2>1. stage' = [stage EXCEPT ![l] = "live"]
    BY <1>1, <1>3
  <2>2. instances[s] = l /\ loadingService = s /\ wiring[s] # None
        /\ \A k \in Loads : stage[k] \in Busy => k = l
    BY <1>1 DEF Calm, LoadInv, OneAtATime, Busy
  <2>3. /\ \A t \in Services : wiring[t] # None =>
               wiring'[t] # None /\ (wiring[t] \subseteq wiring'[t])
        /\ \A m \in Registered' : m # s => m \in Registered /\ registry'[m] = registry[m]
        /\ registry'[s].by = l /\ registry'[s].service = s
        /\ wiring'[s] # None /\ s \in wiring'[s]
    <3>1. s \in Names /\ TypeOK
      BY <1>1 DEF Names, TInv
    <3>2. QED
      BY <1>1, <1>3, <2>2, <3>1, RegisterTracks
  <2>4. \A k \in Loads : stage'[k] \notin Busy
    BY <2>1, <2>2 DEF TInv, TypeOK, Busy
  <2>5. OneAtATime' /\ LoadInv'
    BY <2>4 DEF OneAtATime, LoadInv, Busy
  <2>6. Created' = Created
    BY <1>1, <2>1 DEF TInv, TypeOK, Created
  <2>7. DisposedInv' /\ CurrentInv' /\ ListenersInv' /\ ClosedInv'
    BY <1>1, <2>6 DEF Calm, DisposedInv, CurrentInv, ListenersInv, ClosedInv
  <2>8. MethodsInv'
    <3>1. SUFFICES ASSUME NEW n \in Registered', ~Late(n)'
                   PROVE  LET t == registry'[n].service
                          IN  /\ t = target'[registry'[n].by] /\ instances'[t] = registry'[n].by
                              /\ wiring'[t] # None /\ n \in wiring'[t]
      BY DEF MethodsInv
    <3>2. CASE n = s
      BY <1>1, <2>2, <2>3, <3>2
    <3>3. CASE n # s
      <4>1. n \in Registered /\ registry'[n] = registry[n] /\ ~Late(n)
        BY <1>1, <2>3, <3>1, <3>3 DEF Late
      <4>2. registry[n].service \in Services
        BY <4>1, Typed DEF TInv, Entries
      <4>3. QED
        BY <1>1, <2>3, <4>1, <4>2 DEF Calm, MethodsInv
    <3>4. QED
      BY <3>2, <3>3
  <2>9. QED
    BY <2>5, <2>7, <2>8 DEF Calm
<1>4. QED
  BY <1>1, <1>2, <1>3

\* What no step of a connection touches.
LEMMA LoadsStay ==
  ASSUME Calm, UNCHANGED <<listening, offs, loadingService, loadVars>>,
         \A n \in Registered' : ~Late(n)' =>
            \/ n \in Registered /\ registry'[n] = registry[n] /\ ~Late(n)
            \/ \A l \in Loads : stage[l] = "disposing" => registry'[n].service # target[l],
         \A t \in Services : wiring[t] # None => wiring'[t] # None,
         \A l \in Loads : target[l] \in Services \/ stage[l] = "idle"
  PROVE  OneAtATime' /\ LoadInv' /\ DisposedInv' /\ ListenersInv' /\ CurrentInv'
<1>1. OneAtATime' /\ DisposedInv' /\ ListenersInv' /\ CurrentInv'
  BY DEF Calm, OneAtATime, DisposedInv, ListenersInv, CurrentInv, Created, loadVars
<1>2. LoadInv'
  BY DEF Calm, LoadInv, loadVars
<1>3. QED
  BY <1>1, <1>2

LEMMA ConnectCalm ==
  ASSUME TInv, Calm, NEW l \in Loads, NEW x \in Servers, Connect(l, x) \/ ConnectFails(l, x)
  PROVE  Calm'
<1>1. /\ UNCHANGED <<busVars, loadVars>>
      /\ conn[l][x] \in {"none", "trying", "late"}
  BY ConnectDoes DEF TInv
<1>2. PICK c \in {"trying", "late", "failed"} : conn' = [conn EXCEPT ![l][x] = c]
  BY ConnectDoes DEF TInv
<1>3. \A k \in Loads, y \in Servers : conn'[k][y] = IF k = l /\ y = x THEN c ELSE conn[k][y]
  BY <1>2, ConnMoves DEF TInv
<1>4. \A n \in Registered' : n \in Registered /\ registry'[n] = registry[n] /\ Late(n)' = Late(n)
  <2>1. SUFFICES ASSUME NEW n \in Registered' PROVE n \in Registered /\ Late(n)' = Late(n)
    BY <1>1 DEF busVars
  <2>2. n \in Registered /\ registry'[n] = registry[n]
    BY <1>1 DEF Registered, busVars
  <2>3. registry[n].by \in Loads
    BY <2>2, Typed DEF Entries, TInv
  <2>4. QED
    BY <1>1, <1>3, <2>2, <2>3 DEF Late
<1>5. OneAtATime' /\ LoadInv' /\ DisposedInv' /\ ListenersInv' /\ CurrentInv'
  <2>1. \A k \in Loads : target[k] \in Services \/ stage[k] = "idle"
    BY DEF TInv, TypeOK, Provenance
  <2>2. QED
    BY <1>1, <1>4, <2>1, LoadsStay DEF busVars
<1>6. MethodsInv'
  BY <1>1, <1>4 DEF Calm, MethodsInv, busVars, loadVars
<1>7. ClosedInv'
  BY <1>1, <1>3 DEF Calm, ClosedInv, TInv, TypeOK, loadVars
<1>8. QED
  BY <1>5, <1>6, <1>7 DEF Calm

LEMMA ConnectedCalm ==
  ASSUME TInv, Calm, NEW l \in Loads, NEW x \in Servers, Connected(l, x)
  PROVE  Calm'
<1> USE NoneIsNot
<1>1. /\ l \in Created /\ target[l] = Mcp /\ conn[l][x] \in {"trying", "late"}
      /\ \/ registry[x] = None /\ Register(x, l)
         \/ UNCHANGED <<registry, wiring>>
      /\ UNCHANGED <<listening, offs, loadingService, loadVars>>
  BY ConnectedDoes
<1>2. PICK c \in {"failed", "open", "lateOpen"} :
        /\ conn' = [conn EXCEPT ![l][x] = c]
        /\ c = "open" => conn[l][x] = "trying"
        /\ c = "failed" => UNCHANGED <<registry, wiring>>
        /\ c # "failed" => registry[x] = None /\ Register(x, l)
  BY ConnectedDoes
<1>3. \A k \in Loads, y \in Servers : conn'[k][y] = IF k = l /\ y = x THEN c ELSE conn[k][y]
  BY <1>2, ConnMoves DEF TInv
<1>4. c = "open" => /\ stage[l] = "connecting" /\ instances[Mcp] = l /\ loadingService = Mcp
                    /\ wiring[Mcp] # None /\ l \notin disposed
                    /\ \A k \in Loads : stage[k] # "disposing"
  BY <1>1, <1>2 DEF TInv, Provenance, Calm, LoadInv, OneAtATime, DisposedInv, Busy
<1>5. x \in Names /\ target[l] \in Services /\ TypeOK
  BY <1>1 DEF Names, TInv
<1>6. /\ \A t \in Services : wiring[t] # None =>
            wiring'[t] # None /\ (wiring[t] \subseteq wiring'[t])
      /\ \A m \in Registered' : \/ m \in Registered /\ registry'[m] = registry[m]
                                \/ m = x /\ c # "failed"
  BY <1>1, <1>2, <1>5, RegisterTracks DEF Registered
<1>7. \A n \in Registered' : ~Late(n)' =>
        \/ n \in Registered /\ registry'[n] = registry[n] /\ ~Late(n)
        \/ /\ n = x /\ c = "open" /\ registry'[n].by = l /\ registry'[n].service = Mcp
           /\ wiring'[Mcp] # None /\ n \in wiring'[Mcp]
  <2>1. SUFFICES ASSUME NEW n \in Registered', ~Late(n)'
                 PROVE \/ n \in Registered /\ registry'[n] = registry[n] /\ ~Late(n)
                       \/ /\ n = x /\ c = "open" /\ registry'[n].by = l /\ registry'[n].service = Mcp
                          /\ wiring'[Mcp] # None /\ n \in wiring'[Mcp]
    OBVIOUS
  <2>2. CASE n = x /\ c # "failed"
    <3>1. registry'[x].by = l
      BY <1>2, <1>5, <2>2, RegisterTracks
    <3>2. c = "open"
      BY <1>3, <2>1, <2>2, <3>1 DEF Late
    <3>3. QED
      BY <1>1, <1>2, <1>4, <1>5, <2>2, <3>1, <3>2, RegisterTracks
  <2>3. CASE n \in Registered /\ registry'[n] = registry[n]
    <3>1. registry[n].by \in Loads
      BY <1>5, <2>3, Typed DEF Entries
    <3>2. ~Late(n)
      BY <1>1, <1>3, <2>1, <2>3, <3>1 DEF Late
    <3>3. QED
      BY <2>3, <3>2
  <2>4. QED
    BY <1>6, <2>2, <2>3
<1>8. OneAtATime' /\ LoadInv' /\ DisposedInv' /\ ListenersInv' /\ CurrentInv'
  <2>1. \A k \in Loads : target[k] \in Services \/ stage[k] = "idle"
    BY DEF TInv, TypeOK, Provenance
  <2>2. QED
    BY <1>1, <1>4, <1>6, <1>7, <2>1, LoadsStay
<1>9. MethodsInv'
  <2>1. SUFFICES ASSUME NEW n \in Registered', ~Late(n)'
                 PROVE  LET t == registry'[n].service
                        IN  /\ t = target'[registry'[n].by] /\ instances'[t] = registry'[n].by
                            /\ wiring'[t] # None /\ n \in wiring'[t]
    BY DEF MethodsInv
  <2>2. target' = target /\ instances' = instances
    BY <1>1 DEF loadVars
  <2>3. CASE n \in Registered /\ registry'[n] = registry[n] /\ ~Late(n)
    <3>1. registry[n].service \in Services
      BY <1>5, <2>3, Typed DEF Entries
    <3>2. QED
      BY <1>6, <2>2, <2>3, <3>1 DEF Calm, MethodsInv
  <2>4. CASE /\ n = x /\ c = "open" /\ registry'[n].by = l /\ registry'[n].service = Mcp
             /\ wiring'[Mcp] # None /\ n \in wiring'[Mcp]
    BY <1>1, <1>4, <2>2, <2>4
  <2>5. QED
    BY <1>7, <2>1, <2>3, <2>4
<1>10. ClosedInv'
  BY <1>1, <1>3, <1>4 DEF Calm, ClosedInv, TInv, TypeOK, loadVars
<1>11. QED
  BY <1>8, <1>9, <1>10 DEF Calm

-----------------------------------------------------------------------------
(* The theorems *)

LEMMA StepCalm ==
  ASSUME TInv, Calm, Next, ~overlapped'
  PROVE  Calm'
<1>1. PICK l \in Loads :
        \/ \E s \in Services : BootLoad(l, s) \/ Restart(l, s)
        \/ Disposed(l) \/ ImportFails(l) \/ ImportedMcp(l) \/ ImportedPlain(l)
        \/ InitEnds(l) \/ InitFails(l) \/ Started(l)
        \/ \E x \in Servers : Connect(l, x) \/ Connected(l, x) \/ ConnectFails(l, x)
  BY DEF Next
<1>2. QED
  BY <1>1, BootLoadCalm, RestartCalm, DisposedCalm, ImportFailsCalm, ImportedMcpCalm,
     ImportedPlainCalm, InitEndsCalm, InitOverCalm, ConnectCalm, ConnectedCalm DEF InitOver

LEMMA StaysOverlapped == Next /\ ~overlapped' => ~overlapped
BY DEF Next, BootLoad, Restart, Disposed, ImportFails, ImportedMcp, ImportedPlain, InitEnds,
       InitFails, Started, Connect, Connected, ConnectFails, loadVars

LEMMA InitCalm == Init => Calm
<1> SUFFICES ASSUME Init PROVE Calm
  OBVIOUS
<1>1. \A l \in Loads : stage[l] = "idle"
  BY DEF Init
<1>2. Registered = {} /\ listening = {} /\ disposed = {} /\ Created = {}
  BY <1>1 DEF Init, Registered, Created
<1>3. QED
  BY <1>1, <1>2 DEF Calm, OneAtATime, LoadInv, DisposedInv, MethodsInv, ListenersInv, CurrentInv,
                    ClosedInv, Busy

(* The invariant is inductive, for any services, servers and loads: types,  *)
(* provenance and the bracket of loader.load whatever overlaps, and, as     *)
(* long as no two loads do, what the bus and the loader hold.               *)
THEOREM Invariance == Spec => []IInv
<1>1. Init => IInv
  BY InitTyped, InitCalm DEF IInv
<1>2. IInv /\ [Next]_vars => IInv'
  <2>1. SUFFICES ASSUME IInv, [Next]_vars PROVE IInv'
    OBVIOUS
  <2>2. TInv'
    BY <2>1, StepTyped DEF IInv
  <2>3. CASE UNCHANGED vars
    BY <2>1, <2>2, <2>3 DEF IInv, Calm, OneAtATime, LoadInv, DisposedInv, MethodsInv, ListenersInv,
       CurrentInv, ClosedInv, Late, Registered, Created, vars, busVars, loadVars
  <2>4. CASE Next
    BY <2>1, <2>2, <2>4, StepCalm, StaysOverlapped DEF IInv
  <2>5. QED
    BY <2>1, <2>3, <2>4
<1>3. QED
  BY <1>1, <1>2, PTL DEF Spec

(* What a reload releases is what the service registered: with no overlap,  *)
(* every method and listener on the bus belongs to the present instance of  *)
(* the service it is held for, an instance that was replaced was disposed   *)
(* of, and no registration is attributed outside of an init().              *)
THEOREM ReloadsAlwaysFollow == Spec => []ReloadsFollow
<1>1. IInv => ReloadsFollow
  <2>1. SUFFICES ASSUME IInv PROVE WiringFollows
    BY DEF IInv, TInv, ReloadsFollow
  <2>2. CASE ~overlapped
    <3>1. Calm
      BY <2>1, <2>2 DEF IInv
    <3>2. QED
      BY <3>1 DEF Calm, MethodsInv, ListenersInv, CurrentInv, ClosedInv, WiringFollows
  <2>3. QED
    BY <2>2 DEF WiringFollows
<1>2. QED
  BY <1>1, Invariance, PTL


\* A step is a step of the part that was chosen at the start, or changes nothing of it.
LEMMA PartSteps ==
    ASSUME [AllNext]_allVars
    PROVE  /\ part' = part
           /\ part = "rpc" => [R!Next]_(R!vars)
           /\ part = "pair" => [P!Next]_(P!vars)
           /\ part = "hooks" => [W!Next]_(W!vars)
           /\ part = "send" => [S!Next]_(S!vars)
           /\ part = "overflow" => [O!Next]_(O!vars)
           /\ part = "cli" => [L!Next]_(L!vars)
           /\ part = "pages" => [G!Next]_(G!vars)
           /\ part = "view" => [V!Next]_(V!vars)
           /\ part = "config" => [C!Next]_(C!vars)
           /\ part = "media" => [B!Next]_(B!vars)
<1>1. CASE UNCHANGED allVars
  <2>1. UNCHANGED <<part, partVars>>
    BY <1>1 DEF allVars
  <2> QED
    BY <2>1 DEF partVars, otherVars, storeVars, rpcVars, pairVars, hookVars, sendVars, overflowVars,
                cliVars, pageVars, viewVars, configVars, mediaVars, R!vars, P!vars, P!dialogVars,
                P!histVars, W!vars, S!vars, O!vars, L!vars, L!cliVars, L!daemonVars, L!saveVars, L!histVars,
                G!vars, G!pageVars, G!formVars, G!netVars, G!histVars,
                V!vars, V!fileVars, V!walkVars, V!pageVars, C!vars, C!files, B!vars
<1>2. CASE AllNext
  BY <1>2 DEF AllNext, HostStep, RpcStep, PairStep, HookStep, SendStep, OverflowStep, CliStep,
              PagesStep, ViewStep, ConfigStep, MediaStep
<1> QED
  BY <1>1, <1>2

-----------------------------------------------------------------------------
(* Overflow *)

\* Every nudge is one of the compactions that the burst has counted, and the notice one that
\* it remembers.
BurstCounts ==
    /\ nudges = burst.ends /\ burst.ends < BreakAfter
    /\ notices = IF burst.noticed THEN 1 ELSE 0

OverflowInv == O!TypeOK /\ BurstCounts

\* What a handler writes into a burst.
LEMMA BurstUpdates ==
    ASSUME NEW b \in [open : BOOLEAN, ends : 0..BreakAfter, noticed : BOOLEAN, broken : BOOLEAN],
           NEW v \in BOOLEAN, NEW n \in 0..BreakAfter
    PROVE  /\ [b EXCEPT !.broken = v]
                 \in [open : {b.open}, ends : {b.ends}, noticed : {b.noticed}, broken : {v}]
           /\ [b EXCEPT !.open = v, !.noticed = v]
                 \in [open : {v}, ends : {b.ends}, noticed : {v}, broken : {b.broken}]
           /\ [b EXCEPT !.ends = n]
                 \in [open : {b.open}, ends : {n}, noticed : {b.noticed}, broken : {b.broken}]
OBVIOUS

\* The counters follow the burst from the start, and through every handler.
LEMMA OverflowInit == O!Init => OverflowInv
<1> SUFFICES ASSUME O!Init PROVE OverflowInv
  OBVIOUS
<1>1. burst = [open |-> FALSE, ends |-> 0, noticed |-> FALSE, broken |-> FALSE]
  BY DEF O!Init, O!NoBurst
<1>2. burst \in [open : BOOLEAN, ends : 0..BreakAfter, noticed : BOOLEAN, broken : BOOLEAN]
  BY <1>1, PartsAssumption DEF O!OverflowAssumption
<1>3. burst.ends = 0 /\ ~burst.noticed
  BY <1>1
<1>4. waiting \in BOOLEAN /\ run = "idle" /\ compacting = "no" /\ nudges = 0 /\ notices = 0
  BY DEF O!Init
<1>5. O!TypeOK
  BY <1>2, <1>4 DEF O!TypeOK
<1>6. BurstCounts
  BY <1>3, <1>4, PartsAssumption DEF BurstCounts, O!OverflowAssumption
<1> QED
  BY <1>5, <1>6 DEF OverflowInv

LEMMA OverflowStays == OverflowInv /\ [O!Next]_(O!vars) => OverflowInv'
<1> SUFFICES ASSUME OverflowInv, [O!Next]_(O!vars) PROVE OverflowInv'
  OBVIOUS
<1> USE PartsAssumption DEF O!OverflowAssumption, OverflowInv, BurstCounts, O!TypeOK
<1>1. CASE UNCHANGED O!vars
  BY <1>1 DEF O!vars
<1>2. CASE O!Prompted \/ O!Infer \/ O!Fails \/ O!CompactionAborted
  BY <1>2 DEF O!Prompted, O!Infer, O!Fails, O!CompactionAborted, O!GoesOn
<1>3. CASE O!Answered
  <2>1. burst' = [open |-> FALSE, ends |-> 0, noticed |-> FALSE, broken |-> FALSE]
    BY <1>3 DEF O!Answered, O!NoBurst
  <2>2. (burst \in [open : BOOLEAN, ends : 0..BreakAfter, noticed : BOOLEAN, broken : BOOLEAN])'
        /\ burst'.ends = 0 /\ ~burst'.noticed
    BY <2>1
  <2> QED
    BY <1>3, <2>2 DEF O!Answered
<1>4. CASE O!CompactionStart
  <2>1. CASE UNCHANGED burst
    BY <1>4, <2>1 DEF O!CompactionStart
  <2>2. CASE ~UNCHANGED burst
    <3>1. PICK v \in BOOLEAN : v /\ burst' = [burst EXCEPT !.open = v, !.noticed = v]
      BY <1>4, <2>2, Zenon DEF O!CompactionStart
    <3>2. burst' \in [open : {v}, ends : {burst.ends}, noticed : {v}, broken : {burst.broken}]
      BY <3>1, BurstUpdates
    <3>3. (burst \in [open : BOOLEAN, ends : 0..BreakAfter, noticed : BOOLEAN, broken : BOOLEAN])'
          /\ burst'.ends = burst.ends /\ burst'.noticed
      BY <3>1, <3>2
    <3>4. notices' = (IF burst.noticed THEN notices ELSE notices + 1) /\ compacting' = "overflow"
          /\ UNCHANGED <<waiting, run, nudges>>
      BY <1>4, <2>2 DEF O!CompactionStart
    <3> QED
      BY <3>3, <3>4
  <2> QED
    BY <2>1, <2>2
<1>5. CASE O!CompactionEnd
  <2>1. CASE burst.open /\ (burst.broken \/ burst.ends + 1 >= BreakAfter)
    <3>1. PICK v \in BOOLEAN : v /\ burst' = [burst EXCEPT !.broken = v]
      BY <1>5, <2>1, Zenon DEF O!CompactionEnd
    <3>2. burst' \in [open : {burst.open}, ends : {burst.ends}, noticed : {burst.noticed}, broken : {v}]
      BY <3>1, BurstUpdates
    <3>3. (burst \in [open : BOOLEAN, ends : 0..BreakAfter, noticed : BOOLEAN, broken : BOOLEAN])'
          /\ burst'.ends = burst.ends /\ (burst'.noticed <=> burst.noticed)
      BY <3>1, <3>2
    <3>4. UNCHANGED <<waiting, nudges, notices>> /\ O!GoesOn
      BY <1>5, <2>1 DEF O!CompactionEnd
    <3> QED
      BY <3>3, <3>4 DEF O!GoesOn
  <2>2. CASE ~(burst.open /\ (burst.broken \/ burst.ends + 1 >= BreakAfter))
    <3> DEFINE n == IF burst.open THEN burst.ends + 1 ELSE burst.ends
    <3>1. burst' = [burst EXCEPT !.ends = n]
      BY <1>5, <2>2 DEF O!CompactionEnd
    <3>2. n \in 0..BreakAfter /\ n < BreakAfter
      BY <2>2
    <3> HIDE DEF n
    <3>3. burst' \in [open : {burst.open}, ends : {n}, noticed : {burst.noticed}, broken : {burst.broken}]
      BY <3>1, <3>2, BurstUpdates
    <3>4. (burst \in [open : BOOLEAN, ends : 0..BreakAfter, noticed : BOOLEAN, broken : BOOLEAN])'
          /\ burst'.ends = n /\ (burst'.noticed <=> burst.noticed)
      BY <3>2, <3>3
    <3>5. waiting' = TRUE /\ nudges' = n /\ UNCHANGED notices /\ O!GoesOn
      BY <1>5, <2>2 DEF O!CompactionEnd, n
    <3> QED
      BY <3>2, <3>4, <3>5 DEF O!GoesOn
  <2> QED
    BY <2>1, <2>2
<1> QED
  BY <1>1, <1>2, <1>3, <1>4, <1>5 DEF O!Next

\* NudgesBounded: until a run answers, a session that does not fit is nudged fewer than
\* BreakAfter times, and its chat told once, for any BreakAfter.
THEOREM NudgesAreBounded == AllSpec => []NudgesBounded
<1>1. AllInit => (part = "overflow" => OverflowInv)
  BY OverflowInit DEF AllInit
<1>2. (part = "overflow" => OverflowInv) /\ [AllNext]_allVars => (part = "overflow" => OverflowInv)'
  BY PartSteps, OverflowStays
<1>3. (part = "overflow" => OverflowInv) => NudgesBounded
  BY DEF OverflowInv, BurstCounts, NudgesBounded, O!NudgesBounded
<1> QED
  BY <1>1, <1>2, <1>3, PTL DEF AllSpec

-----------------------------------------------------------------------------
(* Rpc *)

\* A line that was asked is on the wire, in a call or in a reply, or was dropped; on an open
\* socket nothing was, and of an only line there is nothing else once the socket is ended.
LinesOf(c) == wire[c] + pending[c] + written[c] + back[c] + got[c]
LinesFollowed ==
    \A c \in R!Conns :
        /\ LinesOf(c) <= asked[c]
        /\ client[c] \in {"idle", "connecting"} => sock[c] = "none"
        /\ sock[c] = "none" => asked[c] = 0
        /\ asked[c] = 1 /\ sock[c] = "open" => LinesOf(c) = 1
        /\ asked[c] = 1 /\ sock[c] = "ended" => written[c] + back[c] + got[c] = 1

RpcInv == R!TypeOK /\ LinesFollowed

\* The counts of R!TypeOK, one by one.
LEMMA RpcCounts ==
    R!TypeOK <=>
        /\ up \in BOOLEAN
        /\ client \in [R!Conns -> {"idle", "connecting", "waiting", "answered", "failed"}]
        /\ partial \in [R!Conns -> BOOLEAN]
        /\ fin \in [R!Conns -> {"no", "sent", "seen"}]
        /\ sock \in [R!Conns -> {"none", "open", "ended", "dropped"}]
        /\ asked \in [R!Conns -> 0..MaxLines] /\ wire \in [R!Conns -> 0..MaxLines]
        /\ pending \in [R!Conns -> 0..MaxLines] /\ written \in [R!Conns -> 0..MaxLines]
        /\ back \in [R!Conns -> 0..MaxLines] /\ got \in [R!Conns -> 0..MaxLines]
BY DEF R!TypeOK

\* Nothing is asked at first, and every step follows the lines of its connection.
LEMMA RpcInit == R!Init => RpcInv
BY PartsAssumption, RpcCounts DEF R!Init, R!Zero, RpcInv, LinesFollowed, LinesOf, R!RpcAssumption

LEMMA RpcStays == RpcInv /\ [R!Next]_(R!vars) => RpcInv'
<1> SUFFICES ASSUME RpcInv, [R!Next]_(R!vars) PROVE RpcInv'
  OBVIOUS
<1>a. MaxLines \in Nat
  BY PartsAssumption DEF R!RpcAssumption
<1>b. /\ client \in [R!Conns -> {"idle", "connecting", "waiting", "answered", "failed"}]
      /\ partial \in [R!Conns -> BOOLEAN]
      /\ fin \in [R!Conns -> {"no", "sent", "seen"}]
      /\ sock \in [R!Conns -> {"none", "open", "ended", "dropped"}]
      /\ asked \in [R!Conns -> 0..MaxLines] /\ wire \in [R!Conns -> 0..MaxLines]
      /\ pending \in [R!Conns -> 0..MaxLines] /\ written \in [R!Conns -> 0..MaxLines]
      /\ back \in [R!Conns -> 0..MaxLines] /\ got \in [R!Conns -> 0..MaxLines]
  BY RpcCounts DEF RpcInv
<1>c. up \in BOOLEAN /\ LinesFollowed
  BY RpcCounts DEF RpcInv
<1>d. RpcInv' <=>
        /\ up' \in BOOLEAN /\ LinesFollowed'
        /\ client' \in [R!Conns -> {"idle", "connecting", "waiting", "answered", "failed"}]
        /\ partial' \in [R!Conns -> BOOLEAN]
        /\ fin' \in [R!Conns -> {"no", "sent", "seen"}]
        /\ sock' \in [R!Conns -> {"none", "open", "ended", "dropped"}]
        /\ asked' \in [R!Conns -> 0..MaxLines] /\ wire' \in [R!Conns -> 0..MaxLines]
        /\ pending' \in [R!Conns -> 0..MaxLines] /\ written' \in [R!Conns -> 0..MaxLines]
        /\ back' \in [R!Conns -> 0..MaxLines] /\ got' \in [R!Conns -> 0..MaxLines]
  BY DEF RpcInv, R!TypeOK
<1>1. CASE UNCHANGED R!vars
  BY <1>1, <1>b, <1>c, <1>d DEF R!vars, LinesFollowed, LinesOf
<1>2. CASE R!Stop
  BY <1>2, <1>b, <1>c, <1>d DEF R!Stop, LinesFollowed, LinesOf
<1>3. ASSUME NEW c \in R!Conns, R!Call(c) \/ R!HalfClose(c) \/ R!ConnectFails(c)
      PROVE  RpcInv'
  <2>1. CASE R!Call(c)
    BY <2>1, <1>b, <1>c, <1>d DEF R!Call, LinesFollowed, LinesOf
  <2>2. CASE R!HalfClose(c)
    BY <2>2, <1>b, <1>c, <1>d DEF R!HalfClose, LinesFollowed, LinesOf
  <2>3. CASE R!ConnectFails(c)
    BY <2>3, <1>b, <1>c, <1>d DEF R!ConnectFails, LinesFollowed, LinesOf
  <2> QED
    BY <1>3, <2>1, <2>2, <2>3
<1>10. ASSUME NEW c \in R!Conns, R!SocketTimeout(c)
       PROVE  RpcInv'
  BY <1>10, <1>b, <1>c, <1>d DEF R!SocketTimeout, LinesFollowed, LinesOf
<1>4. ASSUME NEW c \in R!Conns, NEW n \in 1..MaxLines, NEW cut \in BOOLEAN, R!Accept(c, n, cut)
      PROVE  RpcInv'
  <2>1. sock[c] = "none" /\ LinesOf(c) <= 0
    BY <1>4, <1>b, <1>c DEF R!Accept, LinesFollowed
  <2>2. wire[c] = 0 /\ pending[c] = 0 /\ written[c] = 0 /\ back[c] = 0 /\ got[c] = 0
    BY <2>1, <1>b, <1>a DEF LinesOf
  <2> QED
    BY <1>4, <2>2, <1>a, <1>b, <1>c, <1>d DEF R!Accept, LinesFollowed, LinesOf
<1>5. ASSUME NEW c \in R!Conns, NEW n \in 1..MaxLines, R!Read(c, n)
      PROVE  RpcInv'
  <2>1. pending[c] + n <= MaxLines
    BY <1>5, <1>a, <1>b, <1>c DEF R!Read, LinesFollowed, LinesOf
  <2> QED
    BY <1>5, <2>1, <1>a, <1>b, <1>c, <1>d DEF R!Read, LinesFollowed, LinesOf
<1>6. ASSUME NEW c \in R!Conns, R!ReadEnd(c)
      PROVE  RpcInv'
  BY <1>6, <1>a, <1>b, <1>c, <1>d DEF R!ReadEnd, LinesFollowed, LinesOf
<1>7. ASSUME NEW c \in R!Conns, R!HandleLine(c)
      PROVE  RpcInv'
  <2>1. written[c] + 1 <= MaxLines
    BY <1>7, <1>a, <1>b, <1>c DEF R!HandleLine, LinesFollowed, LinesOf
  <2> QED
    BY <1>7, <2>1, <1>a, <1>b, <1>c, <1>d DEF R!HandleLine, LinesFollowed, LinesOf
<1>8. ASSUME NEW c \in R!Conns, R!Flushed(c)
      PROVE  RpcInv'
  <2>1. back[c] + written[c] <= MaxLines
    BY <1>8, <1>a, <1>b, <1>c DEF LinesFollowed, LinesOf
  <2>2. /\ sock[c] \in {"open", "ended"} /\ written[c] > 0
        /\ back' = [back EXCEPT ![c] = back[c] + written[c]]
        /\ written' = [written EXCEPT ![c] = 0]
        /\ sock' = [sock EXCEPT ![c] = "ended"]
        /\ UNCHANGED <<up, client, asked, partial, fin, wire, pending, got>>
    BY <1>8 DEF R!Flushed
  <2>3. LinesFollowed'
    <3> SUFFICES ASSUME NEW d \in R!Conns
                 PROVE  /\ LinesOf(d)' <= asked[d]
                        /\ client[d] \in {"idle", "connecting"} => sock'[d] = "none"
                        /\ sock'[d] = "none" => asked[d] = 0
                        /\ asked[d] = 1 /\ sock'[d] = "open" => LinesOf(d)' = 1
                        /\ asked[d] = 1 /\ sock'[d] = "ended" => written'[d] + back'[d] + got[d] = 1
      BY <2>2 DEF LinesFollowed
    <3>1. CASE d = c
      <4>1. written'[c] + back'[c] = written[c] + back[c] /\ LinesOf(c)' = LinesOf(c)
        BY <2>2, <1>b DEF LinesOf
      <4>0. /\ wire[c] \in Nat /\ pending[c] \in Nat /\ written[c] \in Nat /\ written[c] > 0
            /\ back[c] \in Nat /\ got[c] \in Nat
            /\ sock[c] = "open" \/ sock[c] = "ended"
        BY <2>2, <1>b
      <4>2. asked[c] = 1 => written[c] + back[c] + got[c] = 1
        <5>1. CASE sock[c] = "open"
          <6>1. asked[c] = 1 => wire[c] + pending[c] + written[c] + back[c] + got[c] = 1
            BY <5>1, <1>c DEF LinesFollowed, LinesOf
          <6> QED
            BY <4>0, <6>1
        <5>2. CASE sock[c] = "ended"
          BY <5>2, <1>c DEF LinesFollowed
        <5> QED
          BY <4>0, <5>1, <5>2
      <4>3. sock'[c] = "ended" /\ sock[c] # "none" /\ client[c] \notin {"idle", "connecting"}
        BY <2>2, <1>b, <1>c DEF LinesFollowed
      <4>4. LinesOf(c) <= asked[c] /\ written'[c] + back'[c] + got[c] = written[c] + back[c] + got[c]
        BY <4>1, <2>2, <1>b, <1>c DEF LinesFollowed
      <4> QED
        BY <4>1, <4>2, <4>3, <4>4, <3>1
    <3>2. CASE d # c
      BY <3>2, <2>2, <1>b, <1>c DEF LinesFollowed, LinesOf
    <3> QED
      BY <3>1, <3>2
  <2> QED
    BY <2>1, <2>2, <2>3, <1>a, <1>b, <1>c, <1>d
<1>9. ASSUME NEW c \in R!Conns, R!Receive(c)
      PROVE  RpcInv'
  <2>1. got[c] + 1 <= MaxLines
    BY <1>9, <1>a, <1>b, <1>c DEF R!Receive, LinesFollowed, LinesOf
  <2> QED
    BY <1>9, <2>1, <1>a, <1>b, <1>c, <1>d DEF R!Receive, LinesFollowed, LinesOf
<1> QED
  BY <1>1, <1>2, <1>3, <1>4, <1>5, <1>6, <1>7, <1>8, <1>9, <1>10 DEF R!Next, R!Progress

\* EndsAfterReply: the server does not end the connection of an only request before its reply
\* is on the way, for any number of connections and lines.
THEOREM ServerEndsAfterReply == AllSpec => []EndsAfterReply
<1>1. AllInit => (part = "rpc" => RpcInv)
  BY RpcInit DEF AllInit
<1>2. (part = "rpc" => RpcInv) /\ [AllNext]_allVars => (part = "rpc" => RpcInv)'
  BY PartSteps, RpcStays
<1>3. (part = "rpc" => RpcInv) => EndsAfterReply
  BY DEF RpcInv, LinesFollowed, EndsAfterReply, R!EndsAfterReply
<1> QED
  BY <1>1, <1>2, <1>3, PTL DEF AllSpec

-----------------------------------------------------------------------------
(* Webhooks *)

\* A post that has a session has fired once, and keeps what the session was named after.
KeyFollows(p) ==
    key[p] # <<>> =>
        /\ key[p] = <<req[p].hook, fired[p]>>
        /\ req[p].at \in {"run", "notify", "over"}

\* Who had to share a session shares it with a post of the same name.
SharedBy(p, q) == /\ key[p] # <<>> /\ key[q] # <<>>
                  /\ req[q].hook = req[p].hook /\ fired[q] = fired[p]
HooksInv ==
    /\ W!TypeOK /\ DOMAIN key = Posts
    /\ \A p \in Posts :
        /\ req[p].at \in {"none", "body"} => req[p].answers = 0
        /\ req[p].at \in {"body", "transform", "run", "notify"} => req[p].hook \in Hooks
        /\ req[p].at = "run" => key[p] # <<>>
        /\ KeyFollows(p)
        /\ alone[p] \/ \E q \in Posts \ {p} : SharedBy(p, q)

\* Requests, and what the handlers make of one.
Reqs == [hook: Hooks \cup {"none"}, answers: 0..1,
         at: {"none", "body", "transform", "run", "notify", "over"}]
LEMMA ReqUpdates ==
    ASSUME NEW r \in Reqs, NEW h \in Hooks \cup {"none"}, NEW n \in 0..1,
           NEW a \in {"none", "body", "transform", "run", "notify", "over"}
    PROVE  /\ [r EXCEPT !.at = a] \in [hook: {r.hook}, answers: {r.answers}, at: {a}]
           /\ [r EXCEPT !.at = a, !.answers = n] \in [hook: {r.hook}, answers: {n}, at: {a}]
           /\ [r EXCEPT !.hook = h, !.at = a] \in [hook: {h}, answers: {r.answers}, at: {a}]
BY DEF Reqs

\* No post has a session at first, and every step leaves the sessions that others have.
LEMMA HooksInit == W!Init => HooksInv
BY PartsAssumption
   DEF W!Init, W!Idle, W!NoHook, HooksInv, KeyFollows, W!TypeOK, W!WebhooksAssumption

LEMMA HooksStay == HooksInv /\ [W!Next]_(W!vars) => HooksInv'
<1> SUFFICES ASSUME HooksInv, [W!Next]_(W!vars) PROVE HooksInv'
  OBVIOUS
<1>a. MaxMs \in Nat \ {0}
  BY PartsAssumption DEF W!WebhooksAssumption
<1> USE <1>a DEF HooksInv, W!TypeOK, W!NoHook, Reqs
<1>1. CASE UNCHANGED W!vars
  BY <1>1 DEF W!vars, KeyFollows, SharedBy
<1>2. CASE W!Tick \/ W!Stop \/ W!Stopped \/ W!Start
  BY <1>2 DEF W!Tick, W!Stop, W!Stopped, W!Start, KeyFollows, SharedBy
\* A step of a post that leaves its hook, or had none yet, and everybody's session.
<1>3. ASSUME NEW p \in Posts, NEW r \in Reqs,
             req' = [req EXCEPT ![p] = r],
             UNCHANGED <<now, server, key, alone, fired>>,
             sent' \in [Posts -> SUBSET HookTargets], active' \subseteq Hooks,
             r.at \in {"none", "body"} => r.answers = 0,
             r.at \in {"body", "transform", "run", "notify"} => r.hook \in Hooks,
             r.at # "run" \/ req[p].at = "run",
             key[p] # <<>> => r.hook = req[p].hook /\ r.at \in {"run", "notify", "over"}
      PROVE  HooksInv'
  <2>1. \A q \in Posts : q # p => req'[q] = req[q]
    BY <1>3
  <2>2. req'[p] = r /\ req' \in [Posts -> Reqs]
    BY <1>3
  <2>3. \A q \in Posts : key[q] # <<>> => req'[q].hook = req[q].hook
    BY <1>3, <2>1, <2>2
  <2>4. W!TypeOK'
    BY <1>3, <2>2, <2>3
  <2>5. \A q \in Posts : KeyFollows(q)'
    BY <1>3, <2>1, <2>2, <2>3 DEF KeyFollows
  <2>6. \A q, o \in Posts : SharedBy(q, o) => SharedBy(q, o)'
    BY <1>3, <2>3 DEF SharedBy
  <2>7. \A q \in Posts : /\ req'[q].at \in {"none", "body"} => req'[q].answers = 0
                         /\ req'[q].at \in {"body", "transform", "run", "notify"} => req'[q].hook \in Hooks
                         /\ req'[q].at = "run" => key'[q] # <<>>
    BY <1>3, <2>1, <2>2
  <2>8. \A q \in Posts : alone'[q] \/ \E o \in Posts \ {q} : SharedBy(q, o)'
    BY <1>3, <2>6
  <2> QED
    BY <1>3, <2>4, <2>5, <2>7, <2>8
<1>4. ASSUME NEW p \in Posts,
             \/ W!HandleRequest(p) \/ W!BodyFails(p) \/ W!BodyEnds(p)
             \/ W!Skip(p) \/ W!Completed(p) \/ W!Notify(p)
      PROVE  HooksInv'
  <2>0. req[p] \in Reqs /\ KeyFollows(p) /\ req \in [Posts -> Reqs]
    OBVIOUS
  <2>1. CASE W!HandleRequest(p)
    <3>1. req[p].hook = "none" /\ req[p].at = "none" /\ req[p].answers = 0
      BY <2>1 DEF W!HandleRequest, W!Idle
    <3>2. key[p] = <<>>
      BY <2>0, <3>1 DEF KeyFollows
    <3>3. CASE req' = [req EXCEPT ![p].at = "over", ![p].answers = 1]
      <4>1. PICK r \in Reqs : /\ req' = [req EXCEPT ![p] = r]
                            /\ r.at = "over"
        <5> DEFINE r == [req[p] EXCEPT !.at = "over", !.answers = 1]
        <5>1. r \in [hook: {req[p].hook}, answers: {1}, at: {"over"}]
          BY <2>0, ReqUpdates
        <5>2. req' = [req EXCEPT ![p] = r]
          BY <3>3
        <5>3. r \in Reqs /\ r.at = "over"
          BY <2>0, <5>1
        <5> QED
          BY <5>2, <5>3
      <4> QED
        BY <1>3, <4>1, <2>1, <3>2 DEF W!HandleRequest
    <3>4. ASSUME NEW h \in Hooks, req' = [req EXCEPT ![p].hook = h, ![p].at = "body"]
          PROVE  HooksInv'
      <4>1. PICK r \in Reqs : /\ req' = [req EXCEPT ![p] = r]
                            /\ r.at = "body" /\ r.answers = 0 /\ r.hook \in Hooks
        <5> DEFINE r == [req[p] EXCEPT !.hook = h, !.at = "body"]
        <5>1. r \in Reqs /\ r.at = "body" /\ r.answers = 0 /\ r.hook \in Hooks
          BY <2>0, <3>1
        <5>2. req' = [req EXCEPT ![p] = r]
          BY <3>4
        <5> QED
          BY <5>1, <5>2
      <4> QED
        BY <1>3, <4>1, <2>1, <3>2 DEF W!HandleRequest
    <3> QED
      BY <2>1, <3>3, <3>4 DEF W!HandleRequest
  <2>2. CASE W!BodyFails(p) \/ W!BodyEnds(p)
    <3>1. req[p].at = "body" /\ req[p].answers = 0 /\ req[p].hook \in Hooks
      BY <2>2 DEF W!BodyFails, W!BodyEnds
    <3>2. key[p] = <<>>
      BY <2>0, <3>1 DEF KeyFollows
    <3>3. PICK a \in {"over", "transform"} :
             req' = [req EXCEPT ![p].at = a, ![p].answers = @ + 1]
      BY <2>2 DEF W!BodyFails, W!BodyEnds
    <3>4. PICK r \in Reqs : req' = [req EXCEPT ![p] = r] /\ r.at = a /\ r.hook \in Hooks
      <4> DEFINE r == [req[p] EXCEPT !.at = a, !.answers = 1]
      <4>0. r \in [hook: {req[p].hook}, answers: {1}, at: {a}]
        BY <2>0, ReqUpdates
      <4>1. r \in Reqs /\ r.at = a /\ r.hook \in Hooks
        BY <2>0, <3>1, <4>0
      <4>2. req' = [req EXCEPT ![p] = r]
        BY <3>1, <3>3, <2>0
      <4> QED
        BY <4>1, <4>2
    <3> QED
      BY <1>3, <2>2, <3>2, <3>3, <3>4 DEF W!BodyFails, W!BodyEnds
  <2>3. CASE W!Skip(p) \/ W!Completed(p) \/ W!Notify(p)
    <3>1. PICK a \in {"over", "notify"} :
             req' = [req EXCEPT ![p].at = a] /\ (a = "notify" => req[p].hook \in Hooks)
      BY <2>3 DEF W!Skip, W!Completed, W!Notify, W!At
    <3>2. PICK r \in Reqs : /\ req' = [req EXCEPT ![p] = r]
                          /\ r.at = a /\ r.hook = req[p].hook
      <4> DEFINE r == [req[p] EXCEPT !.at = a]
      <4>1. r \in Reqs /\ r.at = a /\ r.hook = req[p].hook
        BY <2>0
      <4>2. req' = [req EXCEPT ![p] = r]
        BY <3>1
      <4> QED
        BY <4>1, <4>2
    <3>3. /\ UNCHANGED <<now, server, key, alone, fired>>
          /\ sent' \in [Posts -> SUBSET HookTargets] /\ active' \subseteq Hooks
      BY <2>3 DEF W!Skip, W!Completed, W!Notify
    <3>4. /\ r.at \in {"none", "body"} => r.answers = 0
          /\ r.at \in {"body", "transform", "run", "notify"} => r.hook \in Hooks
          /\ r.at # "run" \/ req[p].at = "run"
          /\ key[p] # <<>> => r.hook = req[p].hook /\ r.at \in {"run", "notify", "over"}
      BY <3>1, <3>2
    <3>5. req' = [req EXCEPT ![p] = r]
      BY <3>2
    <3> QED
      BY <1>3, <3>3, <3>4, <3>5
  <2> QED
    BY <1>4, <2>1, <2>2, <2>3
\* The post joins those that have its session.
<1>5. ASSUME NEW p \in Posts, W!Fire(p)
      PROVE  HooksInv'
  <2> DEFINE k == <<req[p].hook, now>>
             with == {q \in Posts : req[q].at = "run" /\ key[q] = k}
  <2>1. /\ req[p].at = "transform"
        /\ req' = [req EXCEPT ![p].at = "run"]
        /\ key' = [key EXCEPT ![p] = k] /\ fired' = [fired EXCEPT ![p] = now]
        /\ alone' = [q \in Posts |-> alone[q] /\ ~(with # {} /\ q \in with \cup {p})]
        /\ active' = active \cup {req[p].hook}
        /\ UNCHANGED <<now, server, sent>>
    BY <1>5 DEF W!Fire, W!At, W!WebhookSessionKey, W!Running
  <2>2. key[p] = <<>> /\ k # <<>> /\ k[1] = req[p].hook /\ k[2] = now
    BY <2>1 DEF KeyFollows
  <2> DEFINE r == [req[p] EXCEPT !.at = "run"]
  <2>a. r \in [hook: {req[p].hook}, answers: {req[p].answers}, at: {"run"}]
    <3>1. req[p] \in Reqs /\ req[p].hook \in Hooks \cup {"none"} /\ req[p].answers \in 0..1
      OBVIOUS
    <3> QED
      BY <3>1, ReqUpdates
  <2>b. r \in Reqs /\ r.hook = req[p].hook /\ r.answers = req[p].answers /\ r.at = "run"
    BY <2>a
  <2>c. req' = [req EXCEPT ![p] = r]
    BY <2>1
  <2> HIDE DEF r
  <2>3. /\ \A q \in Posts : req'[q].hook = req[q].hook /\ req'[q].answers = req[q].answers
        /\ req'[p].at = "run"
        /\ \A q \in Posts \ {p} : req'[q] = req[q]
        /\ req' \in [Posts -> Reqs]
    BY <2>b, <2>c
  <2> HIDE DEF k
  <2>4. /\ key'[p] = k /\ \A q \in Posts \ {p} : key'[q] = key[q]
        /\ DOMAIN key' = Posts
    BY <2>1
  <2>5. /\ fired'[p] = now /\ \A q \in Posts \ {p} : fired'[q] = fired[q]
        /\ fired' \in [Posts -> 0..now]
    BY <2>1
  <2>6. alone' \in [Posts -> BOOLEAN]
        /\ \A q \in Posts : alone'[q] <=> alone[q] /\ ~(with # {} /\ q \in with \cup {p})
    BY <2>1
  <2>7. \A q \in Posts : key'[q] = <<>> \/ (key'[q][1] = req'[q].hook /\ key'[q][2] <= now)
    BY <2>2, <2>3, <2>4
  <2>8. W!TypeOK'
    BY <2>1, <2>3, <2>5, <2>6, <2>7
  <2>9. \A q \in Posts : KeyFollows(q)'
    BY <2>2, <2>3, <2>4, <2>5 DEF KeyFollows, k
  <2>10. \A q, o \in Posts : SharedBy(q, o) => SharedBy(q, o)'
    BY <2>2, <2>3, <2>4, <2>5 DEF SharedBy
  <2>11. \A q \in with : q # p /\ SharedBy(q, p)' /\ SharedBy(p, q)'
    <3> SUFFICES ASSUME NEW q \in with PROVE q # p /\ SharedBy(q, p)' /\ SharedBy(p, q)'
      OBVIOUS
    <3>1. q \in Posts \ {p} /\ key[q] = k
      BY <2>1
    <3>2. req[q].hook = req[p].hook /\ fired[q] = now
      BY <3>1, <2>2 DEF KeyFollows, k
    <3> QED
      BY <3>1, <3>2, <2>2, <2>3, <2>4, <2>5 DEF SharedBy
  <2>12. \A q \in Posts : alone'[q] \/ \E o \in Posts \ {q} : SharedBy(q, o)'
    <3> SUFFICES ASSUME NEW q \in Posts, ~alone'[q]
                 PROVE  \E o \in Posts \ {q} : SharedBy(q, o)'
      OBVIOUS
    <3>1. CASE ~alone[q]
      BY <3>1, <2>10
    <3>2. CASE alone[q]
      <4>1. with # {} /\ q \in with \cup {p}
        BY <3>2, <2>6
      <4>2. CASE q \in with
        BY <4>2, <2>11
      <4>3. CASE q = p
        <5>1. PICK o \in with : TRUE
          BY <4>1
        <5> QED
          BY <5>1, <4>3, <2>11
      <4> QED
        BY <4>1, <4>2, <4>3
    <3> QED
      BY <3>1, <3>2
  <2>13. \A q \in Posts :
            /\ req'[q].at \in {"none", "body"} => req'[q].answers = 0
            /\ req'[q].at \in {"body", "transform", "run", "notify"} => req'[q].hook \in Hooks
            /\ req'[q].at = "run" => key'[q] # <<>>
    BY <2>1, <2>2, <2>3, <2>4
  <2> QED
    BY <2>4, <2>8, <2>9, <2>12, <2>13
<1> QED
  BY <1>1, <1>2, <1>4, <1>5 DEF W!Next

\* RunsAlone: a run has its session for itself unless a post to the same hook began its run in
\* the same millisecond, for any posts, hooks and targets.
THEOREM RunsAreAlone == AllSpec => []RunsAlone
<1>1. AllInit => (part = "hooks" => HooksInv)
  BY HooksInit DEF AllInit
<1>2. (part = "hooks" => HooksInv) /\ [AllNext]_allVars => (part = "hooks" => HooksInv)'
  BY PartSteps, HooksStay
<1>3. (part = "hooks" => HooksInv) => RunsAlone
  BY DEF HooksInv, SharedBy, RunsAlone, W!RunsAlone
<1> QED
  BY <1>1, <1>2, <1>3, PTL DEF AllSpec

-----------------------------------------------------------------------------
(* CliPairing *)

\* Once the guard has let the command pass, an adapter that is connected has connected since, or
\* the guard got no answer about it.
GuardHolds ==
    /\ kicked => cli # "guard" /\ (later \/ blind)
    /\ cli \notin {"guard", "refused"} /\ adapter = "connected" => later \/ blind

\* Writes that end after the one that settles the promise were announced during or after one.
WritesFollow ==
    /\ saves <= updates
    /\ saves > 1 => more
    /\ cli = "saved" /\ saves > 0 => more
    /\ cli \in {"saved", "done"} => connected /\ (dir = "paired" \/ touched \/ more)

CliInv == L!TypeOK /\ GuardHolds /\ WritesFollow

\* The command starts with the guard, and what it, the adapter and WhatsApp do keeps that.
LEMMA CliInit == L!Init => CliInv
<1> SUFFICES ASSUME L!Init PROVE CliInv
  OBVIOUS
<1>1. /\ cli = "guard" /\ login = "none" /\ reset \in BOOLEAN /\ ~kicked
      /\ adapter \in {"down", "error", "connecting", "connected"}
      /\ dir \in {"none", "stale", "paired"}
      /\ restarts = 0 /\ saves = 0 /\ updates = 0 /\ starts = 0
  BY DEF L!Init
<1>2. {qrShown, connected, kicked, later, blind, touched, more} \subseteq BOOLEAN
  BY DEF L!Init
<1>3. MaxFollowed \in Nat /\ MaxUpdates \in Nat /\ MaxStarts \in Nat
  BY PartsAssumption DEF L!PairingAssumption
<1>4. L!TypeOK
  BY <1>1, <1>2, <1>3 DEF L!TypeOK
<1> QED
  BY <1>1, <1>4 DEF CliInv, GuardHolds, WritesFollow

LEMMA CliStays == CliInv /\ [L!Next]_(L!vars) => CliInv'
<1> SUFFICES ASSUME CliInv, [L!Next]_(L!vars) PROVE CliInv'
  OBVIOUS
<1>a. MaxFollowed \in Nat /\ MaxUpdates \in Nat /\ MaxStarts \in Nat
  BY PartsAssumption DEF L!PairingAssumption
<1> USE <1>a DEF CliInv, L!TypeOK, GuardHolds, WritesFollow, L!cliVars, L!daemonVars, L!saveVars,
                 L!histVars, L!Waiting
<1>1. CASE UNCHANGED L!vars
  BY <1>1 DEF L!vars
<1>2. CASE L!AdapterStarts
  BY <1>2 DEF L!AdapterStarts
<1>3. CASE L!AdapterConnects
  BY <1>3 DEF L!AdapterConnects
<1>4. CASE L!AdapterFails
  BY <1>4 DEF L!AdapterFails
<1>5. CASE L!AdapterSaves
  BY <1>5 DEF L!AdapterSaves
<1>6. CASE L!Guard
  <2>1. PICK answered \in BOOLEAN :
          /\ cli' = IF answered /\ adapter = "connected" THEN "refused" ELSE "prepare"
          /\ blind' = (~answered /\ adapter = "connected")
    BY <1>6 DEF L!Guard
  <2>2. /\ cli = "guard" /\ blind' \in BOOLEAN
        /\ cli' \in {"refused", "prepare"} /\ (cli' = "prepare" /\ adapter = "connected" => blind')
        /\ UNCHANGED <<reset, login, qrShown, connected, restarts, adapter, starts, dir, saves, updates,
                       kicked, later, touched, more>>
    BY <1>6, <2>1 DEF L!Guard
  <2>3. ~kicked
    BY <2>2
  <2> QED
    BY <2>2, <2>3
<1>7. CASE L!Prepare
  BY <1>7 DEF L!Prepare
<1>8. CASE L!Connect
  <2>1. L!TypeOK'
    BY <1>8 DEF L!Connect
  <2>2. GuardHolds' /\ WritesFollow'
    BY <1>8 DEF L!Connect
  <2> QED
    BY <2>1, <2>2
<1>9. CASE L!ShowQr
  <2>1. L!TypeOK'
    BY <1>9 DEF L!ShowQr
  <2>2. GuardHolds' /\ WritesFollow'
    BY <1>9 DEF L!ShowQr
  <2> QED
    BY <2>1, <2>2
<1>10. CASE L!Scan
  <2>1. L!TypeOK'
    BY <1>10 DEF L!Scan, L!CredsUpdate
  <2>2. GuardHolds'
    BY <1>10 DEF L!Scan
  <2>3. WritesFollow'
    <3>1. /\ updates' = updates + 1 /\ saves' = saves + 1
          /\ more' <=> (more \/ saves > 0 \/ cli = "saved")
          /\ UNCHANGED <<cli, connected, dir, touched>>
      BY <1>10 DEF L!Scan, L!CredsUpdate
    <3> QED
      BY <3>1
  <2> QED
    BY <2>1, <2>2, <2>3
<1>11. CASE L!Update
  <2>1. L!TypeOK'
    BY <1>11 DEF L!Update, L!CredsUpdate
  <2>2. GuardHolds'
    BY <1>11 DEF L!Update
  <2>3. WritesFollow'
    <3>1. /\ updates' = updates + 1 /\ saves' = saves + 1
          /\ more' <=> (more \/ saves > 0 \/ cli = "saved")
          /\ UNCHANGED <<cli, connected, dir, touched>>
      BY <1>11 DEF L!Update, L!CredsUpdate
    <3> QED
      BY <3>1
  <2> QED
    BY <2>1, <2>2, <2>3
<1>12. CASE L!Opened
  BY <1>12 DEF L!Opened
<1>13. CASE L!WriteEnds
  BY <1>13 DEF L!WriteEnds
<1>14. CASE L!Closed
  BY <1>14 DEF L!Closed
<1>15. CASE L!Exit
  BY <1>15 DEF L!Exit
<1> QED
  BY <1>1, <1>2, <1>3, <1>4, <1>5, <1>6, <1>7, <1>8, <1>9, <1>10, <1>11, <1>12, <1>13, <1>14, <1>15
     DEF L!Next

\* PairsTruly: the command ends a session of the adapter only if that connected after the
\* guard, and tells the truth about its pairing, whatever the bounds on restarts and events.
THEOREM CommandPairsTruly == AllSpec => []PairsTruly
<1>1. AllInit => (part = "cli" => CliInv)
  BY CliInit DEF AllInit
<1>2. (part = "cli" => CliInv) /\ [AllNext]_allVars => (part = "cli" => CliInv)'
  BY PartSteps, CliStays
<1>3. (part = "cli" => CliInv) => PairsTruly
  BY DEF CliInv, GuardHolds, WritesFollow, PairsTruly, L!KicksOnlyLater, L!DoneMeansPaired
<1> QED
  BY <1>1, <1>2, <1>3, PTL DEF AllSpec

-----------------------------------------------------------------------------
(* Media *)

CallRecs == [req: B!Requests \cup {None}, file: MediaFiles \cup {None},
             at: B!Ongoing \cup {"new", "answered", "failed"},
             owner: Calls \cup {None}, size: B!Sizes \cup {"head"}]

\* A call that waits for no fetch: what it is about, and that what it may answer is bounded.
Settled(r) ==
    /\ r.at \notin {"fetching", "joined"}
    /\ r.at = "valid" => r.req = "extractDocument"
    /\ r.at \in {"agent", "tts"} => r.req = "sts"
    /\ r.at = "answered" /\ r.req \in {"transcribeAudio", "extractDocument"} => r.size # "long"

\* A call that does, and the entry of `processing` that it will hear from.
Waits(c) ==
    /\ call[c].file \in MediaFiles /\ call[c].req \in B!Requests \ {"extractDocument"}
    /\ call[c].owner \in Calls
    /\ processing[B!ServiceOf(call[c].req)][call[c].file] = call[c].owner
    /\ call[c].at = "fetching" => call[c].owner = c

EntriesFetch ==
    \A s \in B!CacheOwners, f \in MediaFiles : processing[s][f] # None =>
        LET c == call[processing[s][f]]
        IN  c.at = "fetching" /\ c.file = f /\ B!ServiceOf(c.req) = s
CallsWait == \A c \in Calls : Settled(call[c]) \/ (call[c].at \in {"fetching", "joined"} /\ Waits(c))

MediaInv == B!TypeOK /\ EntriesFetch /\ CallsWait

\* What the handlers make of a call.
LEMMA CallUpdates ==
    ASSUME NEW r \in CallRecs,
           NEW a \in B!Ongoing \cup {"new", "answered", "failed"}, NEW o \in Calls \cup {None},
           NEW z \in B!Sizes \cup {"head"}
    PROVE  /\ [r EXCEPT !.at = a]
                 \in [req: {r.req}, file: {r.file}, at: {a}, owner: {r.owner}, size: {r.size}]
           /\ [r EXCEPT !.at = a, !.owner = o]
                 \in [req: {r.req}, file: {r.file}, at: {a}, owner: {o}, size: {r.size}]
           /\ [r EXCEPT !.at = a, !.size = z]
                 \in [req: {r.req}, file: {r.file}, at: {a}, owner: {r.owner}, size: {z}]
           /\ [r EXCEPT !.at = a, !.size = z, !.owner = o]
                 \in [req: {r.req}, file: {r.file}, at: {a}, owner: {o}, size: {z}]
BY DEF CallRecs

LEMMA CallBegins ==
    ASSUME NEW r \in CallRecs, NEW q \in B!Requests, NEW f \in MediaFiles,
           NEW a \in B!Ongoing \cup {"new", "answered", "failed"}
    PROVE  /\ [r EXCEPT !.req = q, !.file = f]
                 \in [req: {q}, file: {f}, at: {r.at}, owner: {r.owner}, size: {r.size}]
           /\ [r EXCEPT !.req = q, !.file = f, !.at = a]
                 \in [req: {q}, file: {f}, at: {a}, owner: {r.owner}, size: {r.size}]
BY DEF CallRecs

LEMMA NewIsCall == /\ B!New \in [req: {None}, file: {None}, at: {"new"}, owner: {None}, size: {"empty"}]
                   /\ B!New \in CallRecs /\ Settled(B!New)
<1>1. B!New \in [req: {None}, file: {None}, at: {"new"}, owner: {None}, size: {"empty"}]
  BY DEF B!New
<1> QED
  BY <1>1 DEF CallRecs, Settled, B!Sizes

\* Continue settles a call.
LEMMA ContinueSettles ==
    ASSUME NEW r \in CallRecs, r.req \in B!Requests \ {"extractDocument"},
           NEW z \in B!Sizes
    PROVE  B!Continue(r, z) \in CallRecs /\ Settled(B!Continue(r, z))
<1> DEFINE a == CASE r.req = "transcribeAudio" /\ z = "long" -> "saving"
                  [] r.req = "sts" -> IF z = "empty" THEN "failed" ELSE "agent"
                  [] OTHER -> "answered"
           n == [r EXCEPT !.at = a, !.size = z, !.owner = None]
<1>1. B!Continue(r, z) = n
  BY DEF B!Continue
<1>2. /\ a \in {"saving", "failed", "agent", "answered"}
      /\ a = "agent" => r.req = "sts"
      /\ a = "answered" => ~(r.req = "transcribeAudio" /\ z = "long")
  BY DEF B!Requests
<1>3. a \in B!Ongoing \cup {"new", "answered", "failed"} /\ None \in Calls \cup {None}
      /\ z \in B!Sizes \cup {"head"}
      /\ r.req \in B!Requests
  BY <1>2 DEF B!Ongoing
<1> HIDE DEF a
<1>4. n \in [req: {r.req}, file: {r.file}, at: {a}, owner: {None}, size: {z}]
  BY <1>3 DEF CallRecs
<1> HIDE DEF n
<1>5. n \in CallRecs
  BY <1>3, <1>4 DEF CallRecs
<1>6. n.at = a /\ n.req = r.req /\ n.size = z
  BY <1>4
<1>7. Settled(n)
  BY <1>2, <1>6 DEF Settled, B!Requests
<1> QED
  BY <1>1, <1>5, <1>7

\* One call changes that waited for no fetch, and it still waits for none.
LEMMA SettledMoves ==
    ASSUME MediaInv, NEW c \in Calls, Settled(call[c]), NEW r \in CallRecs, Settled(r),
           call' = [call EXCEPT ![c] = r], UNCHANGED <<cached, processing>>,
           full' \in [MediaFiles -> {"no", "torn", "full"}]
    PROVE  MediaInv'
<1>1. call \in [Calls -> CallRecs]
  BY DEF MediaInv, B!TypeOK, CallRecs
<1>2. call'[c] = r /\ call' \in [Calls -> CallRecs] /\ \A d \in Calls \ {c} : call'[d] = call[d]
  BY <1>1
<1>3. B!TypeOK'
  BY <1>2 DEF MediaInv, B!TypeOK, CallRecs
<1>4. \A s \in B!CacheOwners, f \in MediaFiles : processing[s][f] # c
  BY PartsAssumption DEF MediaInv, EntriesFetch, Settled, B!MediaAssumption
<1>5. EntriesFetch'
  <2> SUFFICES ASSUME NEW s \in B!CacheOwners, NEW f \in MediaFiles, processing[s][f] # None
               PROVE  LET d == call'[processing[s][f]]
                      IN  d.at = "fetching" /\ d.file = f /\ B!ServiceOf(d.req) = s
    BY DEF EntriesFetch, B!ServiceOf
  <2>1. processing[s][f] \in Calls \ {c}
    BY <1>4 DEF MediaInv, B!TypeOK
  <2> QED
    BY <2>1, <1>2 DEF MediaInv, EntriesFetch
<1>6. CallsWait'
  <2> SUFFICES ASSUME NEW d \in Calls
               PROVE  Settled(call'[d]) \/ (call'[d].at \in {"fetching", "joined"} /\ Waits(d)')
    BY DEF CallsWait, Settled
  <2>1. CASE d = c
    BY <2>1, <1>2
  <2>2. CASE d # c
    BY <2>2, <1>2 DEF MediaInv, CallsWait, Waits, B!ServiceOf
  <2> QED
    BY <2>1, <2>2
<1> QED
  BY <1>3, <1>5, <1>6 DEF MediaInv

\* A fetch ends: its entry is taken out, and everybody who waited for it is settled.
LEMMA FetchEnds ==
    ASSUME MediaInv, NEW c \in Calls, call[c].at = "fetching", processing' = B!Release(c),
           call' \in [Calls -> CallRecs],
           \A d \in Calls : IF d \in B!Waiting(c) THEN Settled(call'[d]) ELSE call'[d] = call[d],
           cached' \in [MediaFiles -> [B!Kinds -> B!Sizes \cup {None}]],
           UNCHANGED full
    PROVE  MediaInv'
<1> DEFINE s == B!ServiceOf(call[c].req)
           f == call[c].file
<1>1. Waits(c) /\ s \in B!CacheOwners /\ f \in MediaFiles /\ processing[s][f] = c
  BY DEF MediaInv, CallsWait, Settled, Waits, B!ServiceOf, B!CacheOwners
<1>2. processing \in [B!CacheOwners -> [MediaFiles -> Calls \cup {None}]]
  BY DEF MediaInv, B!TypeOK
<1>3. processing' = [processing EXCEPT ![s][f] = None]
  BY DEF B!Release
<1> HIDE DEF s, f
<1>4. /\ processing' \in [B!CacheOwners -> [MediaFiles -> Calls \cup {None}]]
      /\ processing'[s][f] = None
      /\ \A t \in B!CacheOwners, g \in MediaFiles :
            t # s \/ g # f => processing'[t][g] = processing[t][g]
  BY <1>1, <1>2, <1>3
<1>5. B!TypeOK'
  BY <1>4 DEF MediaInv, B!TypeOK, CallRecs
<1>6. \A d \in Calls : call[d].at \in {"fetching", "joined"} => Waits(d)
  BY DEF MediaInv, CallsWait, Settled
<1>7. EntriesFetch'
  <2> SUFFICES ASSUME NEW t \in B!CacheOwners, NEW g \in MediaFiles, processing'[t][g] # None
               PROVE  LET d == call'[processing'[t][g]]
                      IN  d.at = "fetching" /\ d.file = g /\ B!ServiceOf(d.req) = t
    BY DEF EntriesFetch, B!ServiceOf
  <2>1. PICK d \in Calls : d = processing[t][g] /\ processing'[t][g] = d /\ (t # s \/ g # f)
    BY <1>4
  <2>2. call[d].at = "fetching" /\ call[d].file = g /\ B!ServiceOf(call[d].req) = t
    BY <2>1, <1>4 DEF MediaInv, EntriesFetch
  <2>3. call[d].owner = d /\ d # c
    BY <2>1, <2>2, <1>1, <1>6 DEF Waits, s, f
  <2>4. d \notin B!Waiting(c)
    BY <2>3 DEF B!Waiting
  <2> QED
    BY <2>1, <2>2, <2>4
<1>8. CallsWait'
  <2> SUFFICES ASSUME NEW d \in Calls, ~Settled(call'[d])
               PROVE  call'[d].at \in {"fetching", "joined"} /\ Waits(d)'
    BY DEF CallsWait, Settled
  <2>1. d \notin B!Waiting(c) /\ call'[d] = call[d]
    OBVIOUS
  <2>2. call[d].at \in {"fetching", "joined"} /\ Waits(d)
    BY <2>1 DEF MediaInv, CallsWait
  <2>3. call[d].owner # c
    BY <2>1, <2>2 DEF B!Waiting
  <2>4. B!ServiceOf(call[d].req) \in B!CacheOwners
    BY DEF B!ServiceOf, B!CacheOwners
  <2>5. B!ServiceOf(call[d].req) # s \/ call[d].file # f
    BY <2>2, <2>3, <1>1 DEF Waits
  <2>6. processing'[B!ServiceOf(call[d].req)][call[d].file] = processing[B!ServiceOf(call[d].req)][call[d].file]
    BY <2>2, <2>4, <2>5, <1>4 DEF Waits
  <2> QED
    BY <2>1, <2>2, <2>6 DEF Waits, B!ServiceOf
<1> QED
  BY <1>5, <1>7, <1>8 DEF MediaInv

\* A call that asks for a text: it has it, joins a fetch, or begins one.
LEMMA GetKeeps ==
    ASSUME MediaInv, NEW c \in Calls, NEW q \in B!Requests, NEW f \in MediaFiles, B!Get(c, q, f)
    PROVE  MediaInv'
<1> DEFINE s == B!ServiceOf(q)
           k == B!KindOf(q)
           mine == [B!New EXCEPT !.req = q, !.file = f]
<1>0. /\ call[c].at = "new" /\ q # "extractDocument" /\ UNCHANGED <<cached, full>>
      /\ full \in [MediaFiles -> {"no", "torn", "full"}]
      /\ call \in [Calls -> CallRecs]
      /\ processing \in [B!CacheOwners -> [MediaFiles -> Calls \cup {None}]]
      /\ s \in B!CacheOwners /\ k \in B!Kinds
      /\ Settled(call[c])
  BY DEF B!Get, MediaInv, B!TypeOK, CallRecs, B!ServiceOf, B!CacheOwners, B!KindOf, B!Kinds, Settled
<1>1. mine \in [req: {q}, file: {f}, at: {"new"}, owner: {None}, size: {"empty"}]
  BY NewIsCall, CallBegins
<1>2. mine \in CallRecs /\ mine.req = q
  BY <1>1 DEF CallRecs, B!Sizes
<1>3. CASE cached[f][k] \in {"short", "long"}
  <2>1. call' = [call EXCEPT ![c] = B!Continue(mine, cached[f][k])] /\ UNCHANGED processing
    BY <1>3 DEF B!Get
  <2>3. cached[f][k] \in B!Sizes
    BY <1>3 DEF B!Sizes
  <2> HIDE DEF mine, k, s
  <2>4. B!Continue(mine, cached[f][k]) \in CallRecs /\ Settled(B!Continue(mine, cached[f][k]))
    BY <1>0, <1>2, <2>3, ContinueSettles
  <2> QED
    BY <1>0, <2>1, <2>4, SettledMoves
\* From here on the call waits.
<1>4. ASSUME NEW n \in CallRecs, n.at \in {"fetching", "joined"}, n.req = q, n.file = f,
             n.owner \in Calls, n.at = "fetching" => n.owner = c,
             call' = [call EXCEPT ![c] = n], processing' \in [B!CacheOwners -> [MediaFiles -> Calls \cup {None}]],
             processing'[s][f] = n.owner,
             \A t \in B!CacheOwners, g \in MediaFiles :
                t # s \/ g # f => processing'[t][g] = processing[t][g],
             n.at = "fetching" => processing[s][f] = None,
             n.at = "joined" => processing[s][f] = n.owner
      PROVE  MediaInv'
  <2> HIDE DEF mine, k
  <2>1. call'[c] = n /\ call' \in [Calls -> CallRecs] /\ \A d \in Calls \ {c} : call'[d] = call[d]
    BY <1>0, <1>4
  <2>2. B!TypeOK'
    BY <1>0, <1>4, <2>1 DEF MediaInv, B!TypeOK, CallRecs
  <2>3. \A t \in B!CacheOwners, g \in MediaFiles : processing[t][g] # c
    BY <1>0, PartsAssumption DEF MediaInv, EntriesFetch, B!MediaAssumption
  <2>4. EntriesFetch'
    <3> SUFFICES ASSUME NEW t \in B!CacheOwners, NEW g \in MediaFiles, processing'[t][g] # None
                 PROVE  LET d == call'[processing'[t][g]]
                        IN  d.at = "fetching" /\ d.file = g /\ B!ServiceOf(d.req) = t
      BY DEF EntriesFetch, B!ServiceOf
    <3>1. CASE n.at = "fetching" /\ t = s /\ g = f
      BY <3>1, <1>4, <2>1
    <3>2. CASE ~(n.at = "fetching" /\ t = s /\ g = f)
      <4>1. processing'[t][g] = processing[t][g]
        BY <3>2, <1>4
      <4>2. processing[t][g] \in Calls \ {c}
        BY <4>1, <2>3, <1>0
      <4> QED
        BY <4>1, <4>2, <2>1 DEF MediaInv, EntriesFetch
    <3> QED
      BY <3>1, <3>2
  <2>5. CallsWait'
    <3> SUFFICES ASSUME NEW d \in Calls
                 PROVE  Settled(call'[d]) \/ (call'[d].at \in {"fetching", "joined"} /\ Waits(d)')
      BY DEF CallsWait, Settled
    <3>1. CASE d = c
      <4>1. Waits(c)'
        BY <1>0, <1>4, <2>1 DEF Waits, B!ServiceOf
      <4> QED
        BY <3>1, <4>1, <1>4, <2>1
    <3>2. CASE d # c /\ ~Settled(call[d])
      <4>1. call[d].at \in {"fetching", "joined"} /\ Waits(d) /\ call'[d] = call[d]
        BY <3>2, <2>1 DEF MediaInv, CallsWait
      <4> DEFINE t == B!ServiceOf(call[d].req)
      <4>2. t \in B!CacheOwners
        BY DEF B!ServiceOf, B!CacheOwners
      <4>3. processing[t][call[d].file] # None
        BY <4>1, PartsAssumption DEF Waits, B!MediaAssumption
      <4>4. processing'[t][call[d].file] = processing[t][call[d].file]
        <5>1. CASE t = s /\ call[d].file = f
          BY <5>1, <4>3, <1>4
        <5>2. CASE ~(t = s /\ call[d].file = f)
          BY <5>2, <4>1, <4>2, <1>4 DEF Waits
        <5> QED
          BY <5>1, <5>2
      <4> QED
        BY <4>1, <4>4 DEF Waits, B!ServiceOf
    <3>3. CASE d # c /\ Settled(call[d])
      BY <3>3, <2>1
    <3> QED
      BY <3>1, <3>2, <3>3
  <2> QED
    BY <1>0, <2>2, <2>4, <2>5 DEF MediaInv
<1>5. CASE cached[f][k] \notin {"short", "long"} /\ processing[s][f] # None
  <2> DEFINE o == processing[s][f]
             n == [mine EXCEPT !.at = "joined", !.owner = o]
  <2>1. call' = [call EXCEPT ![c] = n] /\ UNCHANGED processing
    BY <1>5 DEF B!Get
  <2>2. o \in Calls
    BY <1>0, <1>5
  <2> HIDE DEF mine, k, s, o
  <2>3. n \in [req: {q}, file: {f}, at: {"joined"}, owner: {o}, size: {mine.size}]
    BY <1>1, <1>2, <2>2, CallUpdates DEF B!Ongoing
  <2>4. n \in CallRecs
    BY <2>2, <2>3, <1>2 DEF CallRecs, B!Ongoing
  <2> HIDE DEF n
  <2>5. n.at = "joined" /\ n.req = q /\ n.file = f /\ n.owner = o
    BY <2>3
  <2>6. processing' \in [B!CacheOwners -> [MediaFiles -> Calls \cup {None}]] /\ processing'[s][f] = o /\ processing[s][f] = o
    BY <2>1, <1>0 DEF o
  <2> QED
    BY <1>4, <2>1, <2>2, <2>4, <2>5, <2>6
<1>6. CASE cached[f][k] \notin {"short", "long"} /\ processing[s][f] = None
  <2> DEFINE n == [mine EXCEPT !.at = "fetching", !.owner = c]
  <2>1. call' = [call EXCEPT ![c] = n] /\ processing' = [processing EXCEPT ![s][f] = c]
    BY <1>6 DEF B!Get
  <2> HIDE DEF mine, k, s
  <2>3. n \in [req: {q}, file: {f}, at: {"fetching"}, owner: {c}, size: {mine.size}]
    BY <1>1, <1>2, CallUpdates DEF B!Ongoing
  <2>4. n \in CallRecs
    BY <2>3, <1>2 DEF CallRecs, B!Ongoing
  <2> HIDE DEF n
  <2>5. n.at = "fetching" /\ n.req = q /\ n.file = f /\ n.owner = c
    BY <2>3
  <2>6. /\ processing' \in [B!CacheOwners -> [MediaFiles -> Calls \cup {None}]] /\ processing'[s][f] = c
        /\ \A t \in B!CacheOwners, g \in MediaFiles : t # s \/ g # f => processing'[t][g] = processing[t][g]
    BY <2>1, <1>0
  <2> QED
    BY <1>4, <1>6, <2>1, <2>4, <2>5, <2>6
<1> QED
  BY <1>3, <1>5, <1>6

\* The other steps that begin a call, and those of a call that goes on.
LEMMA BeginKeeps ==
    ASSUME MediaInv, NEW c \in Calls, NEW q \in B!Requests, NEW f \in MediaFiles,
           B!Unresolved(c, q, f) \/ B!ValidatePath(c, f)
    PROVE  MediaInv'
<1>0. /\ call \in [Calls -> CallRecs] /\ call[c] \in CallRecs
      /\ full \in [MediaFiles -> {"no", "torn", "full"}]
      /\ Settled(call[c]) \/ call[c].at \in {"fetching", "joined"}
  BY DEF MediaInv, B!TypeOK, CallRecs, CallsWait
<1>1. CASE B!Unresolved(c, q, f)
  <2> DEFINE n == [B!New EXCEPT !.req = q, !.file = f, !.at = "failed"]
  <2>1. n \in [req: {q}, file: {f}, at: {"failed"}, owner: {None}, size: {"empty"}]
    BY NewIsCall, CallBegins
  <2>2. n \in CallRecs /\ n.at = "failed"
    BY <2>1 DEF CallRecs, B!Sizes
  <2>3. call' = [call EXCEPT ![c] = n] /\ UNCHANGED <<cached, processing, full>> /\ call[c].at = "new"
    BY <1>1 DEF B!Unresolved
  <2> HIDE DEF n
  <2>4. Settled(n) /\ Settled(call[c])
    BY <2>2, <2>3 DEF Settled
  <2> QED
    BY <1>0, <2>2, <2>3, <2>4, SettledMoves
<1>2. CASE B!ValidatePath(c, f)
  <2>0. PICK a \in {"valid", "failed"} :
           call' = [call EXCEPT ![c] = [B!New EXCEPT !.req = "extractDocument", !.file = f, !.at = a]]
    BY <1>2 DEF B!ValidatePath
  <2> DEFINE n == [B!New EXCEPT !.req = "extractDocument", !.file = f, !.at = a]
  <2>1. n \in [req: {"extractDocument"}, file: {f}, at: {a}, owner: {None}, size: {"empty"}]
    BY NewIsCall, CallBegins DEF B!Requests, B!Ongoing
  <2>2. n \in CallRecs /\ n.at = a /\ n.req = "extractDocument"
    BY <2>1 DEF CallRecs, B!Sizes, B!Requests, B!Ongoing
  <2>3. UNCHANGED <<cached, processing, full>> /\ call[c].at = "new" /\ call' = [call EXCEPT ![c] = n]
    BY <1>2, <2>0 DEF B!ValidatePath
  <2> HIDE DEF n
  <2>4. Settled(n) /\ Settled(call[c])
    BY <2>2, <2>3 DEF Settled
  <2> QED
    BY <1>0, <2>2, <2>3, <2>4, SettledMoves
<1> QED
  BY <1>1, <1>2

LEMMA CallKeeps ==
    ASSUME MediaInv, NEW c \in Calls,
           B!ExtractRaw(c) \/ B!BoundForContext(c) \/ B!AgentAnswers(c) \/ B!Synthesize(c)
    PROVE  MediaInv'
<1>0. /\ call \in [Calls -> CallRecs] /\ call[c] \in CallRecs
      /\ full \in [MediaFiles -> {"no", "torn", "full"}]
      /\ Settled(call[c]) \/ call[c].at \in {"fetching", "joined"}
  BY DEF MediaInv, B!TypeOK, CallRecs, CallsWait
\* The call gets another `at`, and keeps what it is about.
<1>3. ASSUME NEW a \in {"failed", "tts", "answered"}, call' = [call EXCEPT ![c].at = a],
             UNCHANGED <<cached, processing, full>>,
             call[c].at \notin {"fetching", "joined"},
             a \in {"tts", "answered"} => call[c].req = "sts"
      PROVE  MediaInv'
  <2> DEFINE n == [call[c] EXCEPT !.at = a]
  <2>1. n \in [req: {call[c].req}, file: {call[c].file}, at: {a}, owner: {call[c].owner}, size: {call[c].size}]
    BY <1>0 DEF CallRecs
  <2>2. n \in CallRecs /\ n.at = a /\ n.req = call[c].req
    BY <2>1, <1>0 DEF CallRecs, B!Ongoing
  <2>3. call' = [call EXCEPT ![c] = n]
    BY <1>3
  <2> HIDE DEF n
  <2>4. Settled(n) /\ Settled(call[c])
    BY <2>2, <1>0, <1>3 DEF Settled
  <2> QED
    BY <1>0, <1>3, <2>2, <2>3, <2>4, SettledMoves
<1>4. CASE B!AgentAnswers(c) \/ B!Synthesize(c)
  <2>1. call[c].at \in {"agent", "tts"} /\ call[c].req = "sts"
    BY <1>4, <1>0 DEF B!AgentAnswers, B!Synthesize, Settled
  <2>2. /\ UNCHANGED <<cached, processing, full>>
        /\ \E a \in {"failed", "tts", "answered"} : call' = [call EXCEPT ![c].at = a]
    BY <1>4 DEF B!AgentAnswers, B!Synthesize
  <2> QED
    BY <1>3, <2>1, <2>2
<1>5. CASE B!ExtractRaw(c)
  <2>1. /\ call[c].at = "valid" /\ UNCHANGED <<cached, processing, full>>
        /\ Settled(call[c]) /\ call[c].req = "extractDocument"
    BY <1>5, <1>0 DEF B!ExtractRaw, Settled
  <2>2. CASE call' = [call EXCEPT ![c].at = "failed"]
    BY <1>3, <2>1, <2>2
  <2>3. ASSUME NEW z \in B!Sizes,
               call' = [call EXCEPT ![c].at = IF z = "long" THEN "saving" ELSE "answered",
                                    ![c].size = z]
        PROVE  MediaInv'
    <3> DEFINE a == IF z = "long" THEN "saving" ELSE "answered"
               n == [call[c] EXCEPT !.at = a, !.size = z]
    <3>1. call' = [call EXCEPT ![c] = n]
      BY <2>3
    <3>2. a \in {"saving", "answered"} /\ (a = "answered" => z # "long")
      OBVIOUS
    <3> HIDE DEF a
    <3>3. n \in [req: {call[c].req}, file: {call[c].file}, at: {a}, owner: {call[c].owner}, size: {z}]
      BY <1>0, <3>2 DEF CallRecs
    <3> HIDE DEF n
    <3>4. n \in CallRecs /\ n.at = a /\ n.size = z
      BY <3>2, <3>3, <1>0 DEF CallRecs, B!Ongoing
    <3>5. Settled(n)
      BY <3>2, <3>4 DEF Settled
    <3> QED
      BY <1>0, <2>1, <3>1, <3>4, <3>5, SettledMoves
  <2> QED
    BY <1>5, <2>2, <2>3 DEF B!ExtractRaw
<1>6. CASE B!BoundForContext(c)
  <2> DEFINE n == [call[c] EXCEPT !.at = "answered", !.size = "head"]
  <2>1. /\ call[c].at = "saving" /\ UNCHANGED <<cached, processing>>
        /\ Settled(call[c])
        /\ full' \in [MediaFiles -> {"no", "torn", "full"}]
    BY <1>6, <1>0 DEF B!BoundForContext, Settled
  <2>2. call' = [call EXCEPT ![c] = n]
    BY <1>6 DEF B!BoundForContext
  <2>3. n \in [req: {call[c].req}, file: {call[c].file}, at: {"answered"}, owner: {call[c].owner}, size: {"head"}]
    BY <1>0 DEF CallRecs
  <2> HIDE DEF n
  <2>4. n \in CallRecs /\ n.at = "answered" /\ n.size = "head"
    BY <2>3, <1>0 DEF CallRecs
  <2>5. Settled(n)
    BY <2>4 DEF Settled
  <2> QED
    BY <1>0, <2>1, <2>2, <2>4, <2>5, SettledMoves
<1> QED
  BY <1>4, <1>5, <1>6

\* A fetch that has an answer, or fails, settles everybody who waits.
LEMMA FetchKeeps ==
    ASSUME MediaInv, NEW c \in Calls, B!FetchFails(c) \/ \E z \in B!Sizes : B!Fetched(c, z)
    PROVE  MediaInv'
<1>0. /\ call \in [Calls -> CallRecs] /\ call[c].at = "fetching"
      /\ cached \in [MediaFiles -> [B!Kinds -> B!Sizes \cup {None}]]
      /\ processing' = B!Release(c) /\ UNCHANGED full
  BY DEF MediaInv, B!TypeOK, CallRecs, B!FetchFails, B!Fetched
<1>1. \A d \in Calls : call[d].at \in {"fetching", "joined"} => Waits(d)
  BY DEF MediaInv, CallsWait, Settled
<1>2. \A d \in B!Waiting(c) : /\ d \in Calls /\ Waits(d) /\ call[d] \in CallRecs
                              /\ B!ServiceOf(call[d].req) = B!ServiceOf(call[d].req)
  BY <1>0, <1>1 DEF B!Waiting
<1>3. CASE B!FetchFails(c)
  <2>1. call' = [d \in Calls |-> IF d \in B!Waiting(c)
                                 THEN [call[d] EXCEPT !.at = "failed", !.owner = None] ELSE call[d]]
        /\ UNCHANGED cached
    BY <1>3 DEF B!FetchFails
  <2>2. \A r \in CallRecs : LET n == [r EXCEPT !.at = "failed", !.owner = None]
                            IN  n \in CallRecs /\ Settled(n)
    <3> SUFFICES ASSUME NEW r \in CallRecs
                 PROVE  LET n == [r EXCEPT !.at = "failed", !.owner = None]
                        IN  n \in CallRecs /\ Settled(n)
      OBVIOUS
    <3> DEFINE n == [r EXCEPT !.at = "failed", !.owner = None]
    <3>1. n \in [req: {r.req}, file: {r.file}, at: {"failed"}, owner: {None}, size: {r.size}]
      BY DEF CallRecs
    <3> HIDE DEF n
    <3>2. n \in CallRecs /\ n.at = "failed"
      BY <3>1 DEF CallRecs
    <3>3. Settled(n)
      BY <3>2 DEF Settled
    <3> QED
      BY <3>2, <3>3 DEF n
  <2>3. /\ call' \in [Calls -> CallRecs]
        /\ \A d \in Calls : IF d \in B!Waiting(c) THEN Settled(call'[d]) ELSE call'[d] = call[d]
    BY <1>0, <2>1, <2>2
  <2> QED
    BY <1>0, <2>1, <2>3, FetchEnds
<1>4. ASSUME NEW z \in B!Sizes, B!Fetched(c, z)
      PROVE  MediaInv'
  <2> DEFINE k == B!KindOf(call[c].req)
             f == call[c].file
  <2>1. /\ cached' \in {cached, [cached EXCEPT ![f][k] = z]}
        /\ call' = [d \in Calls |-> IF d \in B!Waiting(c) THEN B!Continue(call[d], z) ELSE call[d]]
    BY <1>4 DEF B!Fetched
  <2>2. k \in B!Kinds
    BY DEF B!KindOf, B!Kinds
  <2>3. f \in MediaFiles
    BY <1>0, <1>1 DEF Waits
  <2> HIDE DEF k, f
  <2>4. cached' \in [MediaFiles -> [B!Kinds -> B!Sizes \cup {None}]]
    <3>1. CASE cached' = cached
      BY <3>1, <1>0
    <3>2. CASE cached' = [cached EXCEPT ![f][k] = z]
      BY <3>2, <1>0, <2>2, <2>3 DEF B!Kinds
    <3> QED
      BY <2>1, <3>1, <3>2
  <2>5. \A d \in B!Waiting(c) : call[d].req \in B!Requests \ {"extractDocument"}
    BY <1>2 DEF Waits
  <2>6. \A d \in B!Waiting(c) : B!Continue(call[d], z) \in CallRecs /\ Settled(B!Continue(call[d], z))
    BY <1>2, <2>2, <2>5, ContinueSettles
  <2>7. /\ call' \in [Calls -> CallRecs]
        /\ \A d \in Calls : IF d \in B!Waiting(c) THEN Settled(call'[d]) ELSE call'[d] = call[d]
    BY <1>0, <2>1, <2>6
  <2> QED
    BY <1>0, <2>4, <2>7, FetchEnds
<1> QED
  BY <1>3, <1>4

\* A restart settles everybody.
LEMMA RestartKeeps == MediaInv /\ B!Restart => MediaInv'
<1> SUFFICES ASSUME MediaInv, B!Restart PROVE MediaInv'
  OBVIOUS
<1>0. call \in [Calls -> CallRecs] /\ cached \in [MediaFiles -> [B!Kinds -> B!Sizes \cup {None}]]
  BY DEF MediaInv, B!TypeOK, CallRecs
<1>1. processing' = [s \in B!CacheOwners |-> [f \in MediaFiles |-> None]] /\ UNCHANGED full
  BY DEF B!Restart
<1>2. \A c \in Calls : call'[c] \in CallRecs /\ Settled(call'[c])
  <2> SUFFICES ASSUME NEW c \in Calls PROVE call'[c] \in CallRecs /\ Settled(call'[c])
    OBVIOUS
  <2>1. CASE call[c].at \in B!Ongoing
    <3> DEFINE n == [call[c] EXCEPT !.at = "failed", !.owner = None]
    <3>1. n \in [req: {call[c].req}, file: {call[c].file}, at: {"failed"}, owner: {None}, size: {call[c].size}]
      BY <1>0 DEF CallRecs
    <3>2. call'[c] = n
      BY <2>1 DEF B!Restart
    <3> HIDE DEF n
    <3>3. n \in CallRecs /\ n.at = "failed"
      BY <3>1, <1>0 DEF CallRecs
    <3> QED
      BY <3>2, <3>3 DEF Settled
  <2>2. CASE call[c].at \notin B!Ongoing
    <3>1. call'[c] = call[c]
      BY <2>2 DEF B!Restart
    <3> QED
      BY <3>1, <2>2, <1>0 DEF MediaInv, CallsWait, B!Ongoing
  <2> QED
    BY <2>1, <2>2
<1>3. call' \in [Calls -> CallRecs]
  BY <1>2 DEF B!Restart
<1>4. cached' \in [MediaFiles -> [B!Kinds -> B!Sizes \cup {None}]]
  <2>1. cached' = cached \/ \E f : cached' = [cached EXCEPT ![f] = [k \in B!Kinds |-> None]]
    BY DEF B!Restart
  <2> QED
    BY <2>1, <1>0 DEF B!Kinds
<1>5. CallsWait' /\ EntriesFetch'
  BY <1>1, <1>2 DEF CallsWait, EntriesFetch, Settled, B!CacheOwners
<1>6. B!TypeOK'
  BY <1>1, <1>3, <1>4 DEF MediaInv, B!TypeOK, CallRecs
<1> QED
  BY <1>4, <1>5, <1>6, PartsAssumption DEF MediaInv, B!MediaAssumption, B!Sizes

LEMMA MediaInit == B!Init => MediaInv
<1> SUFFICES ASSUME B!Init PROVE MediaInv
  OBVIOUS
<1>1. \A c \in Calls : call[c] \in CallRecs /\ Settled(call[c])
  BY NewIsCall DEF B!Init
<1>2. /\ processing = [s \in B!CacheOwners |-> [f \in MediaFiles |-> None]]
      /\ cached = [f \in MediaFiles |-> [k \in B!Kinds |-> None]]
      /\ full = [f \in MediaFiles |-> "no"]
      /\ call \in [Calls -> CallRecs]
  BY <1>1 DEF B!Init
<1>3. B!TypeOK
  BY <1>2 DEF B!TypeOK, CallRecs
<1> QED
  BY <1>1, <1>2, <1>3, PartsAssumption
     DEF MediaInv, EntriesFetch, CallsWait, B!Kinds, B!MediaAssumption, B!Sizes

LEMMA MediaStays == MediaInv /\ [B!Next]_(B!vars) => MediaInv'
<1> SUFFICES ASSUME MediaInv, [B!Next]_(B!vars) PROVE MediaInv'
  OBVIOUS
<1>1. CASE UNCHANGED B!vars
  BY <1>1 DEF B!vars, MediaInv, B!TypeOK, EntriesFetch, CallsWait, Settled,
              Waits, B!ServiceOf
<1>2. ASSUME NEW c \in Calls, NEW f \in MediaFiles, NEW r \in B!Requests,
             B!Get(c, r, f) \/ B!Unresolved(c, r, f)
      PROVE  MediaInv'
  <2>1. CASE B!Get(c, r, f)
    BY <2>1, GetKeeps
  <2>2. CASE B!Unresolved(c, r, f)
    BY <2>2, BeginKeeps
  <2> QED
    BY <1>2, <2>1, <2>2
<1>3. ASSUME NEW c \in Calls, NEW f \in MediaFiles, B!ValidatePath(c, f)
      PROVE  MediaInv'
  BY <1>3, BeginKeeps DEF B!Requests
<1>4. ASSUME NEW c \in Calls, B!FetchFails(c) \/ \E z \in B!Sizes : B!Fetched(c, z)
      PROVE  MediaInv'
  BY <1>4, FetchKeeps
<1>5. ASSUME NEW c \in Calls, B!ExtractRaw(c) \/ B!BoundForContext(c) \/ B!AgentAnswers(c) \/ B!Synthesize(c)
      PROVE  MediaInv'
  BY <1>5, CallKeeps
<1> QED
  BY <1>1, <1>2, <1>3, <1>4, <1>5, RestartKeeps DEF B!Next

\* CacheKept: an entry of `processing` is a fetch under way that who joined it will hear from,
\* and no text over the budget reaches the agent's context, for any files and calls.
THEOREM CacheIsKept == AllSpec => []CacheKept
<1>1. AllInit => (part = "media" => MediaInv)
  BY MediaInit DEF AllInit
<1>2. (part = "media" => MediaInv) /\ [AllNext]_allVars => (part = "media" => MediaInv)'
  BY PartSteps, MediaStays
<1>3. ASSUME MediaInv PROVE B!EntryBacked /\ B!ContextBounded
  <2>1. B!EntryBacked
    BY <1>3 DEF MediaInv, EntriesFetch, CallsWait, Settled, Waits, B!EntryBacked
  <2>2. B!ContextBounded
    BY <1>3 DEF MediaInv, CallsWait, Settled, B!ContextBounded
  <2> QED
    BY <2>1, <2>2
<1>4. (part = "media" => MediaInv) => CacheKept
  BY <1>3 DEF MediaInv, CacheKept
<1> QED
  BY <1>1, <1>2, <1>4, PTL DEF AllSpec
=============================================================================
