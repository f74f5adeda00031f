----------------------------- MODULE WhatsApp_proofs -----------------------------
(***************************************************************************)
(* That the WhatsApp channel keeps its promises for any number of adapters,*)
(* pairing sessions, sockets, service instances and calls.                 *)
(***************************************************************************)
EXTENDS WhatsApp, TLAPS

USE DEF entryVars

----------------------------------------------------------------------------
(* The inductive invariant.                                                *)

\* The socket an object has is its own, and was opened.
SockInv == /\ \A a \in Adapters : ad[a].sock # None =>
                owner[ad[a].sock] = a /\ net[ad[a].sock] \notin Creating
           /\ \A p \in Sessions : ps[p].sock # None =>
                owner[ps[p].sock] = p /\ net[ps[p].sock] \notin Creating

\* A session in use has a home, and is in no other map.
HomeInv == /\ service # "disposed" => current \in Services
           /\ \A p \in Sessions :
                Owned(p) # {} \/ ps[p].timer \/ ps[p].phase = "clearing" => home[p] \in Services
           /\ \A k \in Services : pairings[k] # None => home[pairings[k]] = k

\* What an adapter that never crossed starts() has: the socket it knows, or one on its way.
OneInv == \A a \in Adapters \ crossed : \A s \in Owned(a) :
            /\ net[s] \in Creating => /\ ad[a].sock = None
                                      /\ \A t \in Owned(a) : net[t] \in Creating => t = s
            /\ net[s] \notin Creating \cup {"ending"} => ad[a].sock = s

\* The maps and the configuration, while nothing overlapped.
MapInv ==
  ~overlapped =>
    /\ \A k \in Services : k # current => adapters[k] = None
    /\ service # "up" => registering = {} /\ (current \in Services => adapters[current] = None)
    /\ service = "booting" => (configured <=> registered /\ ~disabled)
    /\ registering # {} => adapters[current] # None
    /\ service = "up" /\ registering = {} =>
         /\ adapters[current] # None => registered
         /\ registered /\ ~disabled => adapters[current] # None
    /\ \A a \in Adapters : (\A k \in Services : adapters[k] # a) => a \in stopped

IInv == /\ TypeOK /\ SockInv /\ HomeInv /\ StoppedStaysQuiet /\ NeverSilentlyDeaf
        /\ OneInv /\ MapInv /\ PairingBacked /\ PairingExpires

----------------------------------------------------------------------------
(* The handlers of an adapter.                                             *)

\* An adapter that waits for a timer, failed or must be paired again.
Excused(r) == r.timer \/ r.status = "error" \/ r.needsRepair

LEMMA AdapterTyped ==
  ASSUME NEW r \in Adapter
  PROVE  /\ r.sock \in Sockets \cup {None} /\ r.timer \in BOOLEAN /\ r.needsRepair \in BOOLEAN
         /\ r.attempts \in 0 .. MaxAttempts
         /\ \A s \in Sockets \cup {None} : /\ [r EXCEPT !.sock = s] \in Adapter
                                           /\ [r EXCEPT !.sock = s].sock = s
         /\ \A b \in BOOLEAN : [r EXCEPT !.timer = b] \in Adapter
         /\ [r EXCEPT !.status = "error"] \in Adapter
BY DEF Adapter

LEMMA NewTyped == NewAdapter \in Adapter /\ NewSession \in Session
<1>1. 0 \in 0 .. MaxAttempts /\ 0 \in 0 .. MaxRestarts
  BY WhatsAppAssumption
<1> QED
  BY <1>1 DEF NewAdapter, NewSession, Adapter, Session

\* scheduleReconnect.
LEMMA ScheduledDoes ==
  ASSUME NEW r \in Adapter
  PROVE  Scheduled(r) \in Adapter /\ Scheduled(r).sock = r.sock /\ Excused(Scheduled(r))
<1>1. CASE r.needsRepair \/ r.timer
  <2>1. Scheduled(r) = r
    BY <1>1 DEF Scheduled
  <2> QED
    BY <1>1, <2>1 DEF Excused
<1>2. CASE ~(r.needsRepair \/ r.timer) /\ r.attempts >= MaxAttempts
  <2>1. Scheduled(r) = [r EXCEPT !.status = "error"]
    BY <1>2 DEF Scheduled
  <2> QED
    BY <2>1 DEF Adapter, Excused
<1>3. CASE ~(r.needsRepair \/ r.timer) /\ ~(r.attempts >= MaxAttempts)
  <2>1. Scheduled(r) = [r EXCEPT !.timer = TRUE, !.attempts = @ + 1]
    BY <1>3 DEF Scheduled
  <2>2. r.attempts + 1 \in 0 .. MaxAttempts
    BY <1>3, WhatsAppAssumption DEF Adapter
  <2> QED
    BY <2>1, <2>2 DEF Adapter, Excused
<1> QED
  BY <1>1, <1>2, <1>3

LEMMA RepairDoes ==
  ASSUME NEW r \in Adapter
  PROVE  Repair(r) \in Adapter /\ Repair(r).sock = r.sock /\ Excused(Repair(r))
BY DEF Repair, Adapter, Excused

LEMMA DisconnectedDoes ==
  ASSUME NEW r \in Adapter, NEW reason
  PROVE  /\ Disconnected(r, reason) \in Adapter /\ Disconnected(r, reason).sock = None
         /\ Excused(Disconnected(r, reason))
<1>1. /\ [r EXCEPT !.sock = None] \in Adapter /\ [r EXCEPT !.sock = None].sock = None
      /\ [r EXCEPT !.sock = None, !.status = "disconnected"] \in Adapter
      /\ [r EXCEPT !.sock = None, !.status = "disconnected"].sock = None
  BY DEF Adapter
<1> QED
  BY <1>1, ScheduledDoes, RepairDoes DEF Disconnected

LEMMA ConnectedDoes ==
  ASSUME NEW r \in Adapter
  PROVE  Connected(r) \in Adapter /\ Connected(r).sock = r.sock
<1>1. 0 \in 0 .. MaxAttempts
  BY WhatsAppAssumption
<1> QED
  BY <1>1 DEF Connected, Adapter

LEMMA StoppedDoes ==
  ASSUME NEW r \in Adapter
  PROVE  Stopped(r) \in Adapter /\ Stopped(r).sock = None /\ Stopped(r).timer = FALSE
BY DEF Stopped, Adapter

----------------------------------------------------------------------------
(* The sockets.                                                            *)

NetOK == /\ net \in [Sockets -> Net]
         /\ owner \in [Sockets -> Objects \cup {None}]
         /\ loaded \in [Sockets -> Creds]
         /\ \A s \in Sockets : net[s] = "free" <=> owner[s] = None

\* Sockets are ended.
LEMMA EndedDoes ==
  ASSUME NetOK, NEW S, net' = Ended(S), owner' = owner, loaded' = loaded
  PROVE  /\ NetOK'
         /\ \A s \in Sockets : net'[s] = IF s \in S /\ net[s] # "free" THEN "ending" ELSE net[s]
         /\ \A o : Owned(o)' = Owned(o)
<1>1. \A s \in Sockets : net'[s] = IF s \in S /\ net[s] # "free" THEN "ending" ELSE net[s]
  BY DEF Ended
<1>2. net' \in [Sockets -> Net]
  BY DEF Ended, NetOK, Net
<1> QED
  BY <1>1, <1>2 DEF NetOK, Owned

\* A socket is made for o, and others are ended.
LEMMA CreateDoes ==
  ASSUME NetOK, NEW o \in Objects, NEW s \in Sockets, NEW S, Create(s, o, S)
  PROVE  /\ NetOK'
         /\ net[s] = "free" /\ net'[s] = "opening" /\ owner'[s] = o
         /\ \A t \in Sockets \ {s} :
              net'[t] = IF t \in S /\ net[t] # "free" THEN "ending" ELSE net[t]
         /\ \A t \in Sockets \ {s} : owner'[t] = owner[t]
         /\ \A q : q # o /\ q # None => Owned(q)' = Owned(q)
         /\ Owned(o)' = Owned(o) \cup {s}
<1>1. /\ net[s] = "free" /\ net'[s] = "opening" /\ owner'[s] = o /\ owner[s] = None
      /\ \A t \in Sockets \ {s} :
           net'[t] = IF t \in S /\ net[t] # "free" THEN "ending" ELSE net[t]
      /\ \A t \in Sockets \ {s} : owner'[t] = owner[t]
  BY DEF Create, Ended, NetOK
<1>2. net' \in [Sockets -> Net] /\ owner' \in [Sockets -> Objects \cup {None}] /\ loaded' = loaded
  BY DEF Create, Ended, NetOK, Net
<1>3. o # None
  BY WhatsAppAssumption
<1>4. NetOK'
  BY <1>1, <1>2, <1>3 DEF NetOK
<1> QED
  BY <1>1, <1>4 DEF Owned

\* A socket is gone.
LEMMA LeaveDoes ==
  ASSUME NetOK, NEW s \in Sockets, net[s] # "free", Leave(s)
  PROVE  /\ NetOK'
         /\ net'[s] = "free" /\ owner'[s] = None
         /\ \A t \in Sockets \ {s} : net'[t] = net[t] /\ owner'[t] = owner[t]
         /\ \A q : q # None => Owned(q)' = Owned(q) \ {s}
<1>1. /\ net'[s] = "free" /\ owner'[s] = None
      /\ \A t \in Sockets \ {s} : net'[t] = net[t] /\ owner'[t] = owner[t]
  BY DEF Leave, NetOK
<1>2. /\ net' \in [Sockets -> Net] /\ owner' \in [Sockets -> Objects \cup {None}]
      /\ loaded' \in [Sockets -> Creds]
  BY DEF Leave, NetOK, Net, Creds
<1> QED
  BY <1>1, <1>2 DEF NetOK, Owned

\* start() of an adapter.
LEMMA StartDoes ==
  ASSUME NetOK, ad \in [Adapters -> Adapter], crossed \subseteq Adapters,
         NEW a \in Adapters, NEW r \in Adapter, NEW S, Start(a, r, S)
  PROVE  /\ NetOK' /\ ad' \in [Adapters -> Adapter] /\ crossed' \subseteq Adapters
         /\ \A b \in Adapters : b # a => ad'[b] = ad[b] /\ (b \in crossed' <=> b \in crossed)
         /\ ad'[a].sock = None /\ ad'[a].timer = r.timer
         /\ \A t \in Sockets : net[t] # "free" =>
              /\ owner'[t] = owner[t]
              /\ net'[t] = IF t \in S \cup {r.sock} THEN "ending" ELSE net[t]
         /\ \A t \in Sockets : net[t] = "free" /\ net'[t] # "free" =>
              net'[t] = "opening" /\ owner'[t] = a
         /\ \A t, u \in Sockets :
              net[t] = "free" /\ net'[t] # "free" /\ net[u] = "free" /\ net'[u] # "free" => t = u
         /\ \A q : q # a /\ q # None => Owned(q)' = Owned(q)
         /\ Owned(a) \subseteq Owned(a)'
         /\ creds' # "missing" => \E t \in Sockets : net[t] = "free" /\ net'[t] = "opening"
         /\ ad'[a].status = "error" \/ Owned(a)' # {}
<1> DEFINE begun == [r EXCEPT !.needsRepair = FALSE, !.sock = None]
           failed == [begun EXCEPT !.status = "error"]
           going == [begun EXCEPT !.status = "connecting"]
<1>1. /\ failed \in Adapter /\ going \in Adapter
      /\ failed.sock = None /\ going.sock = None
      /\ failed.timer = r.timer /\ going.timer = r.timer
      /\ failed.status = "error"
  BY DEF Adapter
<1>2. crossed' \subseteq Adapters /\ \A b \in Adapters : b # a => (b \in crossed' <=> b \in crossed)
  BY DEF Start
<1>3. a \in Objects /\ a # None
  BY WhatsAppAssumption DEF Objects
<1>4. \/ /\ creds' = "missing" /\ ad' = [ad EXCEPT ![a] = failed]
         /\ net' = Ended(S \cup {r.sock}) /\ owner' = owner /\ loaded' = loaded
      \/ /\ creds' # "missing" /\ ad' = [ad EXCEPT ![a] = going]
         /\ \E s \in Sockets : Create(s, a, S \cup {r.sock})
  BY DEF Start
<1> HIDE DEF failed, going
<1>5. CASE /\ creds' = "missing" /\ ad' = [ad EXCEPT ![a] = failed]
           /\ net' = Ended(S \cup {r.sock}) /\ owner' = owner /\ loaded' = loaded
  <2>1. /\ ad' \in [Adapters -> Adapter] /\ ad'[a] = failed
        /\ \A b \in Adapters : b # a => ad'[b] = ad[b]
    BY <1>1, <1>5
  <2>2. /\ NetOK'
        /\ \A s \in Sockets : net'[s] = IF s \in S \cup {r.sock} /\ net[s] # "free"
                                         THEN "ending" ELSE net[s]
        /\ \A o : Owned(o)' = Owned(o)
    BY <1>5, EndedDoes
  <2> QED
    BY <1>1, <1>2, <1>5, <2>1, <2>2
<1>6. CASE /\ creds' # "missing" /\ ad' = [ad EXCEPT ![a] = going]
           /\ \E s \in Sockets : Create(s, a, S \cup {r.sock})
  <2>1. /\ ad' \in [Adapters -> Adapter] /\ ad'[a] = going
        /\ \A b \in Adapters : b # a => ad'[b] = ad[b]
    BY <1>1, <1>6
  <2>2. PICK s \in Sockets : Create(s, a, S \cup {r.sock})
    BY <1>6
  <2>3. /\ NetOK'
        /\ net[s] = "free" /\ net'[s] = "opening" /\ owner'[s] = a
        /\ \A t \in Sockets \ {s} :
             net'[t] = IF t \in S \cup {r.sock} /\ net[t] # "free" THEN "ending" ELSE net[t]
        /\ \A t \in Sockets \ {s} : owner'[t] = owner[t]
        /\ \A q : q # a /\ q # None => Owned(q)' = Owned(q)
        /\ Owned(a)' = Owned(a) \cup {s}
    BY <1>3, <2>2, CreateDoes
  <2> QED
    BY <1>1, <1>2, <2>1, <2>3
<1> QED
  BY <1>4, <1>5, <1>6

----------------------------------------------------------------------------
(* Types.  What a step does to sockets that were opened, and to sockets on *)
(* their way, is all that SockInv and `registering` depend on.             *)

TInv == TypeOK /\ SockInv /\ HomeInv

SteadyOpen == \A s \in Sockets : net[s] \notin Creating \cup {"free"} =>
                                   owner'[s] = owner[s] /\ net'[s] \notin Creating \cup {"free"}
SteadyStarts == \A s \in Sockets : net[s] \in Creating => net'[s] \in Creating

\* None of the sockets in S is on its way.
EndsOpen(S) == \A s \in Sockets : s \in S => net[s] \notin Creating

LEMMA SessionTyped ==
  ASSUME NEW r \in Session
  PROVE  /\ r.sock \in Sockets \cup {None} /\ r.timer \in BOOLEAN
         /\ /\ [r EXCEPT !.timer = FALSE] \in Session
            /\ [r EXCEPT !.timer = FALSE].sock = r.sock
            /\ [r EXCEPT !.timer = FALSE].phase = r.phase
            /\ [r EXCEPT !.timer = FALSE].timer = FALSE
         /\ \A f \in {"connected", "qr", "saved", "expired", "error", "clearing"} :
              /\ [r EXCEPT !.phase = f] \in Session
              /\ [r EXCEPT !.phase = f].sock = r.sock
              /\ [r EXCEPT !.phase = f].timer = r.timer
              /\ [r EXCEPT !.phase = f].phase = f
BY DEF Session

LEMMA SessionSocket ==
  ASSUME NEW r \in Session, NEW s \in Sockets \cup {None}
  PROVE  /\ [r EXCEPT !.sock = s] \in Session
         /\ [r EXCEPT !.sock = s].sock = s
         /\ [r EXCEPT !.sock = s].phase = r.phase
         /\ [r EXCEPT !.sock = s].timer = r.timer
BY DEF Session

\* A handler is told something.
LEMMA TellDoes ==
  ASSUME TypeOK, NEW o \in Objects, NEW r, NEW q, Tell(o, r, q),
         o \in Adapters => r \in Adapter, o \in Sessions => q \in Session
  PROVE  /\ ad' \in [Adapters -> Adapter] /\ ps' \in [Sessions -> Session]
         /\ \A a \in Adapters : ad'[a] = IF a = o THEN r ELSE ad[a]
         /\ \A p \in Sessions : ps'[p] = IF p = o THEN q ELSE ps[p]
BY WhatsAppAssumption DEF TypeOK, Tell, Objects

\* stop() of an adapter, and cancel().
LEMMA HaltDoes ==
  ASSUME TypeOK, NEW a \in Adapters \cup {None}
  PROVE  /\ HaltedAd(a) \in [Adapters -> Adapter]
         /\ \A b \in Adapters : HaltedAd(a)[b] = IF b = a THEN Stopped(ad[b]) ELSE ad[b]
         /\ \A b \in Adapters : HaltedAd(a)[b].sock \in {ad[b].sock, None}
         /\ Halted(a) => loose' \subseteq stopped' /\ stopped' \subseteq Adapters
<1>1. None \notin Adapters
  BY WhatsAppAssumption DEF Objects
<1>2. \A b \in Adapters : ad[b] \in Adapter /\ Stopped(ad[b]) \in Adapter /\ Stopped(ad[b]).sock = None
  BY StoppedDoes DEF TypeOK
<1>3. /\ HaltedAd(a) \in [Adapters -> Adapter]
      /\ \A b \in Adapters : HaltedAd(a)[b] = IF b = a THEN Stopped(ad[b]) ELSE ad[b]
  BY <1>1, <1>2 DEF HaltedAd, TypeOK
<1>4. Halted(a) => loose' \subseteq stopped' /\ stopped' \subseteq Adapters
  BY <1>1 DEF Halted, TypeOK
<1> QED
  BY <1>2, <1>3, <1>4

LEMMA CancelDoes ==
  ASSUME TypeOK, NEW k \in Services
  PROVE  /\ Cancelled(k) \in [Sessions -> Session]
         /\ \A p \in Sessions : /\ Cancelled(k)[p].sock = ps[p].sock
                                /\ Cancelled(k)[p].phase = ps[p].phase
                                /\ Cancelled(k)[p].timer = (ps[p].timer /\ p # pairings[k])
<1>1. pairings[k] \in Sessions \cup {None} /\ None \notin Sessions
  BY WhatsAppAssumption DEF TypeOK, Objects
<1>2. \A p \in Sessions : /\ ps[p] \in Session /\ ps[p].timer \in BOOLEAN
                          /\ [ps[p] EXCEPT !.timer = FALSE] \in Session
                          /\ [ps[p] EXCEPT !.timer = FALSE].sock = ps[p].sock
                          /\ [ps[p] EXCEPT !.timer = FALSE].phase = ps[p].phase
                          /\ [ps[p] EXCEPT !.timer = FALSE].timer = FALSE
  BY SessionTyped DEF TypeOK
<1>3. CASE pairings[k] = None
  BY <1>1, <1>2, <1>3 DEF Cancelled, TypeOK
<1>4. CASE pairings[k] # None
  <2>1. Cancelled(k) = [ps EXCEPT ![pairings[k]] = [ps[pairings[k]] EXCEPT !.timer = FALSE]]
    BY <1>4 DEF Cancelled
  <2>2. ps \in [Sessions -> Session] /\ pairings[k] \in Sessions
    BY <1>1, <1>4 DEF TypeOK
  <2> QED
    BY <1>2, <2>1, <2>2
<1> QED
  BY <1>3, <1>4

\* The sockets that objects have are open.
LEMMA SocksOpen ==
  ASSUME TInv
  PROVE  /\ \A a \in Adapters : EndsOpen({ad[a].sock})
         /\ \A a \in Adapters \cup {None} : EndsOpen(SockOf(a))
         /\ \A p \in Sessions : EndsOpen({ps[p].sock})
         /\ \A k \in Services : EndsOpen(PairSock(k))
         /\ \A a \in Adapters : ad[a] \in Adapter
         /\ EndsOpen({None})
<1>1. /\ \A a \in Adapters : EndsOpen({ad[a].sock})
      /\ \A p \in Sessions : EndsOpen({ps[p].sock})
      /\ EndsOpen({None}) /\ EndsOpen({})
  BY WhatsAppAssumption DEF TInv, SockInv, EndsOpen, Objects
<1>2. \A k \in Services : pairings[k] \in Sessions \cup {None}
  BY DEF TInv, TypeOK
<1>3. \A a \in Adapters : ad[a] \in Adapter
  BY DEF TInv, TypeOK
<1> QED
  BY <1>1, <1>2, <1>3 DEF SockOf, PairSock

LEMMA SteadySocks ==
  ASSUME TInv, SteadyOpen,
         \A a \in Adapters : ad'[a].sock \in {ad[a].sock, None},
         \A p \in Sessions : ps'[p].sock \in {ps[p].sock, None}
  PROVE  SockInv'
<1>1. ASSUME NEW o \in Objects, NEW s \in Sockets, owner[s] = o, net[s] \notin Creating
      PROVE  owner'[s] = o /\ net'[s] \notin Creating
  <2>1. net[s] # "free"
    BY <1>1, WhatsAppAssumption DEF TInv, TypeOK
  <2> QED
    BY <1>1, <2>1 DEF SteadyOpen
<1>2. /\ \A a \in Adapters : ad[a].sock \in Sockets \cup {None} /\ a \in Objects
      /\ \A p \in Sessions : ps[p].sock \in Sockets \cup {None} /\ p \in Objects
  BY DEF TInv, TypeOK, Adapter, Session, Objects
<1>3. \A a \in Adapters : ad'[a].sock # None => owner'[ad'[a].sock] = a /\ net'[ad'[a].sock] \notin Creating
  BY <1>1, <1>2 DEF TInv, SockInv
<1>4. \A p \in Sessions : ps'[p].sock # None => owner'[ps'[p].sock] = p /\ net'[ps'[p].sock] \notin Creating
  BY <1>1, <1>2 DEF TInv, SockInv
<1> QED
  BY <1>3, <1>4 DEF SockInv

\* Ended sockets, a new one, start().
LEMMA EndedSteady ==
  ASSUME TypeOK, NEW S, EndsOpen(S), net' = Ended(S), UNCHANGED <<owner, loaded>>
  PROVE  NetOK' /\ SteadyOpen /\ SteadyStarts /\ \A o : Owned(o)' = Owned(o)
<1>1. NetOK
  BY DEF TypeOK, NetOK
<1> QED
  BY <1>1, EndedDoes DEF SteadyOpen, SteadyStarts, EndsOpen, Creating

LEMMA CreateSteady ==
  ASSUME TypeOK, NEW o \in Objects, NEW s \in Sockets, NEW S, EndsOpen(S), Create(s, o, S)
  PROVE  /\ NetOK' /\ SteadyOpen /\ SteadyStarts
         /\ \A q : q # o /\ q # None => Owned(q)' = Owned(q)
         /\ Owned(o)' = Owned(o) \cup {s}
<1>1. NetOK
  BY DEF TypeOK, NetOK
<1>2. /\ NetOK'
      /\ net[s] = "free" /\ net'[s] = "opening" /\ owner'[s] = o
      /\ \A t \in Sockets \ {s} :
           net'[t] = IF t \in S /\ net[t] # "free" THEN "ending" ELSE net[t]
      /\ \A t \in Sockets \ {s} : owner'[t] = owner[t]
      /\ \A q : q # o /\ q # None => Owned(q)' = Owned(q)
      /\ Owned(o)' = Owned(o) \cup {s}
  BY <1>1, CreateDoes
<1> QED
  BY <1>2 DEF SteadyOpen, SteadyStarts, EndsOpen, Creating

LEMMA StartSteady ==
  ASSUME TypeOK, NEW a \in Adapters, NEW r \in Adapter, NEW S, Start(a, r, S),
         EndsOpen(S), EndsOpen({r.sock})
  PROVE  /\ NetOK' /\ SteadyOpen /\ SteadyStarts
         /\ ad' \in [Adapters -> Adapter] /\ crossed' \subseteq Adapters
         /\ \A b \in Adapters : ad'[b].sock \in {ad[b].sock, None}
         /\ \A q : q # a /\ q # None => Owned(q)' = Owned(q)
<1>1. NetOK /\ ad \in [Adapters -> Adapter] /\ crossed \subseteq Adapters
  BY DEF TypeOK, NetOK
<1>2. /\ NetOK' /\ ad' \in [Adapters -> Adapter] /\ crossed' \subseteq Adapters
      /\ \A b \in Adapters : b # a => ad'[b] = ad[b]
      /\ ad'[a].sock = None
      /\ \A t \in Sockets : net[t] # "free" =>
           /\ owner'[t] = owner[t]
           /\ net'[t] = IF t \in S \cup {r.sock} THEN "ending" ELSE net[t]
      /\ \A q : q # a /\ q # None => Owned(q)' = Owned(q)
  BY <1>1, StartDoes
<1>3. SteadyOpen /\ SteadyStarts
  BY <1>2 DEF SteadyOpen, SteadyStarts, EndsOpen, Creating
<1> QED
  BY <1>2, <1>3

LEMMA SteadyHome ==
  ASSUME TInv, home' = home, service' # "disposed" => current' \in Services,
         \A k \in Services : pairings'[k] \in {pairings[k], None},
         \A p \in Sessions : /\ Owned(p)' # {} => Owned(p) # {}
                             /\ ps'[p].timer => ps[p].timer
                             /\ ps'[p].phase = "clearing" => ps[p].phase = "clearing"
  PROVE  HomeInv'
BY DEF TInv, HomeInv

\* Whose handlers a socket calls.
LEMMA OwnerTyped ==
  ASSUME TInv, NEW s \in Sockets, net[s] # "free"
  PROVE  /\ owner[s] \in Objects /\ owner[s] # None /\ NetOK
         /\ owner[s] \in Adapters => ad[owner[s]] \in Adapter /\ owner[s] \notin Sessions
         /\ owner[s] \in Sessions => /\ ps[owner[s]] \in Session /\ owner[s] \notin Adapters
                                     /\ home[owner[s]] \in Services
<1>1. /\ owner[s] \in Objects /\ owner[s] # None /\ NetOK
      /\ owner[s] \in Adapters => ad[owner[s]] \in Adapter /\ owner[s] \notin Sessions
      /\ owner[s] \in Sessions => ps[owner[s]] \in Session /\ owner[s] \notin Adapters
  BY WhatsAppAssumption DEF TInv, TypeOK, Objects, NetOK
<1>2. owner[s] \in Sessions => home[owner[s]] \in Services
  BY DEF TInv, HomeInv, Owned
<1> QED
  BY <1>1, <1>2

\* A bus method finds the instance there is.
LEMMA CallTyped ==
  ASSUME TInv, Call
  PROVE  /\ current \in Services /\ calls' \in 0 .. MaxCalls /\ service # "disposed"
         /\ adapters[current] \in Adapters \cup {None}
         /\ pairings[current] \in Sessions \cup {None}
<1>1. calls' \in 0 .. MaxCalls
  BY WhatsAppAssumption DEF TInv, TypeOK, Call
<1> QED
  BY <1>1 DEF TInv, HomeInv, TypeOK, Call

LEMMA ReadCredsTyped ==
  ASSUME TInv, NEW s \in Sockets, ReadCreds(s)
  PROVE  TInv'
<1>1. /\ net' = [net EXCEPT ![s] = "fetching"] /\ loaded' = [loaded EXCEPT ![s] = creds]
      /\ net[s] = "opening" /\ owner' = owner
      /\ UNCHANGED <<serviceVars, diskVars, ad, pairVars, calls, historyVars>>
  BY DEF ReadCreds
<1>2. TypeOK'
  <2>1. /\ net' \in [Sockets -> Net] /\ loaded' \in [Sockets -> Creds]
        /\ \A t \in Sockets : net'[t] = "free" <=> owner'[t] = None
        /\ \A t \in Sockets : net[t] \in Creating => net'[t] \in Creating
    BY <1>1 DEF TInv, TypeOK, Net, Creating
  <2> QED
    BY <1>1, <2>1 DEF TInv, TypeOK, serviceVars, diskVars, pairVars, historyVars
<1>3. SteadyOpen
  BY <1>1 DEF SteadyOpen, Creating, TInv, TypeOK
<1>4. SockInv'
  BY <1>1, <1>3, SteadySocks DEF pairVars
<1>5. HomeInv'
  BY <1>1 DEF TInv, HomeInv, Owned, serviceVars, pairVars
<1> QED
  BY <1>2, <1>4, <1>5 DEF TInv

\* What the handlers that a socket calls leave of the adapters and the sessions.
LEMMA OpenedDoes ==
  ASSUME TInv, NEW s \in Sockets, Opened(s)
  PROVE  /\ ad' \in [Adapters -> Adapter] /\ ps' \in [Sessions -> Session]
         /\ \A a \in Adapters : IF a = owner[s] THEN /\ ad'[a].sock = s
                                                   /\ ad'[a].timer = ad[a].timer
                                              ELSE ad'[a] = ad[a]
         /\ \A p \in Sessions : /\ ps'[p].sock = IF p = owner[s] THEN s ELSE ps[p].sock
                                /\ ps'[p].phase = ps[p].phase /\ ps'[p].timer = ps[p].timer
<1> DEFINE o == owner[s]
           r == [ad[o] EXCEPT !.sock = s]
           q == [ps[o] EXCEPT !.sock = s]
<1>1. Tell(o, r, q) /\ net[s] # "free"
  BY DEF Opened
<1>2. /\ o \in Objects /\ o # None
      /\ o \in Adapters => ad[o] \in Adapter /\ o \notin Sessions
      /\ o \in Sessions => ps[o] \in Session /\ o \notin Adapters
  BY <1>1, OwnerTyped
<1>3. /\ o \in Adapters => r \in Adapter /\ r.sock = s /\ r.timer = ad[o].timer
      /\ o \in Sessions => /\ q \in Session
                           /\ q.sock = s
                           /\ q.phase = ps[o].phase
                           /\ q.timer = ps[o].timer
  <2>1. s \in Sockets \cup {None}
    OBVIOUS
  <2> HIDE DEF o
  <2>2. o \in Adapters => r \in Adapter /\ r.sock = s
    BY <1>2, <2>1, AdapterTyped
  <2>3. o \in Adapters => r.timer = ad[o].timer
    BY <1>2 DEF Adapter
  <2>4. o \in Sessions => q \in Session /\ q.sock = s /\ q.phase = ps[o].phase /\ q.timer = ps[o].timer
    BY <1>2, <2>1, SessionSocket
  <2> QED
    BY <2>2, <2>3, <2>4
<1> HIDE DEF r, q
<1> QED
  BY <1>1, <1>2, <1>3, TellDoes DEF TInv

\* What channel.register writes is an entry, and an entry that is there stays as it is.
LEMMA PersistTyped ==
  ASSUME TInv, NEW s \in Sockets, Persist(s)
  PROVE  /\ registered' \in BOOLEAN /\ disabled' \in BOOLEAN
         /\ s \in registering => registered'
         /\ s \notin registering => UNCHANGED entryVars
<1>1. registered \in BOOLEAN /\ disabled \in BOOLEAN
  BY DEF TInv, TypeOK
<1>2. CASE s \in registering
  BY <1>1, <1>2 DEF Persist, AddEntry
<1>3. CASE s \notin registering
  BY <1>1, <1>3 DEF Persist, AddEntry
<1> QED
  BY <1>2, <1>3

LEMMA OpenedTyped ==
  ASSUME TInv, NEW s \in Sockets, Opened(s)
  PROVE  TInv'
<1> DEFINE o == owner[s]
<1>1. /\ net' = [net EXCEPT ![s] = "connecting"] /\ net[s] = "fetching"
      /\ UNCHANGED <<owner, loaded, current, service, configured, adapters, creds, pairings,
                     home, calls, historyVars>>
      /\ registering' = registering \ {s}
  BY DEF Opened, Persist
<1>4. /\ ad' \in [Adapters -> Adapter] /\ ps' \in [Sessions -> Session]
      /\ \A a \in Adapters : ad'[a].sock = IF a = o THEN s ELSE ad[a].sock
      /\ \A p \in Sessions : /\ ps'[p].sock = IF p = o THEN s ELSE ps[p].sock
                             /\ ps'[p].phase = ps[p].phase /\ ps'[p].timer = ps[p].timer
  BY OpenedDoes
<1>5. /\ net' \in [Sockets -> Net] /\ net'[s] = "connecting"
      /\ \A t \in Sockets : t # s => net'[t] = net[t]
  BY <1>1 DEF TInv, TypeOK, Net
<1>6. TypeOK'
  <2>1. \A t \in Sockets : net'[t] = "free" <=> owner'[t] = None
    BY <1>1, <1>5 DEF TInv, TypeOK
  <2>2. registering' \subseteq {t \in Sockets : net'[t] \in Creating}
    BY <1>1, <1>5 DEF TInv, TypeOK
  <2>3. registered' \in BOOLEAN /\ disabled' \in BOOLEAN
    BY PersistTyped DEF Opened
  <2> QED
    BY <1>1, <1>4, <1>5, <2>1, <2>2, <2>3 DEF TInv, TypeOK, historyVars
<1>7. SockInv'
  <2>1. owner' = owner /\ owner[s] = o
    BY <1>1 DEF o
  <2>2. net'[s] \notin Creating
    BY <1>5 DEF Creating
  <2>3. \A t \in Sockets : net[t] \notin Creating => net'[t] \notin Creating
    BY <1>5, <2>2
  <2>4. /\ \A a \in Adapters : ad[a].sock \in Sockets \cup {None}
        /\ \A p \in Sessions : ps[p].sock \in Sockets \cup {None}
    BY DEF TInv, TypeOK, Adapter, Session
  <2> QED
    BY <1>4, <2>1, <2>2, <2>3, <2>4 DEF TInv, SockInv
<1>8. HomeInv'
  BY <1>1, <1>4, SteadyHome DEF Owned, TInv, HomeInv
<1> QED
  BY <1>6, <1>7, <1>8 DEF TInv

LEMMA OpenFailsDoes ==
  ASSUME TInv, NEW s \in Sockets, OpenFails(s)
  PROVE  /\ ad' \in [Adapters -> Adapter] /\ ps' \in [Sessions -> Session]
         /\ \A a \in Adapters : IF a = owner[s] THEN ad'[a].sock = ad[a].sock /\ Excused(ad'[a])
                                              ELSE ad'[a] = ad[a]
         /\ \A p \in Sessions : /\ ps'[p].sock = ps[p].sock /\ ps'[p].timer = ps[p].timer
                                /\ ps'[p].phase = IF p = owner[s] THEN "error" ELSE ps[p].phase
<1> DEFINE o == owner[s]
           r == Scheduled([ad[o] EXCEPT !.status = "error"])
           q == [ps[o] EXCEPT !.phase = "error"]
<1>1. Tell(o, r, q) /\ net[s] # "free"
  BY DEF OpenFails, Creating
<1>2. /\ o \in Objects /\ o # None
      /\ o \in Adapters => ad[o] \in Adapter /\ o \notin Sessions
      /\ o \in Sessions => ps[o] \in Session /\ o \notin Adapters
  BY <1>1, OwnerTyped
<1>3. /\ o \in Adapters => r \in Adapter /\ r.sock = ad[o].sock /\ Excused(r)
      /\ o \in Sessions => /\ q \in Session
                           /\ q.sock = ps[o].sock
                           /\ q.phase = "error"
                           /\ q.timer = ps[o].timer
  <2>1. o \in Adapters => /\ [ad[o] EXCEPT !.status = "error"] \in Adapter
                          /\ [ad[o] EXCEPT !.status = "error"].sock = ad[o].sock
    BY <1>2 DEF Adapter
  <2> QED
    BY <1>2, <2>1, ScheduledDoes, SessionTyped
<1> HIDE DEF r, q
<1> QED
  BY <1>1, <1>2, <1>3, TellDoes DEF TInv

LEMMA OpenFailsTyped ==
  ASSUME TInv, NEW s \in Sockets, OpenFails(s)
  PROVE  TInv'
<1>1. /\ net[s] \in Creating /\ net[s] # "free" /\ Leave(s)
      /\ UNCHANGED <<current, service, configured, adapters, creds, pairings, home, calls,
                     historyVars>>
      /\ registering' = registering \ {s}
  BY DEF OpenFails, Persist, Creating
<1>2. NetOK
  BY <1>1, OwnerTyped
<1>4. /\ NetOK' /\ net'[s] = "free" /\ owner'[s] = None
      /\ \A t \in Sockets \ {s} : net'[t] = net[t] /\ owner'[t] = owner[t]
      /\ \A q : q # None => Owned(q)' = Owned(q) \ {s}
  BY <1>1, <1>2, LeaveDoes
<1>5. /\ ad' \in [Adapters -> Adapter] /\ ps' \in [Sessions -> Session]
      /\ \A a \in Adapters : ad'[a].sock = ad[a].sock
      /\ \A p \in Sessions : /\ ps'[p].sock = ps[p].sock /\ ps'[p].timer = ps[p].timer
                             /\ ps'[p].phase \in {ps[p].phase, "error"}
  BY OpenFailsDoes
<1>6. TypeOK'
  <2>1. registering' \subseteq {t \in Sockets : net'[t] \in Creating}
    BY <1>1, <1>4 DEF TInv, TypeOK
  <2>2. registered' \in BOOLEAN /\ disabled' \in BOOLEAN
    BY PersistTyped DEF OpenFails
  <2> QED
    BY <1>1, <1>4, <1>5, <2>1, <2>2 DEF TInv, TypeOK, NetOK, historyVars
<1>7. SteadyOpen
  BY <1>1, <1>4 DEF SteadyOpen
<1>8. SockInv'
  BY <1>5, <1>7, SteadySocks
<1>9. HomeInv'
  <2>1. \A p \in Sessions : p # None
    BY WhatsAppAssumption DEF Objects
  <2> QED
    BY <1>1, <1>4, <1>5, <2>1, SteadyHome DEF TInv, HomeInv
<1> QED
  BY <1>6, <1>8, <1>9 DEF TInv

LEMMA AcceptDoes ==
  ASSUME TInv, NEW s \in Sockets, Accept(s)
  PROVE  /\ ad' \in [Adapters -> Adapter] /\ ps' \in [Sessions -> Session]
         /\ \A a \in Adapters : IF a = owner[s] THEN ad'[a].sock = ad[a].sock ELSE ad'[a] = ad[a]
         /\ \A p \in Sessions : /\ ps'[p].sock = ps[p].sock /\ ps'[p].timer = ps[p].timer
                                /\ ps'[p].phase = IF p = owner[s] THEN "connected" ELSE ps[p].phase
<1> DEFINE o == owner[s]
           r == Connected(ad[o])
           q == [ps[o] EXCEPT !.phase = "connected"]
<1>1. Tell(o, r, q) /\ net[s] # "free"
  BY DEF Accept
<1>2. /\ o \in Objects /\ o # None
      /\ o \in Adapters => ad[o] \in Adapter /\ o \notin Sessions
      /\ o \in Sessions => ps[o] \in Session /\ o \notin Adapters
  BY <1>1, OwnerTyped
<1>3. /\ o \in Adapters => r \in Adapter /\ r.sock = ad[o].sock
      /\ o \in Sessions => /\ q \in Session
                           /\ q.sock = ps[o].sock
                           /\ q.phase = "connected"
                           /\ q.timer = ps[o].timer
  BY <1>2, ConnectedDoes, SessionTyped
<1> HIDE DEF r, q
<1> QED
  BY <1>1, <1>2, <1>3, TellDoes DEF TInv

LEMMA AcceptTyped ==
  ASSUME TInv, NEW s \in Sockets, Accept(s)
  PROVE  TInv'
<1>1. /\ net' = [net EXCEPT ![s] = "open"] /\ net[s] = "connecting"
      /\ UNCHANGED <<owner, loaded, serviceVars, diskVars, pairings, home, calls, historyVars>>
  BY DEF Accept
<1>4. /\ ad' \in [Adapters -> Adapter] /\ ps' \in [Sessions -> Session]
      /\ \A a \in Adapters : ad'[a].sock = ad[a].sock
      /\ \A p \in Sessions : /\ ps'[p].sock = ps[p].sock /\ ps'[p].timer = ps[p].timer
                             /\ ps'[p].phase \in {ps[p].phase, "connected"}
  BY AcceptDoes
<1>5. /\ net' \in [Sockets -> Net] /\ net'[s] = "open"
      /\ \A t \in Sockets : t # s => net'[t] = net[t]
  BY <1>1 DEF TInv, TypeOK, Net
<1>6. TypeOK'
  <2>1. \A t \in Sockets : net'[t] = "free" <=> owner'[t] = None
    BY <1>1, <1>5 DEF TInv, TypeOK
  <2>2. registering' \subseteq {t \in Sockets : net'[t] \in Creating}
    BY <1>1, <1>5 DEF TInv, TypeOK, serviceVars, Creating
  <2> QED
    BY <1>1, <1>4, <1>5, <2>1, <2>2 DEF TInv, TypeOK, serviceVars, diskVars, historyVars
<1>7. SteadyOpen
  BY <1>1, <1>5 DEF SteadyOpen, Creating
<1>8. SockInv'
  BY <1>4, <1>7, SteadySocks
<1>9. HomeInv'
  BY <1>1, <1>4, SteadyHome DEF Owned, TInv, HomeInv, serviceVars
<1> QED
  BY <1>6, <1>8, <1>9 DEF TInv

LEMMA ShownSession ==
  ASSUME NEW p \in Session
  PROVE  LET q == [p EXCEPT !.phase = IF @ = "connecting" THEN "qr" ELSE @] IN
         q \in Session /\ q.sock = p.sock /\ q.timer = p.timer /\ q.phase \in {p.phase, "qr"}
BY DEF Session

LEMMA TakenSocket ==
  ASSUME NEW p \in Adapter
  PROVE  LET r == Repair([p EXCEPT !.sock = None]) IN
         r \in Adapter /\ r.sock = None /\ Excused(r)
<1>1. [p EXCEPT !.sock = None] \in Adapter /\ [p EXCEPT !.sock = None].sock = None
  BY DEF Adapter
<1> QED
  BY <1>1, RepairDoes

LEMMA QRDoes ==
  ASSUME TInv, NEW s \in Sockets, QR(s)
  PROVE  /\ ad' \in [Adapters -> Adapter] /\ ps' \in [Sessions -> Session]
         /\ \A a \in Adapters : IF a = owner[s] THEN ad'[a].sock = None /\ Excused(ad'[a])
                                              ELSE ad'[a] = ad[a]
         /\ \A p \in Sessions : /\ ps'[p].sock = ps[p].sock /\ ps'[p].timer = ps[p].timer
                                /\ \/ ps'[p].phase = ps[p].phase
                                   \/ ps[p].phase = "connecting" /\ ps'[p].phase = "qr"
         /\ NetOK' /\ SteadyOpen /\ SteadyStarts /\ \A p : Owned(p)' = Owned(p)
         /\ net[s] = "connecting"
         /\ \A t \in Sockets : net'[t] = IF /\ owner[s] \in Adapters /\ t = ad[owner[s]].sock
                                             /\ net[t] # "free"
                                          THEN "ending" ELSE net[t]
<1> DEFINE o == owner[s]
           r == Repair([ad[o] EXCEPT !.sock = None])
           q == [ps[o] EXCEPT !.phase = IF @ = "connecting" THEN "qr" ELSE @]
<1>1. /\ net[s] = "connecting" /\ net[s] # "free" /\ UNCHANGED <<owner, loaded>>
      /\ Tell(o, r, q)
      /\ net' = IF o \in Adapters THEN Ended({ad[o].sock}) ELSE net
  BY DEF QR, Unlinked
<1>2. /\ o \in Objects /\ o # None
      /\ o \in Adapters => ad[o] \in Adapter /\ o \notin Sessions
      /\ o \in Sessions => ps[o] \in Session /\ o \notin Adapters
  BY <1>1, OwnerTyped
<1>3. /\ o \in Adapters => r \in Adapter /\ r.sock = None /\ Excused(r)
      /\ o \in Sessions => /\ q \in Session /\ q.sock = ps[o].sock /\ q.timer = ps[o].timer
                           /\ \/ q.phase = ps[o].phase
                              \/ ps[o].phase = "connecting" /\ q.phase = "qr"
  <2> HIDE DEF o
  <2>1. o \in Adapters => r \in Adapter /\ r.sock = None /\ Excused(r)
    BY <1>2, TakenSocket
  <2>2. o \in Sessions => /\ q \in Session /\ q.sock = ps[o].sock /\ q.timer = ps[o].timer
                          /\ \/ q.phase = ps[o].phase
                             \/ ps[o].phase = "connecting" /\ q.phase = "qr"
    BY <1>2, ShownSession
  <2> QED
    BY <2>1, <2>2
<1> HIDE DEF o, r, q
<1>4. /\ ad' \in [Adapters -> Adapter] /\ ps' \in [Sessions -> Session]
      /\ \A a \in Adapters : IF a = o THEN ad'[a].sock = None /\ Excused(ad'[a])
                                       ELSE ad'[a] = ad[a]
      /\ \A p \in Sessions : /\ ps'[p].sock = ps[p].sock /\ ps'[p].timer = ps[p].timer
                             /\ \/ ps'[p].phase = ps[p].phase
                                \/ ps[p].phase = "connecting" /\ ps'[p].phase = "qr"
  BY <1>1, <1>2, <1>3, TellDoes DEF TInv
<1>5. /\ NetOK' /\ SteadyOpen /\ SteadyStarts /\ \A p : Owned(p)' = Owned(p)
      /\ \A t \in Sockets : net'[t] = IF o \in Adapters /\ t = ad[o].sock /\ net[t] # "free"
                                       THEN "ending" ELSE net[t]
  <2>1. CASE o \notin Adapters
    BY <1>1, <2>1 DEF TInv, TypeOK, NetOK, SteadyOpen, SteadyStarts, Creating, Owned
  <2>2. CASE o \in Adapters
    <3>1. net' = Ended({ad[o].sock}) /\ EndsOpen({ad[o].sock})
      BY <1>1, <2>2, SocksOpen
    <3>2. NetOK' /\ SteadyOpen /\ SteadyStarts /\ \A p : Owned(p)' = Owned(p)
      BY <1>1, <3>1, EndedSteady DEF TInv
    <3> QED
      BY <2>2, <3>1, <3>2 DEF Ended
  <2> QED
    BY <2>1, <2>2
<1> QED
  BY <1>1, <1>4, <1>5 DEF o

LEMMA QRTyped ==
  ASSUME TInv, NEW s \in Sockets, QR(s)
  PROVE  TInv'
<1>1. UNCHANGED <<serviceVars, diskVars, pairings, home, owner, loaded, calls,
                  stopped, loose, overlapped>>
  BY DEF QR
<1>5. /\ ad' \in [Adapters -> Adapter] /\ ps' \in [Sessions -> Session]
      /\ \A a \in Adapters : ad'[a].sock \in {ad[a].sock, None}
      /\ \A p \in Sessions : /\ ps'[p].sock = ps[p].sock /\ ps'[p].timer = ps[p].timer
                             /\ ps'[p].phase \in {ps[p].phase, "qr"}
  BY QRDoes
<1>6. NetOK' /\ SteadyOpen /\ SteadyStarts /\ \A p : Owned(p)' = Owned(p)
  BY QRDoes
<1>7. TypeOK'
  <2>1. crossed' \subseteq Adapters
    BY DEF QR, TInv, TypeOK
  <2>2. registering' \subseteq {t \in Sockets : net'[t] \in Creating}
    BY <1>1, <1>6 DEF TInv, TypeOK, SteadyStarts, serviceVars
  <2> QED
    BY <1>1, <1>5, <1>6, <2>1, <2>2 DEF TInv, TypeOK, NetOK, serviceVars, diskVars
<1>8. SockInv'
  BY <1>5, <1>6, SteadySocks
<1>9. HomeInv'
  BY <1>1, <1>5, <1>6, SteadyHome DEF TInv, HomeInv, serviceVars
<1> QED
  BY <1>7, <1>8, <1>9 DEF TInv

\* Steps that only write credentials.
LEMMA SaveTyped ==
  ASSUME TInv, creds' \in Creds,
         UNCHANGED <<serviceVars, entryVars, ad, pairVars, socketVars, calls, historyVars>>
  PROVE  TInv'
<1>1. TypeOK'
  BY DEF TInv, TypeOK, serviceVars, pairVars, socketVars, historyVars
<1>2. SockInv' /\ HomeInv'
  BY DEF TInv, SockInv, HomeInv, Owned, serviceVars, pairVars, socketVars
<1> QED
  BY <1>1, <1>2 DEF TInv

LEMMA ScanTyped ==
  ASSUME TInv, NEW s \in Sockets, Scan(s)
  PROVE  TInv'
<1>1. /\ net' = [net EXCEPT ![s] = "scanned"] /\ net[s] = "connecting" /\ creds' = "paired"
      /\ UNCHANGED <<serviceVars, entryVars, ad, pairVars, owner, loaded, calls, historyVars>>
  BY DEF Scan, Unlinked
<1>2. /\ net' \in [Sockets -> Net] /\ net'[s] = "scanned"
      /\ \A t \in Sockets : t # s => net'[t] = net[t]
  BY <1>1 DEF TInv, TypeOK, Net
<1>3. TypeOK'
  <2>1. \A t \in Sockets : net'[t] = "free" <=> owner'[t] = None
    BY <1>1, <1>2 DEF TInv, TypeOK
  <2>2. registering' \subseteq {t \in Sockets : net'[t] \in Creating}
    BY <1>1, <1>2 DEF TInv, TypeOK, serviceVars, Creating
  <2> QED
    BY <1>1, <1>2, <2>1, <2>2 DEF TInv, TypeOK, Creds, serviceVars, pairVars, historyVars
<1>4. SteadyOpen
  BY <1>1, <1>2 DEF SteadyOpen, Creating
<1>5. SockInv'
  BY <1>1, <1>4, SteadySocks DEF pairVars
<1>6. HomeInv'
  BY <1>1 DEF TInv, HomeInv, Owned, serviceVars, pairVars
<1> QED
  BY <1>3, <1>5, <1>6 DEF TInv

LEMMA ReasonsOf ==
  ASSUME NEW s, NEW reason \in Reasons(s)
  PROVE  net[s] \in {"scanned", "open", "connecting", "ending"}
BY DEF Reasons

\* The owner of a socket that closes has none afterwards.
LEMMA ClosedSocks ==
  ASSUME TInv, NEW s \in Sockets, NEW o \in Objects, owner[s] = o,
         \A t \in Sockets \ {s} : net'[t] = net[t] /\ owner'[t] = owner[t],
         \A a \in Adapters : ad'[a].sock = IF a = o THEN None ELSE ad[a].sock,
         \A p \in Sessions : ps'[p].sock = IF p = o THEN None ELSE ps[p].sock
  PROVE  SockInv'
<1>1. /\ \A a \in Adapters : ad[a].sock \in Sockets \cup {None}
      /\ \A p \in Sessions : ps[p].sock \in Sockets \cup {None}
  BY DEF TInv, TypeOK, Adapter, Session
<1> QED
  BY <1>1 DEF TInv, SockInv

LEMMA AdapterClosesTyped ==
  ASSUME TInv, NEW s \in Sockets, NEW reason, AdapterCloses(s, reason)
  PROVE  TInv'
<1>1. PICK a \in Adapters : a = owner[s]
  BY DEF AdapterCloses
<1>2. /\ net[s] \in {"scanned", "open", "connecting", "ending"}
      /\ ad' = [ad EXCEPT ![a] = Disconnected(ad[a], reason)]
      /\ Leave(s) /\ Revoke(reason)
      /\ crossed' = IF ad[a].sock \notin {s, None} THEN crossed \cup {a} ELSE crossed
      /\ UNCHANGED <<serviceVars, entryVars, pairVars, calls, stopped, loose, overlapped>>
  BY <1>1, ReasonsOf DEF AdapterCloses, TInv, TypeOK
<1>3. a \in Objects /\ a # None /\ a \notin Sessions
  BY WhatsAppAssumption DEF Objects
<1>4. NetOK
  BY DEF TInv, TypeOK, NetOK
<1>5. /\ NetOK' /\ net'[s] = "free"
      /\ \A t \in Sockets \ {s} : net'[t] = net[t] /\ owner'[t] = owner[t]
      /\ \A q : q # None => Owned(q)' = Owned(q) \ {s}
  BY <1>2, <1>4, LeaveDoes
<1>6. Disconnected(ad[a], reason) \in Adapter /\ Disconnected(ad[a], reason).sock = None
  BY DisconnectedDoes DEF TInv, TypeOK
<1>7. /\ ad' \in [Adapters -> Adapter]
      /\ \A b \in Adapters : ad'[b].sock = IF b = a THEN None ELSE ad[b].sock
  BY <1>2, <1>6 DEF TInv, TypeOK
<1>8. TypeOK'
  <2>1. crossed' \subseteq Adapters /\ creds' \in Creds
    BY <1>2 DEF TInv, TypeOK, Revoke, Creds
  <2>2. registering' \subseteq {t \in Sockets : net'[t] \in Creating}
    BY <1>2, <1>5 DEF TInv, TypeOK, serviceVars, Creating
  <2> QED
    BY <1>2, <1>5, <1>7, <2>1, <2>2 DEF TInv, TypeOK, NetOK, serviceVars, pairVars
<1>9. SockInv'
  BY <1>1, <1>2, <1>3, <1>5, <1>7, ClosedSocks DEF pairVars
<1>10. HomeInv'
  <2>1. \A p \in Sessions : p # None
    BY WhatsAppAssumption DEF Objects
  <2> QED
    BY <1>2, <1>5, <2>1, SteadyHome DEF TInv, HomeInv, serviceVars, pairVars
<1> QED
  BY <1>8, <1>9, <1>10 DEF TInv

LEMMA SessionClosesTyped ==
  ASSUME TInv, NEW s \in Sockets, NEW reason, SessionCloses(s, reason)
  PROVE  TInv'
<1>1. PICK p \in Sessions : p = owner[s]
  BY DEF SessionCloses
<1> DEFINE closed == [ps[p] EXCEPT !.sock = None]
           again == [closed EXCEPT !.restarts = @ + 1]
           failed == [closed EXCEPT !.phase = "error"]
<1>2. /\ net[s] \in {"scanned", "open", "connecting", "ending"}
      /\ Revoke(reason)
      /\ UNCHANGED <<serviceVars, entryVars, ad, pairings, home, calls, historyVars>>
      /\ \/ ps' = [ps EXCEPT ![p] = closed] /\ Leave(s)
         \/ /\ ps[p].restarts < MaxRestarts
            /\ ps' = [ps EXCEPT ![p] = again]
            /\ net' = [net EXCEPT ![s] = "opening"]
            /\ loaded' = [loaded EXCEPT ![s] = "missing"]
            /\ owner' = owner
         \/ ps' = [ps EXCEPT ![p] = failed] /\ Leave(s)
  BY <1>1, ReasonsOf DEF SessionCloses
<1>3. p \in Objects /\ p # None /\ p \notin Adapters /\ ps[p] \in Session /\ NetOK
  BY WhatsAppAssumption DEF Objects, TInv, TypeOK, NetOK
<1>4. /\ closed \in Session /\ closed.sock = None /\ closed.timer = ps[p].timer
      /\ closed.phase = ps[p].phase
      /\ failed \in Session /\ failed.sock = None /\ failed.timer = ps[p].timer
      /\ failed.phase = "error"
  BY <1>3 DEF Session
<1>5. ps[p].restarts < MaxRestarts => /\ again \in Session /\ again.sock = None
                                      /\ again.timer = ps[p].timer /\ again.phase = ps[p].phase
  <2>1. ps[p].restarts < MaxRestarts => ps[p].restarts + 1 \in 0 .. MaxRestarts
    BY <1>3, WhatsAppAssumption DEF Session
  <2> QED
    BY <1>3, <2>1 DEF Session
<1>6. /\ NetOK'
      /\ \A t \in Sockets \ {s} : net'[t] = net[t] /\ owner'[t] = owner[t]
      /\ \A q : q # None => Owned(q)' \subseteq Owned(q)
  <2>1. CASE Leave(s)
    BY <1>2, <1>3, <2>1, LeaveDoes
  <2>2. CASE /\ net' = [net EXCEPT ![s] = "opening"]
             /\ loaded' = [loaded EXCEPT ![s] = "missing"]
             /\ owner' = owner
    BY <1>2, <1>3, <2>2 DEF NetOK, Owned, Net, Creds
  <2> QED
    BY <1>2, <2>1, <2>2
<1> HIDE DEF closed, again, failed
<1>7. \E r \in Session : /\ ps' = [ps EXCEPT ![p] = r] /\ r.sock = None
                         /\ r.timer = ps[p].timer /\ r.phase \in {ps[p].phase, "error"}
  BY <1>2, <1>4, <1>5
<1>8. /\ ps' \in [Sessions -> Session]
      /\ \A q \in Sessions : /\ ps'[q].sock = IF q = p THEN None ELSE ps[q].sock
                             /\ ps'[q].timer = ps[q].timer
                             /\ ps'[q].phase \in {ps[q].phase, "error"}
  BY <1>7 DEF TInv, TypeOK
<1>9. TypeOK'
  <2>1. creds' \in Creds
    BY <1>2 DEF TInv, TypeOK, Revoke, Creds
  <2>2. registering' \subseteq {t \in Sockets : net'[t] \in Creating}
    BY <1>2, <1>6 DEF TInv, TypeOK, serviceVars, Creating
  <2> QED
    BY <1>2, <1>6, <1>8, <2>1, <2>2 DEF TInv, TypeOK, NetOK, serviceVars, historyVars
<1>10. SockInv'
  BY <1>1, <1>2, <1>3, <1>6, <1>8, ClosedSocks
<1>11. HomeInv'
  <2>1. \A q \in Sessions : q # None
    BY WhatsAppAssumption DEF Objects
  <2> QED
    BY <1>2, <1>6, <1>8, <2>1, SteadyHome DEF TInv, HomeInv, serviceVars
<1> QED
  BY <1>9, <1>10, <1>11 DEF TInv

\* A step that opens no socket at once, brings no session to life and clears nothing.
LEMMA StepTyped ==
  ASSUME TInv, NetOK', SteadyOpen, SteadyStarts, creds' \in Creds,
         ad' \in [Adapters -> Adapter], \A a \in Adapters : ad'[a].sock \in {ad[a].sock, None},
         ps' \in [Sessions -> Session],
         \A p \in Sessions : /\ ps'[p].sock \in {ps[p].sock, None}
                             /\ ps'[p].timer => ps[p].timer
                             /\ ps'[p].phase = "clearing" => ps[p].phase = "clearing"
                             /\ Owned(p)' # {} => Owned(p) # {},
         pairings' \in [Services -> Sessions \cup {None}],
         \A k \in Services : pairings'[k] \in {pairings[k], None},
         home' = home, current' \in 0 .. MaxServices, service' \in {"booting", "up", "disposed"},
         service' # "disposed" => current' \in Services,
         configured' \in BOOLEAN, registered' \in BOOLEAN, disabled' \in BOOLEAN,
         adapters' \in [Services -> Adapters \cup {None}],
         \A s \in registering' : s \in registering \/ s \in {t \in Sockets : net'[t] \in Creating},
         calls' \in 0 .. MaxCalls, loose' \subseteq stopped', stopped' \subseteq Adapters,
         crossed' \subseteq Adapters, overlapped' \in BOOLEAN
  PROVE  TInv'
<1>1. SockInv'
  BY SteadySocks
<1>2. HomeInv'
  BY SteadyHome
<1>3. registering' \subseteq {s \in Sockets : net'[s] \in Creating}
  BY DEF TInv, TypeOK, SteadyStarts
<1>4. home' \in [Sessions -> Services \cup {0}]
  BY DEF TInv, TypeOK
<1>5. TypeOK'
  BY <1>3, <1>4 DEF TypeOK, NetOK
<1> QED
  BY <1>1, <1>2, <1>5 DEF TInv

\* What TypeOK says of the variables that a step leaves alone.
LEMMA Typed ==
  ASSUME TInv
  PROVE  /\ current \in 0 .. MaxServices /\ service \in {"booting", "up", "disposed"}
         /\ configured \in BOOLEAN /\ overlapped \in BOOLEAN
         /\ registered \in BOOLEAN /\ disabled \in BOOLEAN
         /\ adapters \in [Services -> Adapters \cup {None}]
         /\ pairings \in [Services -> Sessions \cup {None}]
         /\ creds \in Creds /\ ad \in [Adapters -> Adapter] /\ ps \in [Sessions -> Session]
         /\ \A a \in Adapters : ad[a] \in Adapter
         /\ \A p \in Sessions : ps[p] \in Session
         /\ calls \in 0 .. MaxCalls /\ NetOK /\ TypeOK
         /\ loose \subseteq stopped /\ stopped \subseteq Adapters /\ crossed \subseteq Adapters
         /\ service # "disposed" => current \in Services
BY DEF TInv, TypeOK, HomeInv, NetOK

LEMMA Apart ==
  /\ \A p \in Sessions : p # None /\ p \notin Adapters /\ p \in Objects
  /\ \A a \in Adapters : a # None /\ a \notin Sessions /\ a \in Objects
  /\ None \notin Sockets
BY WhatsAppAssumption DEF Objects

LEMMA ReconnectTyped ==
  ASSUME TInv, NEW a \in Adapters, Reconnect(a)
  PROVE  TInv'
<1> DEFINE r == [ad[a] EXCEPT !.timer = FALSE]
<1>1. /\ Start(a, r, {})
      /\ UNCHANGED <<serviceVars, diskVars, pairVars, calls, stopped, loose, overlapped>>
  BY DEF Reconnect
<1>2. r \in Adapter /\ r.sock = ad[a].sock
  BY Typed DEF Adapter
<1>3. EndsOpen({}) /\ EndsOpen({r.sock})
  BY <1>2, SocksOpen DEF EndsOpen
<1> HIDE DEF r
<1>4. /\ NetOK' /\ SteadyOpen /\ SteadyStarts
      /\ ad' \in [Adapters -> Adapter] /\ crossed' \subseteq Adapters
      /\ \A b \in Adapters : ad'[b].sock \in {ad[b].sock, None}
      /\ \A q : q # a /\ q # None => Owned(q)' = Owned(q)
  BY <1>1, <1>2, <1>3, StartSteady, Typed
<1> QED
  BY <1>1, <1>4, StepTyped, Typed, Apart DEF serviceVars, diskVars, pairVars

\* An adapter is made and started.
LEMMA StartChannelSteady ==
  ASSUME TInv, NEW k \in Services, NEW S, EndsOpen(S), StartChannel(k, S)
  PROVE  /\ NetOK' /\ SteadyOpen /\ SteadyStarts
         /\ ad' \in [Adapters -> Adapter] /\ crossed' \subseteq Adapters
         /\ \A b \in Adapters : ad'[b].sock \in {ad[b].sock, None}
         /\ \A p \in Sessions : Owned(p)' = Owned(p)
         /\ adapters' \in [Services -> Adapters \cup {None}]
         /\ loose' \subseteq stopped' /\ stopped' \subseteq Adapters
<1>1. PICK a \in Adapters : /\ adapters' = [adapters EXCEPT ![k] = a]
                            /\ Asked(a) /\ Start(a, NewAdapter, S)
  BY DEF StartChannel
<1>2. NewAdapter \in Adapter /\ NewAdapter.sock = None
  BY NewTyped DEF NewAdapter
<1>3. EndsOpen({NewAdapter.sock})
  BY <1>2, SocksOpen
<1>4. /\ NetOK' /\ SteadyOpen /\ SteadyStarts
      /\ ad' \in [Adapters -> Adapter] /\ crossed' \subseteq Adapters
      /\ \A b \in Adapters : ad'[b].sock \in {ad[b].sock, None}
      /\ \A q : q # a /\ q # None => Owned(q)' = Owned(q)
  BY <1>1, <1>2, <1>3, StartSteady, Typed
<1>5. adapters' \in [Services -> Adapters \cup {None}]
  BY <1>1, Typed
<1>6. loose' \subseteq stopped' /\ stopped' \subseteq Adapters
  BY <1>1, Typed DEF Asked
<1> QED
  BY <1>4, <1>5, <1>6, Apart

LEMMA RegisterTyped ==
  ASSUME TInv, Register
  PROVE  TInv'
<1>1. /\ Call /\ StartChannel(current, {})
      /\ UNCHANGED <<creds, current, service, configured, pairVars>>
      /\ registering' = registering \cup {s \in Sockets : net[s] = "free" /\ net'[s] = "opening"}
      /\ AddEntry(creds = "missing")
      /\ overlapped' = (overlapped \/ service # "up")
  BY DEF Register
<1>2. current \in Services /\ calls' \in 0 .. MaxCalls /\ EndsOpen({})
  BY <1>1, CallTyped DEF EndsOpen
<1>3. /\ NetOK' /\ SteadyOpen /\ SteadyStarts
      /\ ad' \in [Adapters -> Adapter] /\ crossed' \subseteq Adapters
      /\ \A b \in Adapters : ad'[b].sock \in {ad[b].sock, None}
      /\ \A p \in Sessions : Owned(p)' = Owned(p)
      /\ adapters' \in [Services -> Adapters \cup {None}]
      /\ loose' \subseteq stopped' /\ stopped' \subseteq Adapters
  BY <1>1, <1>2, StartChannelSteady
<1>4. \A s \in registering' : s \in registering \/ s \in {t \in Sockets : net'[t] \in Creating}
  BY <1>1 DEF Creating
<1>5. registered' \in BOOLEAN /\ disabled' \in BOOLEAN
  BY <1>1, Typed DEF AddEntry
<1> QED
  BY <1>1, <1>2, <1>3, <1>4, <1>5, StepTyped, Typed DEF pairVars

LEMMA RestartTyped ==
  ASSUME TInv, Restart
  PROVE  TInv'
<1>1. /\ Call /\ adapters[current] # None
      /\ UNCHANGED <<serviceVars, diskVars, pairVars, overlapped>>
  BY DEF Restart
<1>2. current \in Services /\ calls' \in 0 .. MaxCalls
  BY <1>1, CallTyped
<1>3. PICK a \in Adapters : a = adapters[current]
  BY <1>1, CallTyped
<1>4. Asked(a) /\ Start(a, Stopped(ad[a]), {ad[a].sock})
  BY <1>3 DEF Restart
<1>5. Stopped(ad[a]) \in Adapter /\ Stopped(ad[a]).sock = None
  BY Typed, StoppedDoes
<1>6. EndsOpen({ad[a].sock}) /\ EndsOpen({Stopped(ad[a]).sock})
  BY <1>5, SocksOpen
<1>7. /\ NetOK' /\ SteadyOpen /\ SteadyStarts
      /\ ad' \in [Adapters -> Adapter] /\ crossed' \subseteq Adapters
      /\ \A b \in Adapters : ad'[b].sock \in {ad[b].sock, None}
      /\ \A q : q # a /\ q # None => Owned(q)' = Owned(q)
  BY <1>4, <1>5, <1>6, StartSteady, Typed
<1>8. loose' \subseteq stopped' /\ stopped' \subseteq Adapters
  BY <1>4, Typed DEF Asked
<1> QED
  BY <1>1, <1>2, <1>7, <1>8, StepTyped, Typed, Apart DEF serviceVars, diskVars, pairVars

LEMMA CloseAllTyped ==
  ASSUME TInv, Call, CloseAll, service' \in {"up", "booting", "disposed"},
         registered' \in BOOLEAN, disabled' \in BOOLEAN,
         overlapped' \in BOOLEAN
  PROVE  TInv'
<1>1. PICK k \in Services : k = current
  BY CallTyped
<1>2. PICK a \in Adapters \cup {None} : a = adapters[current]
  BY CallTyped
<1>3. /\ pairings' = [pairings EXCEPT ![k] = None] /\ ps' = Cancelled(k)
      /\ adapters' = [adapters EXCEPT ![k] = None]
      /\ ad' = HaltedAd(a) /\ Halted(a)
      /\ net' = Ended(PairSock(k) \cup SockOf(a))
      /\ UNCHANGED <<current, configured, registering, creds, home, owner, loaded, crossed>>
  BY <1>1, <1>2 DEF CloseAll
<1>4. calls' \in 0 .. MaxCalls
  BY CallTyped
<1>5. EndsOpen(PairSock(k) \cup SockOf(a))
  BY SocksOpen DEF EndsOpen
<1>6. NetOK' /\ SteadyOpen /\ SteadyStarts /\ \A o : Owned(o)' = Owned(o)
  BY <1>3, <1>5, EndedSteady, Typed
<1>7. /\ ad' \in [Adapters -> Adapter] /\ \A b \in Adapters : ad'[b].sock \in {ad[b].sock, None}
      /\ loose' \subseteq stopped' /\ stopped' \subseteq Adapters
  BY <1>3, HaltDoes, Typed
<1>8. /\ ps' \in [Sessions -> Session]
      /\ \A p \in Sessions : /\ ps'[p].sock = ps[p].sock /\ ps'[p].phase = ps[p].phase
                             /\ ps'[p].timer => ps[p].timer
  BY <1>3, CancelDoes, Typed
<1>9. /\ pairings' \in [Services -> Sessions \cup {None}]
      /\ \A j \in Services : pairings'[j] \in {pairings[j], None}
      /\ adapters' \in [Services -> Adapters \cup {None}]
  BY <1>3, Typed
<1> QED
  BY <1>1, <1>3, <1>4, <1>6, <1>7, <1>8, <1>9, StepTyped, Typed

LEMMA UnregisterTyped ==
  ASSUME TInv, Unregister
  PROVE  TInv'
BY CloseAllTyped, Typed DEF Unregister

LEMMA DisposeTyped ==
  ASSUME TInv, Dispose
  PROVE  TInv'
BY CloseAllTyped, Typed DEF Dispose

LEMMA BootTyped ==
  ASSUME TInv, Boot
  PROVE  TInv'
<1>1. /\ current' = current + 1 /\ service' = "booting" /\ configured' = (registered /\ ~disabled)
      /\ UNCHANGED <<adapters, registering, diskVars, ad, pairVars, socketVars, calls, historyVars>>
      /\ current < MaxServices
  BY DEF Boot
<1>2. current' \in Services /\ current' \in 0 .. MaxServices
  BY <1>1, Typed, WhatsAppAssumption DEF Services
<1>3. TypeOK'
  BY <1>1, <1>2 DEF TInv, TypeOK, diskVars, pairVars, socketVars, historyVars
<1>4. SockInv' /\ HomeInv'
  BY <1>1, <1>2 DEF TInv, SockInv, HomeInv, Owned, pairVars, socketVars
<1> QED
  BY <1>3, <1>4 DEF TInv

LEMMA StartConfiguredTyped ==
  ASSUME TInv, StartConfigured
  PROVE  TInv'
<1>1. /\ service = "booting" /\ service' = "up"
      /\ UNCHANGED <<current, configured, registering, diskVars, pairVars, calls>>
      /\ overlapped' = (overlapped \/ (configured /\ adapters[current] # None))
  BY DEF StartConfigured
<1>2. current \in Services /\ EndsOpen({})
  BY <1>1, Typed DEF EndsOpen
<1>3. /\ NetOK' /\ SteadyOpen /\ SteadyStarts
      /\ ad' \in [Adapters -> Adapter] /\ crossed' \subseteq Adapters
      /\ \A b \in Adapters : ad'[b].sock \in {ad[b].sock, None}
      /\ \A p \in Sessions : Owned(p)' = Owned(p)
      /\ adapters' \in [Services -> Adapters \cup {None}]
      /\ loose' \subseteq stopped' /\ stopped' \subseteq Adapters
  <2>1. CASE StartChannel(current, {})
    BY <1>2, <2>1, StartChannelSteady
  <2>2. CASE UNCHANGED <<adapters, ad, socketVars, stopped, loose, crossed>>
    BY <2>2, Typed DEF socketVars, NetOK, SteadyOpen, SteadyStarts, Owned
  <2> QED
    BY <2>1, <2>2 DEF StartConfigured
<1> QED
  BY <1>1, <1>2, <1>3, StepTyped, Typed DEF diskVars, pairVars

LEMMA PairAgainTyped ==
  ASSUME TInv, PairAgain
  PROVE  TInv'
<1>1. PICK a \in Adapters \cup {None} : a = adapters[current]
  BY CallTyped DEF PairAgain
<1>2. /\ Call /\ ad' = HaltedAd(a) /\ Halted(a) /\ net' = Ended(SockOf(a))
      /\ UNCHANGED <<serviceVars, diskVars, pairVars, owner, loaded, crossed, overlapped>>
  BY <1>1 DEF PairAgain
<1>3. calls' \in 0 .. MaxCalls /\ EndsOpen(SockOf(a))
  BY <1>2, CallTyped, SocksOpen
<1>4. NetOK' /\ SteadyOpen /\ SteadyStarts /\ \A o : Owned(o)' = Owned(o)
  BY <1>2, <1>3, EndedSteady, Typed
<1>5. /\ ad' \in [Adapters -> Adapter] /\ \A b \in Adapters : ad'[b].sock \in {ad[b].sock, None}
      /\ loose' \subseteq stopped' /\ stopped' \subseteq Adapters
  BY <1>2, HaltDoes, Typed
<1> QED
  BY <1>2, <1>3, <1>4, <1>5, StepTyped, Typed DEF serviceVars, diskVars, pairVars

LEMMA PairCancelTyped ==
  ASSUME TInv, PairCancel
  PROVE  TInv'
<1>1. PICK a \in Adapters \cup {None} : a = adapters[current]
  BY CallTyped DEF PairCancel
<1>2. PICK k \in Services : k = current
  BY CallTyped DEF PairCancel
<1>3. /\ Call /\ pairings' = [pairings EXCEPT ![k] = None] /\ ps' = Cancelled(k)
      /\ UNCHANGED <<serviceVars, diskVars, home, overlapped>>
      /\ \/ a # None /\ Asked(a) /\ Start(a, ad[a], PairSock(k))
         \/ /\ a = None
            /\ net' = Ended(PairSock(k))
            /\ UNCHANGED <<ad, owner, loaded, stopped, loose, crossed>>
  BY <1>1, <1>2 DEF PairCancel
<1>4. calls' \in 0 .. MaxCalls /\ EndsOpen(PairSock(k))
  BY <1>3, CallTyped, SocksOpen
<1>5. /\ NetOK' /\ SteadyOpen /\ SteadyStarts
      /\ ad' \in [Adapters -> Adapter] /\ crossed' \subseteq Adapters
      /\ \A b \in Adapters : ad'[b].sock \in {ad[b].sock, None}
      /\ \A p \in Sessions : Owned(p)' = Owned(p)
      /\ loose' \subseteq stopped' /\ stopped' \subseteq Adapters
  <2>1. CASE a # None /\ Asked(a) /\ Start(a, ad[a], PairSock(k))
    <3>1. a \in Adapters /\ ad[a] \in Adapter /\ EndsOpen({ad[a].sock})
      BY <2>1, SocksOpen
    <3>2. /\ NetOK' /\ SteadyOpen /\ SteadyStarts
          /\ ad' \in [Adapters -> Adapter] /\ crossed' \subseteq Adapters
          /\ \A b \in Adapters : ad'[b].sock \in {ad[b].sock, None}
          /\ \A q : q # a /\ q # None => Owned(q)' = Owned(q)
      BY <1>4, <2>1, <3>1, StartSteady, Typed
    <3>3. loose' \subseteq stopped' /\ stopped' \subseteq Adapters
      BY <2>1, Typed DEF Asked
    <3> QED
      BY <3>1, <3>2, <3>3, Apart
  <2>2. CASE net' = Ended(PairSock(k)) /\ UNCHANGED <<ad, owner, loaded, stopped, loose, crossed>>
    <3>1. NetOK' /\ SteadyOpen /\ SteadyStarts /\ \A o : Owned(o)' = Owned(o)
      BY <1>4, <2>2, EndedSteady, Typed
    <3> QED
      BY <2>2, <3>1, Typed
  <2> QED
    BY <1>3, <2>1, <2>2
<1>6. /\ ps' \in [Sessions -> Session]
      /\ \A p \in Sessions : /\ ps'[p].sock = ps[p].sock /\ ps'[p].phase = ps[p].phase
                             /\ ps'[p].timer => ps[p].timer
  BY <1>3, CancelDoes, Typed
<1>7. /\ pairings' \in [Services -> Sessions \cup {None}]
      /\ \A j \in Services : pairings'[j] \in {pairings[j], None}
  BY <1>3, Typed
<1> QED
  BY <1>2, <1>3, <1>4, <1>5, <1>6, <1>7, StepTyped, Typed DEF serviceVars, diskVars

LEMMA PairNewTyped ==
  ASSUME TInv, NEW p \in Sessions, PairNew(p)
  PROVE  TInv'
<1>1. PICK a \in Adapters \cup {None} : a = adapters[current]
  BY CallTyped DEF PairNew
<1>2. PICK k \in Services : k = current
  BY CallTyped DEF PairNew
<1>3. /\ Call /\ Unused(p) /\ ad' = HaltedAd(a) /\ Halted(a)
      /\ pairings' = [pairings EXCEPT ![k] = p] /\ home' = [home EXCEPT ![p] = k]
      /\ ps' = [Cancelled(k) EXCEPT ![p] = NewSession]
      /\ UNCHANGED <<serviceVars, diskVars, crossed, overlapped>>
  BY <1>1, <1>2 DEF PairNew
<1>4. PICK s \in Sockets : Create(s, p, SockOf(a) \cup PairSock(k))
  BY <1>1, <1>2 DEF PairNew
<1>5. EndsOpen(SockOf(a) \cup PairSock(k))
  BY SocksOpen DEF EndsOpen
<1>6. /\ NetOK' /\ SteadyOpen /\ SteadyStarts
      /\ \A q : q # p /\ q # None => Owned(q)' = Owned(q)
  BY <1>4, <1>5, CreateSteady, Typed, Apart
<1>7. /\ ad' \in [Adapters -> Adapter] /\ \A b \in Adapters : ad'[b].sock \in {ad[b].sock, None}
      /\ loose' \subseteq stopped' /\ stopped' \subseteq Adapters
  BY <1>3, HaltDoes, Typed
<1>8. /\ ps' \in [Sessions -> Session] /\ ps'[p] = NewSession
      /\ \A q \in Sessions \ {p} : /\ ps'[q].sock = ps[q].sock /\ ps'[q].phase = ps[q].phase
                                   /\ ps'[q].timer => ps[q].timer
  BY <1>3, CancelDoes, NewTyped, Typed
<1>9. SockInv'
  <2>1. ps'[p].sock = None
    BY <1>8 DEF NewSession
  <2> QED
    BY <1>6, <1>7, <1>8, <2>1, SteadySocks
<1>10. HomeInv'
  <2>1. home' \in [Sessions -> Services \cup {0}] /\ home'[p] = k
        /\ \A q \in Sessions \ {p} : home'[q] = home[q]
    BY <1>3 DEF TInv, TypeOK
  <2>2. /\ pairings'[k] = p
        /\ \A j \in Services \ {k} : pairings'[j] = pairings[j] /\ pairings[j] # p
        /\ \A j \in Services : pairings[j] \in Sessions \cup {None}
    BY <1>3, Typed DEF Unused
  <2>3. \A j \in Services : pairings'[j] # None => home'[pairings'[j]] = j
    BY <2>1, <2>2 DEF TInv, HomeInv
  <2>4. service' # "disposed" => current' \in Services
    BY <1>2, <1>3 DEF serviceVars
  <2>5. \A q \in Sessions :
          Owned(q)' # {} \/ ps'[q].timer \/ ps'[q].phase = "clearing" => home'[q] \in Services
    BY <1>6, <1>8, <2>1, Apart DEF TInv, HomeInv
  <2> QED
    BY <2>3, <2>4, <2>5 DEF HomeInv
<1>11. TypeOK'
  <2>1. registering' \subseteq {t \in Sockets : net'[t] \in Creating}
    BY <1>3, <1>6 DEF TInv, TypeOK, SteadyStarts, serviceVars
  <2>2. calls' \in 0 .. MaxCalls
    BY <1>3, CallTyped
  <2>3. home' \in [Sessions -> Services \cup {0}] /\ pairings' \in [Services -> Sessions \cup {None}]
    BY <1>3 DEF TInv, TypeOK
  <2> QED
    BY <1>3, <1>6, <1>7, <1>8, <2>1, <2>2, <2>3 DEF TInv, TypeOK, NetOK, serviceVars, diskVars
<1> QED
  BY <1>9, <1>10, <1>11 DEF TInv

LEMMA PairResetTyped ==
  ASSUME TInv, NEW p \in Sessions, PairReset(p)
  PROVE  TInv'
<1> DEFINE begun == [NewSession EXCEPT !.phase = "clearing", !.timer = FALSE]
<1>1. PICK a \in Adapters \cup {None} : a = adapters[current]
  BY CallTyped DEF PairReset
<1>2. PICK k \in Services : k = current
  BY CallTyped DEF PairReset
<1>3. /\ Call /\ Unused(p) /\ ad' = HaltedAd(a) /\ Halted(a)
      /\ pairings' = [pairings EXCEPT ![k] = None] /\ home' = [home EXCEPT ![p] = k]
      /\ ps' = [Cancelled(k) EXCEPT ![p] = begun]
      /\ net' = Ended(SockOf(a) \cup PairSock(k))
      /\ UNCHANGED <<serviceVars, diskVars, owner, loaded, crossed, overlapped>>
  BY <1>1, <1>2 DEF PairReset
<1>4. begun \in Session /\ begun.sock = None
  BY NewTyped DEF NewSession, Session
<1> HIDE DEF begun
<1>5. EndsOpen(SockOf(a) \cup PairSock(k))
  BY SocksOpen DEF EndsOpen
<1>6. NetOK' /\ SteadyOpen /\ SteadyStarts /\ \A o : Owned(o)' = Owned(o)
  BY <1>3, <1>5, EndedSteady, Typed
<1>7. /\ ad' \in [Adapters -> Adapter] /\ \A b \in Adapters : ad'[b].sock \in {ad[b].sock, None}
      /\ loose' \subseteq stopped' /\ stopped' \subseteq Adapters
  BY <1>3, HaltDoes, Typed
<1>8. /\ ps' \in [Sessions -> Session] /\ ps'[p] = begun
      /\ \A q \in Sessions \ {p} : /\ ps'[q].sock = ps[q].sock /\ ps'[q].phase = ps[q].phase
                                   /\ ps'[q].timer => ps[q].timer
  BY <1>3, <1>4, CancelDoes, Typed
<1>9. SockInv'
  BY <1>4, <1>6, <1>7, <1>8, SteadySocks
<1>10. HomeInv'
  <2>1. home' \in [Sessions -> Services \cup {0}] /\ home'[p] = k
        /\ \A q \in Sessions \ {p} : home'[q] = home[q]
    BY <1>3 DEF TInv, TypeOK
  <2>2. /\ pairings'[k] = None
        /\ \A j \in Services \ {k} : pairings'[j] = pairings[j] /\ pairings[j] # p
        /\ \A j \in Services : pairings[j] \in Sessions \cup {None}
    BY <1>3, Typed DEF Unused
  <2>3. \A j \in Services : pairings'[j] # None => home'[pairings'[j]] = j
    BY <2>1, <2>2 DEF TInv, HomeInv
  <2>4. service' # "disposed" => current' \in Services
    BY <1>2, <1>3 DEF serviceVars
  <2>5. \A q \in Sessions :
          Owned(q)' # {} \/ ps'[q].timer \/ ps'[q].phase = "clearing" => home'[q] \in Services
    BY <1>6, <1>8, <2>1, Apart DEF TInv, HomeInv
  <2> QED
    BY <2>3, <2>4, <2>5 DEF HomeInv
<1>11. TypeOK'
  <2>1. registering' \subseteq {t \in Sockets : net'[t] \in Creating}
    BY <1>3, <1>6 DEF TInv, TypeOK, SteadyStarts, serviceVars
  <2>2. calls' \in 0 .. MaxCalls
    BY <1>3, CallTyped
  <2>3. home' \in [Sessions -> Services \cup {0}] /\ pairings' \in [Services -> Sessions \cup {None}]
    BY <1>3 DEF TInv, TypeOK
  <2> QED
    BY <1>3, <1>6, <1>7, <1>8, <2>1, <2>2, <2>3 DEF TInv, TypeOK, NetOK, serviceVars, diskVars
<1> QED
  BY <1>9, <1>10, <1>11 DEF TInv

LEMMA ClearedTyped ==
  ASSUME TInv, NEW p \in Sessions, Cleared(p)
  PROVE  TInv'
<1>1. PICK k \in Services : k = home[p]
  BY DEF TInv, HomeInv, Cleared
<1>2. /\ creds' = "missing"
      /\ pairings' = [pairings EXCEPT ![k] = p] /\ ps' = [ps EXCEPT ![p] = NewSession]
      /\ UNCHANGED <<serviceVars, entryVars, ad, home, calls, historyVars>>
  BY <1>1 DEF Cleared
<1>3. PICK s \in Sockets : Create(s, p, {})
  BY DEF Cleared
<1>4. EndsOpen({})
  BY DEF EndsOpen
<1>5. /\ NetOK' /\ SteadyOpen /\ SteadyStarts
      /\ \A q : q # p /\ q # None => Owned(q)' = Owned(q)
  BY <1>3, <1>4, CreateSteady, Typed, Apart
<1>6. /\ ps' \in [Sessions -> Session] /\ ps'[p] = NewSession /\ ps'[p].sock = None
      /\ \A q \in Sessions \ {p} : ps'[q] = ps[q]
  BY <1>2, NewTyped, Typed DEF NewSession
<1>7. SockInv'
  BY <1>2, <1>5, <1>6, SteadySocks
<1>8. HomeInv'
  <2>1. /\ pairings'[k] = p
        /\ \A j \in Services \ {k} : pairings'[j] = pairings[j]
    BY <1>2, Typed
  <2>2. \A j \in Services : pairings'[j] # None => home'[pairings'[j]] = j
    BY <1>1, <1>2, <2>1 DEF TInv, HomeInv
  <2>3. \A q \in Sessions :
          Owned(q)' # {} \/ ps'[q].timer \/ ps'[q].phase = "clearing" => home'[q] \in Services
    BY <1>1, <1>2, <1>5, <1>6, Apart DEF TInv, HomeInv
  <2> QED
    BY <1>2, <2>2, <2>3, Typed DEF HomeInv, serviceVars
<1>9. TypeOK'
  <2>1. registering' \subseteq {t \in Sockets : net'[t] \in Creating}
    BY <1>2, <1>5 DEF TInv, TypeOK, SteadyStarts, serviceVars
  <2>2. pairings' \in [Services -> Sessions \cup {None}]
    BY <1>2, Typed
  <2> QED
    BY <1>2, <1>5, <1>6, <2>1, <2>2 DEF TInv, TypeOK, NetOK, Creds, serviceVars, historyVars
<1> QED
  BY <1>7, <1>8, <1>9 DEF TInv

\* What the timer of a session does to the sessions.
LEMMA TickedDoes ==
  ASSUME TypeOK, NEW p \in Sessions
  PROVE  LET f == [ps EXCEPT ![p].timer = FALSE] IN
         /\ f \in [Sessions -> Session]
         /\ \A t \in Sessions : /\ f[t].sock = ps[t].sock /\ f[t].phase = ps[t].phase
                                /\ f[t].timer <=> ps[t].timer /\ t # p
<1> DEFINE f == [ps EXCEPT ![p].timer = FALSE]
<1>1. /\ ps[p] \in Session /\ ps \in [Sessions -> Session]
      /\ [ps[p] EXCEPT !.timer = FALSE] \in Session
      /\ [ps[p] EXCEPT !.timer = FALSE].sock = ps[p].sock
      /\ [ps[p] EXCEPT !.timer = FALSE].phase = ps[p].phase
      /\ [ps[p] EXCEPT !.timer = FALSE].timer = FALSE
  BY SessionTyped DEF TypeOK
<1>2. /\ f \in [Sessions -> Session] /\ f[p] = [ps[p] EXCEPT !.timer = FALSE]
      /\ \A t \in Sessions : t # p => f[t] = ps[t]
  BY <1>1
<1> HIDE DEF f
<1>3. \A t \in Sessions : /\ f[t].sock = ps[t].sock /\ f[t].phase = ps[t].phase
                          /\ f[t].timer <=> ps[t].timer /\ t # p
  BY <1>1, <1>2
<1> QED
  BY <1>2, <1>3 DEF f

LEMMA ExpiredDoes ==
  ASSUME TypeOK, NEW p \in Sessions, NEW q \in Sessions,
         ps' = [ps EXCEPT ![p].timer = FALSE, ![q].phase = "expired"]
  PROVE  /\ ps' \in [Sessions -> Session]
         /\ \A t \in Sessions : /\ ps'[t].sock = ps[t].sock
                                /\ ps'[t].timer <=> ps[t].timer /\ t # p
                                /\ ps'[t].phase = IF t = q THEN "expired" ELSE ps[t].phase
<1> DEFINE f == [ps EXCEPT ![p].timer = FALSE]
<1>1. /\ f \in [Sessions -> Session]
      /\ \A t \in Sessions : /\ f[t].sock = ps[t].sock /\ f[t].phase = ps[t].phase
                             /\ f[t].timer <=> ps[t].timer /\ t # p
  BY TickedDoes
<1>2. ps' = [f EXCEPT ![q] = [f[q] EXCEPT !.phase = "expired"]]
  OBVIOUS
<1> HIDE DEF f
<1>3. /\ f[q] \in Session
      /\ [f[q] EXCEPT !.phase = "expired"] \in Session
      /\ [f[q] EXCEPT !.phase = "expired"].sock = f[q].sock
      /\ [f[q] EXCEPT !.phase = "expired"].timer = f[q].timer
      /\ [f[q] EXCEPT !.phase = "expired"].phase = "expired"
  BY <1>1, SessionTyped
<1>4. /\ ps' \in [Sessions -> Session] /\ ps'[q] = [f[q] EXCEPT !.phase = "expired"]
      /\ \A t \in Sessions : t # q => ps'[t] = f[t]
  BY <1>1, <1>2, <1>3
<1> QED
  BY <1>1, <1>3, <1>4

LEMMA QrTimeoutDoes ==
  ASSUME TInv, NEW p \in Sessions, QrTimeout(p)
  PROVE  /\ home[p] \in Services /\ ps' \in [Sessions -> Session]
         /\ \A t \in Sessions :
              /\ ps'[t].sock = ps[t].sock
              /\ ps'[t].timer <=> ps[t].timer /\ t # p
              /\ ps'[t].phase = IF t = pairings[home[p]] /\ ps[t].phase \notin {"saved", "connected"}
                               THEN "expired" ELSE ps[t].phase
         /\ NetOK' /\ SteadyOpen /\ SteadyStarts /\ \A o : Owned(o)' = Owned(o)
<1>1. PICK k \in Services : k = home[p]
  BY DEF TInv, HomeInv, QrTimeout
<1>2. PICK q \in Sessions \cup {None} : q = pairings[k]
  BY Typed
<1>3. /\ \/ /\ q # None => ps[q].phase \in {"saved", "connected"}
            /\ ps' = [ps EXCEPT ![p].timer = FALSE]
            /\ UNCHANGED net
         \/ /\ q # None /\ ps[q].phase \notin {"saved", "connected"}
            /\ ps' = [ps EXCEPT ![p].timer = FALSE, ![q].phase = "expired"]
            /\ net' = Ended({ps[q].sock})
      /\ UNCHANGED <<owner, loaded>>
  BY <1>1, <1>2 DEF QrTimeout
<1>4. CASE /\ q # None => ps[q].phase \in {"saved", "connected"}
           /\ ps' = [ps EXCEPT ![p].timer = FALSE]
           /\ UNCHANGED net
  <2>1. /\ ps' \in [Sessions -> Session]
        /\ \A t \in Sessions : /\ ps'[t].sock = ps[t].sock /\ ps'[t].phase = ps[t].phase
                               /\ ps'[t].timer <=> ps[t].timer /\ t # p
    BY <1>4, TickedDoes, Typed
  <2>2. NetOK' /\ SteadyOpen /\ SteadyStarts /\ \A o : Owned(o)' = Owned(o)
    BY <1>3, <1>4, Typed DEF NetOK, SteadyOpen, SteadyStarts, Owned
  <2> QED
    BY <1>1, <1>2, <1>4, <2>1, <2>2, Apart
<1>5. CASE /\ q # None /\ ps[q].phase \notin {"saved", "connected"}
           /\ ps' = [ps EXCEPT ![p].timer = FALSE, ![q].phase = "expired"]
           /\ net' = Ended({ps[q].sock})
  <2>1. q \in Sessions
    BY <1>5
  <2>2. /\ ps' \in [Sessions -> Session]
        /\ \A t \in Sessions : /\ ps'[t].sock = ps[t].sock
                               /\ ps'[t].timer <=> ps[t].timer /\ t # p
                               /\ ps'[t].phase = IF t = q THEN "expired" ELSE ps[t].phase
    BY <1>5, <2>1, ExpiredDoes, Typed
  <2>3. NetOK' /\ SteadyOpen /\ SteadyStarts /\ \A o : Owned(o)' = Owned(o)
    BY <1>3, <1>5, <2>1, SocksOpen, EndedSteady, Typed
  <2> QED
    BY <1>1, <1>2, <1>5, <2>1, <2>2, <2>3
<1> QED
  BY <1>3, <1>4, <1>5

LEMMA QrTimeoutTyped ==
  ASSUME TInv, NEW p \in Sessions, QrTimeout(p)
  PROVE  TInv'
<1>1. UNCHANGED <<serviceVars, diskVars, ad, pairings, home, owner, loaded, calls, historyVars>>
  BY DEF QrTimeout
<1>2. /\ ps' \in [Sessions -> Session]
      /\ \A t \in Sessions : /\ ps'[t].sock = ps[t].sock /\ (ps'[t].timer => ps[t].timer)
                             /\ ps'[t].phase \in {ps[t].phase, "expired"}
      /\ NetOK' /\ SteadyOpen /\ SteadyStarts /\ \A o : Owned(o)' = Owned(o)
  BY QrTimeoutDoes
<1> QED
  BY <1>1, <1>2, StepTyped, Typed DEF serviceVars, diskVars, historyVars

LEMMA SavedSession ==
  ASSUME TypeOK, NEW p \in Sessions,
         ps' = [ps EXCEPT ![p].phase = "saved", ![p].timer = FALSE]
  PROVE  /\ ps' \in [Sessions -> Session] /\ ps'[p].phase = "saved" /\ ps'[p].timer = FALSE
         /\ ps'[p].sock = ps[p].sock /\ \A t \in Sessions \ {p} : ps'[t] = ps[t]
<1> DEFINE r == [ps[p] EXCEPT !.phase = "saved", !.timer = FALSE]
<1>1. r \in Session /\ r.phase = "saved" /\ r.timer = FALSE /\ r.sock = ps[p].sock
  <2>1. ps[p] \in Session
    BY DEF TypeOK
  <2> QED
    BY <2>1 DEF Session
<1>2. ps' = [ps EXCEPT ![p] = r] /\ ps \in [Sessions -> Session]
  BY DEF TypeOK
<1> HIDE DEF r
<1> QED
  BY <1>1, <1>2

LEMMA PairedTyped ==
  ASSUME TInv, NEW s \in Sockets, Paired(s)
  PROVE  TInv'
<1>1. PICK p \in Sessions : p = owner[s] /\ net[s] = "open"
  BY DEF Paired
<1>2. PICK k \in Services : k = home[p]
  BY <1>1, OwnerTyped
<1>3. PICK a \in Adapters \cup {None} : a = adapters[k]
  BY Typed
<1>4. /\ creds' = "paired" /\ ps' = [ps EXCEPT ![p].phase = "saved", ![p].timer = FALSE]
      /\ \/ /\ a # None
            /\ Asked(a)
            /\ Start(a, Stopped(ad[a]), {ps[p].sock, ad[a].sock})
            /\ UNCHANGED <<adapters, overlapped>>
         \/ /\ a = None /\ registered
            /\ StartChannel(k, {ps[p].sock})
            /\ overlapped' = (overlapped \/ k # current \/ service # "up")
         \/ /\ a = None /\ ~registered
            /\ net' = Ended({ps[p].sock})
            /\ UNCHANGED <<adapters, ad, owner, loaded, historyVars>>
      /\ UNCHANGED <<current, service, configured, registering, entryVars, pairings, home, calls>>
  BY <1>1, <1>2, <1>3 DEF Paired
<1>5. /\ NetOK' /\ SteadyOpen /\ SteadyStarts
      /\ ad' \in [Adapters -> Adapter] /\ crossed' \subseteq Adapters
      /\ \A b \in Adapters : ad'[b].sock \in {ad[b].sock, None}
      /\ \A q \in Sessions : Owned(q)' = Owned(q)
      /\ adapters' \in [Services -> Adapters \cup {None}]
      /\ loose' \subseteq stopped' /\ stopped' \subseteq Adapters /\ overlapped' \in BOOLEAN
  <2>1. CASE /\ a # None
             /\ Asked(a)
             /\ Start(a, Stopped(ad[a]), {ps[p].sock, ad[a].sock})
             /\ UNCHANGED <<adapters, overlapped>>
    <3>1. a \in Adapters
      BY <2>1
    <3>2. Stopped(ad[a]) \in Adapter /\ Stopped(ad[a]).sock = None
      BY <3>1, Typed, StoppedDoes
    <3>3. EndsOpen({ps[p].sock, ad[a].sock}) /\ EndsOpen({Stopped(ad[a]).sock})
      BY <3>1, <3>2, SocksOpen DEF EndsOpen
    <3>4. /\ NetOK' /\ SteadyOpen /\ SteadyStarts
          /\ ad' \in [Adapters -> Adapter] /\ crossed' \subseteq Adapters
          /\ \A b \in Adapters : ad'[b].sock \in {ad[b].sock, None}
          /\ \A q : q # a /\ q # None => Owned(q)' = Owned(q)
      BY <2>1, <3>1, <3>2, <3>3, StartSteady, Typed
    <3>5. loose' \subseteq stopped' /\ stopped' \subseteq Adapters
      BY <2>1, Typed DEF Asked
    <3> QED
      BY <2>1, <3>1, <3>4, <3>5, Typed, Apart
  <2>2. CASE /\ StartChannel(k, {ps[p].sock})
             /\ overlapped' = (overlapped \/ k # current \/ service # "up")
    <3>1. EndsOpen({ps[p].sock})
      BY SocksOpen
    <3> QED
      BY <2>2, <3>1, StartChannelSteady
  <2>3. CASE /\ net' = Ended({ps[p].sock})
             /\ UNCHANGED <<adapters, ad, owner, loaded, historyVars>>
    <3>1. NetOK' /\ SteadyOpen /\ SteadyStarts /\ \A o : Owned(o)' = Owned(o)
      BY <2>3, SocksOpen, EndedSteady, Typed
    <3> QED
      BY <2>3, <3>1, Typed DEF historyVars
  <2> QED
    BY <1>4, <2>1, <2>2, <2>3
<1>6. /\ ps' \in [Sessions -> Session]
      /\ \A q \in Sessions : /\ ps'[q].sock = ps[q].sock /\ (ps'[q].timer => ps[q].timer)
                             /\ ps'[q].phase \in {ps[q].phase, "saved"}
  <2>1. /\ ps' \in [Sessions -> Session] /\ ps'[p].phase = "saved" /\ ps'[p].timer = FALSE
        /\ ps'[p].sock = ps[p].sock /\ \A t \in Sessions \ {p} : ps'[t] = ps[t]
    BY <1>4, SavedSession, Typed
  <2> QED
    BY <2>1
<1> QED
  BY <1>4, <1>5, <1>6, StepTyped, Typed DEF Creds

LEMMA InitTyped == Init => TInv
<1> SUFFICES ASSUME Init PROVE TInv
  OBVIOUS
<1> DEFINE idle == [NewSession EXCEPT !.phase = "idle", !.timer = FALSE]
<1>1. NewAdapter \in Adapter /\ NewAdapter.sock = None
  BY NewTyped DEF NewAdapter
<1>2. idle \in Session /\ idle.sock = None /\ idle.timer = FALSE /\ idle.phase = "idle"
  BY NewTyped DEF NewSession, Session
<1>3. ps = [p \in Sessions |-> idle]
  BY DEF Init
<1> HIDE DEF idle
<1>4. \A o : o # None => Owned(o) = {}
  BY DEF Init, Owned
<1>5. TypeOK
  <2>1. ad \in [Adapters -> Adapter] /\ ps \in [Sessions -> Session]
    BY <1>1, <1>2, <1>3 DEF Init
  <2>2. /\ net \in [Sockets -> Net] /\ owner \in [Sockets -> Objects \cup {None}]
        /\ loaded \in [Sockets -> Creds] /\ creds \in Creds
        /\ \A s \in Sockets : net[s] = "free" <=> owner[s] = None
    BY DEF Init, Creds, Net
  <2>3. /\ current \in 0 .. MaxServices /\ calls \in 0 .. MaxCalls
        /\ home \in [Sessions -> Services \cup {0}]
    BY WhatsAppAssumption DEF Init
  <2> QED
    BY <2>1, <2>2, <2>3 DEF Init, TypeOK
<1>6. SockInv /\ HomeInv
  BY <1>1, <1>2, <1>3, <1>4, Apart DEF Init, SockInv, HomeInv
<1> QED
  BY <1>5, <1>6 DEF TInv

LEMMA NextTyped == TInv /\ [Next]_vars => TInv'
<1> SUFFICES ASSUME TInv, [Next]_vars PROVE TInv'
  OBVIOUS
<1>1. ASSUME NEW s \in Sockets, SocketStep(s) PROVE TInv'
  <2>1. CASE ReadCreds(s)
    BY <2>1, ReadCredsTyped
  <2>2. CASE Opened(s)
    BY <2>2, OpenedTyped
  <2>3. CASE OpenFails(s)
    BY <2>3, OpenFailsTyped
  <2>4. CASE Accept(s)
    BY <2>4, AcceptTyped
  <2>5. CASE QR(s)
    BY <2>5, QRTyped
  <2>6. CASE SaveUnlinked(s) \/ Save(s)
    BY <2>6, SaveTyped DEF SaveUnlinked, Save, Creds
  <2>7. CASE Scan(s)
    BY <2>7, ScanTyped
  <2>8. CASE Paired(s)
    BY <2>8, PairedTyped
  <2>9. CASE \E reason \in {"closed", "restart_required", "logged_out"} :
               AdapterCloses(s, reason) \/ SessionCloses(s, reason)
    BY <2>9, AdapterClosesTyped, SessionClosesTyped
  <2> QED
    BY <1>1, <2>1, <2>2, <2>3, <2>4, <2>5, <2>6, <2>7, <2>8, <2>9 DEF SocketStep
<1>2. ASSUME NEW a \in Adapters, Reconnect(a) PROVE TInv'
  BY <1>2, ReconnectTyped
<1>3. CASE Register \/ Restart \/ Unregister \/ Dispose \/ Boot \/ StartConfigured
           \/ PairAgain \/ PairCancel
  BY <1>3, RegisterTyped, RestartTyped, UnregisterTyped, DisposeTyped, BootTyped,
     StartConfiguredTyped, PairAgainTyped, PairCancelTyped
<1>4. ASSUME NEW p \in Sessions, PairNew(p) \/ PairReset(p) \/ Cleared(p) \/ QrTimeout(p)
      PROVE  TInv'
  BY <1>4, PairNewTyped, PairResetTyped, ClearedTyped, QrTimeoutTyped
<1>5. CASE UNCHANGED vars
  <2>1. UNCHANGED <<serviceVars, entryVars, ad, pairVars, socketVars, calls, historyVars>> /\ creds' = creds
    BY <1>5 DEF vars, diskVars
  <2> QED
    BY <2>1, SaveTyped, Typed
<1> QED
  BY <1>1, <1>2, <1>3, <1>4, <1>5 DEF Next

----------------------------------------------------------------------------
(* A pairing that is shown is a real one, and it ends.                     *)

PairInv == PairingBacked /\ PairingExpires

Shown == {"connecting", "qr"}

LEMMA PairsKept ==
  ASSUME PairInv,
         \A k \in Services : pairings'[k] \in {pairings[k], None},
         \A p \in Sessions : ps'[p].phase \in Shown =>
            /\ ps[p].phase \in Shown /\ Owned(p) \subseteq Owned(p)'
            /\ (\E k \in Services : pairings'[k] = p) => (ps[p].timer => ps'[p].timer),
         \A k \in Services : pairings[k] \in Sessions \cup {None}
  PROVE  PairInv'
BY DEF PairInv, PairingBacked, PairingExpires, Shown

\* Sessions keep their sockets.
Kept == \A s \in Sockets : owner[s] \in Sessions => owner'[s] = owner[s]

LEMMA PairsUnseen ==
  ASSUME TInv, PairInv, Kept, ps' = ps, pairings' = pairings
  PROVE  PairInv'
<1>1. \A p \in Sessions : Owned(p) \subseteq Owned(p)'
  BY DEF Kept, Owned
<1> QED
  BY <1>1, PairsKept, Typed

LEMMA StartKept ==
  ASSUME TInv, NEW a \in Adapters, NEW r, NEW S, Start(a, r, S)
  PROVE  Kept
<1>1. CASE owner' = owner
  BY <1>1 DEF Kept
<1>2. CASE \E s \in Sockets : Create(s, a, S \cup {r.sock})
  <2>1. PICK s \in Sockets : net[s] = "free" /\ owner' = [owner EXCEPT ![s] = a]
    BY <1>2 DEF Create
  <2>2. owner[s] = None
    BY <2>1 DEF TInv, TypeOK
  <2> QED
    BY <2>1, <2>2, Apart, Typed DEF Kept, NetOK
<1> QED
  BY <1>1, <1>2 DEF Start

LEMMA StartChannelKept ==
  ASSUME TInv, NEW k, NEW S, StartChannel(k, S)
  PROVE  Kept
BY StartKept DEF StartChannel

\* Steps of adapters, sockets and the service that no session sees.
LEMMA UnseenPairs ==
  ASSUME TInv, PairInv,
         \/ \E s \in Sockets : ReadCreds(s) \/ SaveUnlinked(s) \/ Scan(s) \/ Save(s)
         \/ \E a \in Adapters : Reconnect(a)
         \/ Register \/ Restart \/ Boot \/ StartConfigured \/ PairAgain
         \/ UNCHANGED vars
  PROVE  PairInv'
<1>1. CASE \E s \in Sockets : ReadCreds(s) \/ SaveUnlinked(s) \/ Scan(s) \/ Save(s)
  <2>1. ps' = ps /\ pairings' = pairings /\ owner' = owner
    BY <1>1 DEF ReadCreds, SaveUnlinked, Scan, Save, pairVars, socketVars
  <2> QED
    BY <2>1, PairsUnseen DEF Kept
<1>2. ASSUME NEW a \in Adapters, Reconnect(a) PROVE PairInv'
  <2>1. ps' = ps /\ pairings' = pairings /\ Kept
    BY <1>2, StartKept DEF Reconnect, pairVars
  <2> QED
    BY <2>1, PairsUnseen
<1>3. CASE Register
  <2>1. ps' = ps /\ pairings' = pairings /\ Kept
    BY <1>3, StartChannelKept DEF Register, pairVars
  <2> QED
    BY <2>1, PairsUnseen
<1>4. CASE Restart
  <2>1. ps' = ps /\ pairings' = pairings
    BY <1>4 DEF Restart, pairVars
  <2>2. PICK a \in Adapters : a = adapters[current]
    BY <1>4, CallTyped DEF Restart
  <2>3. Start(a, Stopped(ad[a]), {ad[a].sock})
    BY <1>4, <2>2 DEF Restart
  <2> QED
    BY <2>1, <2>3, StartKept, PairsUnseen
<1>5. CASE Boot \/ UNCHANGED vars
  <2>1. ps' = ps /\ pairings' = pairings /\ owner' = owner
    BY <1>5 DEF Boot, vars, pairVars, socketVars
  <2> QED
    BY <2>1, PairsUnseen DEF Kept
<1>6. CASE StartConfigured
  <2>1. ps' = ps /\ pairings' = pairings /\ Kept
    <3>1. CASE StartChannel(current, {})
      BY <1>6, <3>1, StartChannelKept DEF StartConfigured, pairVars
    <3>2. CASE UNCHANGED socketVars
      BY <1>6, <3>2 DEF StartConfigured, pairVars, socketVars, Kept
    <3> QED
      BY <1>6, <3>1, <3>2 DEF StartConfigured
  <2> QED
    BY <2>1, PairsUnseen
<1>7. CASE PairAgain
  <2>1. ps' = ps /\ pairings' = pairings /\ owner' = owner
    BY <1>7 DEF PairAgain, pairVars
  <2> QED
    BY <2>1, PairsUnseen DEF Kept
<1> QED
  BY <1>1, <1>2, <1>3, <1>4, <1>5, <1>6, <1>7

\* What sockets tell.
LEMMA ToldPairs ==
  ASSUME TInv, PairInv, NEW s \in Sockets,
         Opened(s) \/ OpenFails(s) \/ Accept(s) \/ QR(s)
  PROVE  PairInv'
<1>1. /\ pairings' = pairings
      /\ \A p \in Sessions : /\ ps'[p].timer = ps[p].timer
                             /\ ps'[p].phase \in Shown =>
                                  ps[p].phase \in Shown /\ Owned(p) \subseteq Owned(p)'
  <2>1. CASE Opened(s)
    BY <2>1, OpenedDoes DEF Opened, Owned
  <2>2. CASE OpenFails(s)
    <3>1. net[s] # "free" /\ Leave(s) /\ pairings' = pairings
      BY <2>2 DEF OpenFails, Creating
    <3>2. \A q : q # None => Owned(q)' = Owned(q) \ {s}
      BY <3>1, LeaveDoes, Typed
    <3>3. \A p \in Sessions : /\ ps'[p].timer = ps[p].timer
                              /\ ps'[p].phase = IF p = owner[s] THEN "error" ELSE ps[p].phase
      BY <2>2, OpenFailsDoes
    <3> QED
      BY <3>1, <3>2, <3>3, Apart DEF Owned, Shown
  <2>3. CASE Accept(s)
    BY <2>3, AcceptDoes DEF Accept, Owned, Shown
  <2>4. CASE QR(s)
    BY <2>4, QRDoes DEF QR, Owned, Shown
  <2> QED
    BY <2>1, <2>2, <2>3, <2>4
<1> QED
  BY <1>1, PairsKept, Typed

LEMMA ClosesPairs ==
  ASSUME TInv, PairInv, NEW s \in Sockets, NEW reason,
         AdapterCloses(s, reason) \/ SessionCloses(s, reason)
  PROVE  PairInv'
<1>1. CASE AdapterCloses(s, reason)
  <2>1. PICK a \in Adapters : a = owner[s]
    BY <1>1 DEF AdapterCloses
  <2>2. Leave(s) /\ ps' = ps /\ pairings' = pairings
    BY <1>1 DEF AdapterCloses, pairVars
  <2>3. Kept
    BY <2>1, <2>2, Apart, Typed DEF Kept, Leave, NetOK
  <2> QED
    BY <2>2, <2>3, PairsUnseen
<1>2. CASE SessionCloses(s, reason)
  <2>1. PICK p \in Sessions : p = owner[s]
    BY <1>2 DEF SessionCloses
  <2>2. ps[p] \in Session /\ ps \in [Sessions -> Session] /\ p # None
    BY Typed, Apart
  <2> DEFINE closed == [ps[p] EXCEPT !.sock = None]
             again == [closed EXCEPT !.restarts = @ + 1]
             failed == [closed EXCEPT !.phase = "error"]
  <2>3. /\ net[s] # "free"
        /\ pairings' = pairings
        /\ \/ /\ ps[p].phase \in {"saved", "connected"}
              /\ ps' = [ps EXCEPT ![p] = closed] /\ Leave(s)
           \/ ps' = [ps EXCEPT ![p] = again] /\ owner' = owner
           \/ ps' = [ps EXCEPT ![p] = failed] /\ Leave(s)
    BY <1>2, <2>1, ReasonsOf DEF SessionCloses
  <2>4. /\ closed.timer = ps[p].timer /\ closed.phase = ps[p].phase
        /\ again.timer = ps[p].timer /\ again.phase = ps[p].phase
        /\ failed.timer = ps[p].timer /\ failed.phase = "error"
    BY <2>2 DEF Session
  <2> HIDE DEF closed, again, failed
  <2>5. Leave(s) => \A q : q # None => Owned(q)' = Owned(q) \ {s}
    BY <2>3, LeaveDoes, Typed
  <2>6. ps[p].phase \in {"saved", "connected"} => ps[p].phase \notin Shown
    BY DEF Shown
  <2>7. \A q \in Sessions \ {p} : ps'[q] = ps[q] /\ Owned(q) \subseteq Owned(q)'
    BY <2>1, <2>2, <2>3, <2>5, Apart DEF Owned
  <2>8. /\ ps'[p].timer = ps[p].timer
        /\ ps'[p].phase \in Shown => ps[p].phase \in Shown /\ Owned(p) \subseteq Owned(p)'
    BY <2>2, <2>3, <2>4, <2>6 DEF Owned, Shown
  <2> QED
    BY <2>3, <2>7, <2>8, PairsKept, Typed
<1> QED
  BY <1>1, <1>2

\* cancel() of the session of the current instance: it is in no map any more.
LEMMA CancelledPairs ==
  ASSUME TInv, PairInv, NEW k \in Services, Kept,
         pairings' = [pairings EXCEPT ![k] = None], ps' = Cancelled(k)
  PROVE  PairInv'
<1>1. /\ pairings'[k] = None
      /\ \A j \in Services \ {k} : pairings'[j] = pairings[j]
      /\ \A j \in Services : pairings[j] \in Sessions \cup {None}
  BY Typed
<1>2. \A p \in Sessions : /\ ps'[p].phase = ps[p].phase
                          /\ ps'[p].timer <=> ps[p].timer /\ p # pairings[k]
  BY CancelDoes, Typed
<1>3. \A p \in Sessions : Owned(p) \subseteq Owned(p)'
  BY DEF Kept, Owned
<1>4. \A j \in Services \ {k} : pairings[j] # None => pairings[j] # pairings[k]
  BY DEF TInv, HomeInv
<1>5. ASSUME NEW p \in Sessions, ps'[p].phase \in Shown
      PROVE  /\ ps[p].phase \in Shown /\ Owned(p) \subseteq Owned(p)'
             /\ (\E j \in Services : pairings'[j] = p) => (ps[p].timer => ps'[p].timer)
  <2>1. (\E j \in Services : pairings'[j] = p) => p # pairings[k]
    BY <1>1, <1>4, Apart
  <2> QED
    BY <1>2, <1>3, <1>5, <2>1
<1> QED
  BY <1>1, <1>5, PairsKept

LEMMA ServicePairs ==
  ASSUME TInv, PairInv, Unregister \/ Dispose \/ PairCancel
  PROVE  PairInv'
<1>1. PICK k \in Services : k = current
  BY CallTyped DEF Unregister, Dispose, PairCancel
<1>2. CASE Unregister \/ Dispose
  <2>1. pairings' = [pairings EXCEPT ![k] = None] /\ ps' = Cancelled(k) /\ owner' = owner
    BY <1>1, <1>2 DEF Unregister, Dispose, CloseAll
  <2> QED
    BY <2>1, CancelledPairs DEF Kept
<1>3. CASE PairCancel
  <2>1. PICK a \in Adapters \cup {None} : a = adapters[current]
    BY <1>3, CallTyped DEF PairCancel
  <2>2. pairings' = [pairings EXCEPT ![k] = None] /\ ps' = Cancelled(k)
    BY <1>1, <1>3 DEF PairCancel
  <2>3. owner' = owner \/ (a \in Adapters /\ Start(a, ad[a], PairSock(k)))
    BY <1>1, <1>3, <2>1 DEF PairCancel
  <2>4. Kept
    BY <2>3, StartKept DEF Kept
  <2> QED
    BY <2>2, <2>4, CancelledPairs
<1> QED
  BY <1>2, <1>3

LEMMA PairNewPairs ==
  ASSUME TInv, PairInv, NEW p \in Sessions, PairNew(p) \/ PairReset(p)
  PROVE  PairInv'
<1>1. PICK k \in Services : k = current
  BY CallTyped DEF PairNew, PairReset
<1>2. /\ Unused(p)
      /\ pairings \in [Services -> Sessions \cup {None}]
  BY Typed DEF PairNew, PairReset
<1>3. \A q \in Sessions : /\ Cancelled(k)[q].phase = ps[q].phase
                          /\ Cancelled(k)[q].timer <=> ps[q].timer /\ q # pairings[k]
  BY CancelDoes, Typed
<1>4. \A j \in Services \ {k} : /\ pairings[j] # None => pairings[j] # pairings[k]
                                /\ pairings[j] # p
  BY <1>2 DEF TInv, HomeInv, Unused
<1>5. CASE PairNew(p)
  <2>1. /\ pairings' = [pairings EXCEPT ![k] = p]
        /\ ps' = [Cancelled(k) EXCEPT ![p] = NewSession]
        /\ \E s \in Sockets : Create(s, p, SockOf(adapters[k]) \cup PairSock(k))
    BY <1>1, <1>5 DEF PairNew
  <2>2. /\ \A q \in Sessions \ {p} : Owned(q)' = Owned(q)
        /\ Owned(p)' # {}
    <3>1. PICK s \in Sockets : Create(s, p, SockOf(adapters[k]) \cup PairSock(k))
      BY <2>1
    <3>2. /\ \A q : q # p /\ q # None => Owned(q)' = Owned(q)
          /\ Owned(p)' = Owned(p) \cup {s}
      BY <3>1, CreateDoes, Typed, Apart
    <3> QED
      BY <3>2, Apart
  <2>3. /\ ps'[p].timer = TRUE
        /\ \A q \in Sessions \ {p} : /\ ps'[q].phase = ps[q].phase
                                     /\ ps'[q].timer <=> ps[q].timer /\ q # pairings[k]
    BY <1>3, <2>1, CancelDoes, NewTyped, Typed DEF NewSession
  <2>4. pairings'[k] = p /\ \A j \in Services \ {k} : pairings'[j] = pairings[j]
    BY <1>2, <2>1
  <2>5. PairingBacked'
    BY <2>2, <2>3 DEF PairInv, PairingBacked
  <2>6. ASSUME NEW j \in Services, pairings'[j] # None, ps'[pairings'[j]].phase \in {"connecting", "qr"}
        PROVE  ps'[pairings'[j]].timer
    <3>1. CASE j = k
      BY <2>3, <2>4, <3>1
    <3>2. CASE j # k
      <4>1. PICK q \in Sessions : q = pairings[j] /\ q = pairings'[j]
        BY <1>2, <2>4, <2>6, <3>2
      <4>2. q # p /\ q # pairings[k]
        BY <1>4, <3>2, <4>1, Apart
      <4>3. ps[q].timer
        BY <2>3, <2>6, <4>1, <4>2, Apart DEF PairInv, PairingExpires
      <4> QED
        BY <2>3, <4>1, <4>2, <4>3
    <3> QED
      BY <3>1, <3>2
  <2>7. PairingExpires'
    BY <2>6 DEF PairingExpires
  <2> QED
    BY <2>5, <2>7 DEF PairInv
<1>6. CASE PairReset(p)
  <2> DEFINE begun == [NewSession EXCEPT !.phase = "clearing", !.timer = FALSE]
  <2>1. /\ pairings' = [pairings EXCEPT ![k] = None]
        /\ ps' = [Cancelled(k) EXCEPT ![p] = begun]
        /\ owner' = owner
    BY <1>1, <1>6 DEF PairReset
  <2>2. begun.phase = "clearing"
    BY DEF NewSession
  <2> HIDE DEF begun
  <2>3. /\ ps'[p].phase = "clearing"
        /\ \A q \in Sessions \ {p} : /\ ps'[q].phase = ps[q].phase
                                     /\ ps'[q].timer <=> ps[q].timer /\ q # pairings[k]
    BY <1>3, <2>1, <2>2, CancelDoes, Typed
  <2>4. pairings'[k] = None /\ \A j \in Services \ {k} : pairings'[j] = pairings[j]
    BY <1>2, <2>1
  <2>5. \A q : Owned(q)' = Owned(q)
    BY <2>1 DEF Owned
  <2>6. PairingBacked'
    BY <2>3, <2>5 DEF PairInv, PairingBacked
  <2>7. ASSUME NEW j \in Services, pairings'[j] # None, ps'[pairings'[j]].phase \in {"connecting", "qr"}
        PROVE  ps'[pairings'[j]].timer
    <3>1. PICK q \in Sessions : q = pairings[j] /\ q = pairings'[j] /\ j # k
      BY <1>2, <2>4, <2>7
    <3>2. q # p /\ q # pairings[k]
      BY <1>4, <3>1, Apart
    <3>3. ps[q].timer
      BY <2>3, <2>7, <3>1, <3>2, Apart DEF PairInv, PairingExpires
    <3> QED
      BY <2>3, <3>1, <3>2, <3>3
  <2>8. PairingExpires'
    BY <2>7 DEF PairingExpires
  <2> QED
    BY <2>6, <2>8 DEF PairInv
<1> QED
  BY <1>5, <1>6

LEMMA ClearedPairs ==
  ASSUME TInv, PairInv, NEW p \in Sessions, Cleared(p)
  PROVE  PairInv'
<1>1. PICK k \in Services : k = home[p]
  BY DEF TInv, HomeInv, Cleared
<1>2. /\ pairings' = [pairings EXCEPT ![k] = p] /\ ps' = [ps EXCEPT ![p] = NewSession]
      /\ \E s \in Sockets : Create(s, p, {})
  BY <1>1 DEF Cleared
<1>3. /\ \A q \in Sessions \ {p} : Owned(q)' = Owned(q)
      /\ Owned(p)' # {}
  BY <1>2, CreateDoes, Typed, Apart
<1>4. /\ ps'[p].timer = TRUE /\ \A q \in Sessions \ {p} : ps'[q] = ps[q]
  BY <1>2, Typed DEF NewSession
<1>5. /\ pairings'[k] = p /\ \A j \in Services \ {k} : pairings'[j] = pairings[j]
      /\ \A j \in Services : pairings[j] \in Sessions \cup {None}
  BY <1>2, Typed
<1> QED
  BY <1>3, <1>4, <1>5 DEF PairInv, PairingBacked, PairingExpires

LEMMA QrTimeoutPairs ==
  ASSUME TInv, PairInv, NEW p \in Sessions, QrTimeout(p)
  PROVE  PairInv'
<1>1. /\ home[p] \in Services
      /\ \A t \in Sessions :
           /\ ps'[t].timer <=> ps[t].timer /\ t # p
           /\ ps'[t].phase = IF t = pairings[home[p]] /\ ps[t].phase \notin {"saved", "connected"}
                             THEN "expired" ELSE ps[t].phase
      /\ \A o : Owned(o)' = Owned(o)
  BY QrTimeoutDoes
<1>2. pairings' = pairings
  BY DEF QrTimeout
<1>3. \A k \in Services : pairings[k] \in Sessions \cup {None}
  BY Typed
<1>4. \A k \in Services : pairings[k] = p => home[p] = k
  BY Apart DEF TInv, HomeInv
<1>5. ASSUME NEW t \in Sessions, ps'[t].phase \in Shown
      PROVE  /\ ps[t].phase \in Shown /\ Owned(t) \subseteq Owned(t)'
             /\ (\E k \in Services : pairings'[k] = t) => (ps[t].timer => ps'[t].timer)
  <2>1. ps[t].phase \in Shown /\ t # pairings[home[p]]
    BY <1>1, <1>5 DEF Shown
  <2>2. t = p => \A k \in Services : pairings'[k] # t
    BY <1>2, <1>4, <2>1
  <2> QED
    BY <1>1, <2>1, <2>2
<1> QED
  BY <1>2, <1>3, <1>5, PairsKept

LEMMA PairedPairs ==
  ASSUME TInv, PairInv, NEW s \in Sockets, Paired(s)
  PROVE  PairInv'
<1>1. PICK p \in Sessions : p = owner[s] /\ net[s] = "open"
  BY DEF Paired
<1>2. PICK k \in Services : k = home[p]
  BY <1>1, OwnerTyped
<1>3. PICK a \in Adapters \cup {None} : a = adapters[k]
  BY Typed
<1>4. /\ ps' = [ps EXCEPT ![p].phase = "saved", ![p].timer = FALSE]
      /\ \/ a # None /\ Start(a, Stopped(ad[a]), {ps[p].sock, ad[a].sock})
         \/ StartChannel(k, {ps[p].sock})
         \/ owner' = owner
      /\ pairings' = pairings
  BY <1>1, <1>2, <1>3 DEF Paired
<1>5. Kept
  BY <1>4, StartKept, StartChannelKept DEF Kept
<1>6. \A q \in Sessions : Owned(q) \subseteq Owned(q)'
  BY <1>5 DEF Kept, Owned
<1>7. ps'[p].phase = "saved" /\ \A t \in Sessions \ {p} : ps'[t] = ps[t]
  BY <1>4, SavedSession, Typed
<1> QED
  BY <1>4, <1>6, <1>7, PairsKept, Typed DEF Shown

LEMMA NextPairs == TInv /\ PairInv /\ [Next]_vars => PairInv'
<1> SUFFICES ASSUME TInv, PairInv, [Next]_vars PROVE PairInv'
  OBVIOUS
<1>1. ASSUME NEW s \in Sockets, SocketStep(s) PROVE PairInv'
  <2>1. CASE ReadCreds(s) \/ SaveUnlinked(s) \/ Scan(s) \/ Save(s)
    BY <2>1, UnseenPairs
  <2>2. CASE Opened(s) \/ OpenFails(s) \/ Accept(s) \/ QR(s)
    BY <2>2, ToldPairs
  <2>3. CASE Paired(s)
    BY <2>3, PairedPairs
  <2>4. CASE \E reason \in {"closed", "restart_required", "logged_out"} :
               AdapterCloses(s, reason) \/ SessionCloses(s, reason)
    BY <2>4, ClosesPairs
  <2> QED
    BY <1>1, <2>1, <2>2, <2>3, <2>4 DEF SocketStep
<1>2. CASE \/ \E a \in Adapters : Reconnect(a)
           \/ Register \/ Restart \/ Boot \/ StartConfigured \/ PairAgain \/ UNCHANGED vars
  BY <1>2, UnseenPairs
<1>3. CASE Unregister \/ Dispose \/ PairCancel
  BY <1>3, ServicePairs
<1>4. ASSUME NEW p \in Sessions, PairNew(p) \/ PairReset(p) \/ Cleared(p) \/ QrTimeout(p)
      PROVE  PairInv'
  BY <1>4, PairNewPairs, ClearedPairs, QrTimeoutPairs
<1> QED
  BY <1>1, <1>2, <1>3, <1>4 DEF Next

----------------------------------------------------------------------------
(* The adapters: one at a time is disturbed by a step, the others idle.    *)

\* OneInv, of one adapter.
OneAt(a) == \A s \in Owned(a) :
              /\ net[s] \in Creating => /\ ad[a].sock = None
                                        /\ \A t \in Owned(a) : net[t] \in Creating => t = s
              /\ net[s] \notin Creating \cup {"ending"} => ad[a].sock = s

\* StoppedStaysQuiet, NeverSilentlyDeaf and OneInv, of one adapter.
AdInv(a) == /\ a \in stopped \ loose => Quiet(a)
            /\ a \notin stopped /\ Quiet(a) => ad[a].status = "error" \/ ad[a].needsRepair
            /\ a \notin crossed => OneAt(a)

AllAd == \A a \in Adapters : AdInv(a)

LEMMA AllAdMeans ==
  ASSUME TInv
  PROVE  AllAd <=> StoppedStaysQuiet /\ NeverSilentlyDeaf /\ OneInv
<1>1. stopped \subseteq Adapters
  BY Typed
<1> QED
  BY <1>1 DEF AllAd, AdInv, OneAt, StoppedStaysQuiet, NeverSilentlyDeaf, OneInv

SameHistory(a) == /\ a \in stopped' <=> a \in stopped
                  /\ a \in loose' <=> a \in loose
                  /\ a \in crossed' <=> a \in crossed

Idle(a) == /\ ad'[a] = ad[a] /\ Owned(a)' = Owned(a) /\ SameHistory(a)
           /\ \A s \in Owned(a) : net'[s] = net[s] \/ {net[s], net'[s]} \subseteq Creating

LEMMA IdleKeeps ==
  ASSUME NEW a \in Adapters, AdInv(a), Idle(a)
  PROVE  AdInv(a)'
<1>1. Quiet(a)' <=> Quiet(a)
  BY DEF Quiet, Idle
<1>2. OneAt(a) => OneAt(a)'
  BY DEF OneAt, Idle, Creating
<1> QED
  BY <1>1, <1>2 DEF AdInv, Idle, SameHistory

LEMMA AllIdle ==
  ASSUME AllAd, \A a \in Adapters : Idle(a)
  PROVE  AllAd'
BY IdleKeeps DEF AllAd

\* Whose sockets are in S.
OwnedBy(S, X) == \A s \in Sockets : s \in S => owner[s] \in X

LEMMA SocksOwned ==
  ASSUME TInv
  PROVE  /\ \A a \in Adapters : OwnedBy({ad[a].sock}, {a})
         /\ \A a \in Adapters \cup {None} : OwnedBy(SockOf(a), {a})
         /\ \A p \in Sessions : OwnedBy({ps[p].sock}, Sessions)
         /\ \A k \in Services : OwnedBy(PairSock(k), Sessions)
<1>1. /\ \A a \in Adapters : OwnedBy({ad[a].sock}, {a})
      /\ \A p \in Sessions : OwnedBy({ps[p].sock}, Sessions)
  BY Apart DEF TInv, SockInv, OwnedBy
<1>2. \A k \in Services : OwnedBy(PairSock(k), Sessions)
  BY <1>1, Typed DEF PairSock, OwnedBy
<1>3. \A a \in Adapters \cup {None} : OwnedBy(SockOf(a), {a})
  BY <1>1 DEF SockOf, OwnedBy
<1> QED
  BY <1>1, <1>2, <1>3

\* start() of an adapter that the step asks for, or that was to run.
LEMMA StartAdapters ==
  ASSUME TInv, AllAd, NEW a \in Adapters, NEW r \in Adapter, NEW S, Start(a, r, S),
         a \notin stopped' \ loose',
         \A b \in Adapters \ {a} : /\ b \in stopped' <=> b \in stopped
                                   /\ b \in loose' <=> b \in loose,
         Owned(a) = {} \/ ad[a].sock \in S \cup {r.sock},
         OwnedBy(S \cup {r.sock}, Sessions \cup {a})
  PROVE  AllAd'
<1>1. /\ NetOK' /\ ad' \in [Adapters -> Adapter]
      /\ \A b \in Adapters : b # a => ad'[b] = ad[b] /\ (b \in crossed' <=> b \in crossed)
      /\ ad'[a].sock = None
      /\ \A t \in Sockets : net[t] # "free" =>
           /\ owner'[t] = owner[t]
           /\ net'[t] = IF t \in S \cup {r.sock} THEN "ending" ELSE net[t]
      /\ \A t \in Sockets : net[t] = "free" /\ net'[t] # "free" =>
           net'[t] = "opening" /\ owner'[t] = a
      /\ \A t, u \in Sockets :
           net[t] = "free" /\ net'[t] # "free" /\ net[u] = "free" /\ net'[u] # "free" => t = u
      /\ \A q : q # a /\ q # None => Owned(q)' = Owned(q)
      /\ Owned(a) \subseteq Owned(a)'
      /\ ad'[a].status = "error" \/ Owned(a)' # {}
  BY StartDoes, Typed
<1>2. ASSUME NEW b \in Adapters \ {a} PROVE AdInv(b)'
  <2>1. b # None /\ b \notin Sessions \cup {a}
    BY Apart
  <2>2. \A t \in Owned(b) : net[t] # "free" /\ t \notin S \cup {r.sock}
    BY <2>1, Typed DEF Owned, OwnedBy, NetOK
  <2>3. Idle(b)
    BY <1>1, <2>1, <2>2 DEF Idle, SameHistory, Owned
  <2> QED
    BY <2>3, IdleKeeps DEF AllAd
<1>3. a \notin stopped' /\ Quiet(a)' => ad'[a].status = "error"
  BY <1>1 DEF Quiet
<1>4. ASSUME a \notin crossed' PROVE OneAt(a)'
  <2>1. a # None /\ AdInv(a)
    BY Apart DEF AllAd
  <2>2. ~Starting(a) /\ (Quiet(a) \/ a \notin crossed)
    BY <1>4 DEF Start
  <2>3. \A t \in Owned(a) : /\ net[t] # "free" /\ net[t] \notin Creating
                            /\ t \in S \cup {r.sock} \/ net[t] = "ending"
    <3>1. CASE Owned(a) = {}
      BY <3>1
    <3>2. CASE Owned(a) # {}
      <4>1. OneAt(a) /\ ad[a].sock \in S \cup {r.sock}
        BY <2>1, <2>2, <3>2 DEF AdInv, Quiet
      <4> QED
        BY <2>1, <2>2, <4>1, Typed DEF OneAt, Starting, Owned, NetOK
    <3> QED
      BY <3>1, <3>2
  <2>4. \A t \in Owned(a)' : net'[t] = "ending" \/ (net[t] = "free" /\ net'[t] = "opening")
    <3> SUFFICES ASSUME NEW t \in Owned(a)'
                 PROVE  net'[t] = "ending" \/ (net[t] = "free" /\ net'[t] = "opening")
      OBVIOUS
    <3>1. t \in Sockets /\ owner'[t] = a /\ net'[t] # "free"
      BY <1>1, <2>1 DEF Owned, NetOK
    <3>2. CASE net[t] = "free"
      BY <1>1, <3>1, <3>2
    <3>3. CASE net[t] # "free"
      <4>1. t \in Owned(a)
        BY <1>1, <3>1, <3>3 DEF Owned
      <4> QED
        BY <1>1, <2>3, <3>1, <3>3, <4>1
    <3> QED
      BY <3>2, <3>3
  <2>5. \A t \in Owned(a)' : t \in Sockets
    BY DEF Owned
  <2> QED
    BY <1>1, <2>4, <2>5 DEF OneAt, Creating
<1>5. AdInv(a)'
  BY <1>3, <1>4 DEF AdInv
<1> QED
  BY <1>2, <1>5 DEF AllAd

\* stop() of an adapter, if there is one.
LEMMA HaltAdapters ==
  ASSUME TInv, AllAd, NEW a \in Adapters \cup {None}, NEW S,
         OwnedBy(S, Sessions \cup {a}), SockOf(a) \subseteq S,
         ad' = HaltedAd(a), Halted(a), crossed' = crossed,
         \A b \in Adapters : Owned(b)' = Owned(b),
         \A t \in Sockets : net[t] # "free" => net'[t] = IF t \in S THEN "ending" ELSE net[t]
  PROVE  AllAd'
<1>1. \A b \in Adapters : ad'[b] = IF b = a THEN Stopped(ad[b]) ELSE ad[b]
  BY HaltDoes, Typed
<1>2. \A b \in Adapters : b # a => (b \in stopped' <=> b \in stopped) /\ (b \in loose' <=> b \in loose)
  BY DEF Halted
<1>3. ASSUME NEW b \in Adapters, b # a PROVE AdInv(b)'
  <2>1. b # None /\ b \notin Sessions \cup {a}
    BY <1>3, Apart
  <2>2. \A t \in Owned(b) : net[t] # "free" /\ t \notin S
    BY <2>1, Typed DEF Owned, OwnedBy, NetOK
  <2>3. Idle(b)
    BY <1>1, <1>2, <1>3, <2>2 DEF Idle, SameHistory, Owned
  <2> QED
    BY <2>3, IdleKeeps DEF AllAd
<1>4. ASSUME a \in Adapters PROVE AdInv(a)'
  <2>1. a # None /\ AdInv(a) /\ ad[a].sock \in S
    BY <1>4, Apart DEF AllAd, SockOf
  <2>2. ad'[a].sock = None /\ ad'[a].timer = FALSE
    <3>1. ad[a] \in Adapter /\ ad'[a] = Stopped(ad[a])
      BY <1>1, <1>4, Typed
    <3>2. Stopped(ad[a]).sock = None /\ Stopped(ad[a]).timer = FALSE
      BY <3>1, StoppedDoes
    <3> QED
      BY <3>1, <3>2
  <2>3. a \in stopped' /\ (a \in loose' <=> Owned(a) # {})
    BY <2>1 DEF Halted
  <2>4. a \in stopped' \ loose' => Quiet(a)'
    BY <1>4, <2>2, <2>3 DEF Quiet
  <2>5. \A t \in Owned(a) : /\ t \in Sockets /\ net[t] # "free"
                            /\ net'[t] = IF t \in S THEN "ending" ELSE net[t]
    BY <2>1, Typed DEF Owned, NetOK
  <2>6. OneAt(a) => OneAt(a)'
    BY <1>4, <2>1, <2>2, <2>5 DEF OneAt, Creating
  <2> QED
    BY <2>1, <2>3, <2>4, <2>6 DEF AdInv
<1> QED
  BY <1>3, <1>4 DEF AllAd

\* Sockets of sessions only.
LEMMA EndedIdle ==
  ASSUME TInv, AllAd, ad' = ad, UNCHANGED historyVars,
         \A b \in Adapters : Owned(b)' = Owned(b),
         \A t \in Sockets : owner[t] \in Adapters =>
            net'[t] = net[t] \/ {net[t], net'[t]} \subseteq Creating
  PROVE  AllAd'
<1>1. \A b \in Adapters : Idle(b)
  BY DEF Idle, SameHistory, historyVars, Owned
<1> QED
  BY <1>1, AllIdle

\* A socket of somebody else tells.
LEMMA ToldOther ==
  ASSUME TInv, AllAd, NEW s \in Sockets, NEW b \in Adapters, b # owner[s],
         ad'[b] = ad[b], SameHistory(b),
         \A t \in Sockets : IF owner[t] = owner[s] THEN owner'[t] \in {owner[s], None}
                                                   ELSE owner'[t] = owner[t] /\ net'[t] = net[t]
  PROVE  AdInv(b)'
<1>1. Owned(b)' = Owned(b) /\ \A t \in Owned(b) : net'[t] = net[t]
  BY Apart DEF Owned
<1> QED
  BY <1>1, IdleKeeps DEF Idle, AllAd

\* An adapter with a socket is not one that was left with none.
LEMMA OwnerRuns ==
  ASSUME AllAd, NEW s \in Sockets, NEW a \in Adapters, owner[s] = a
  PROVE  AdInv(a) /\ s \in Owned(a) /\ ~Quiet(a) /\ a \notin stopped \ loose
BY DEF AllAd, AdInv, Quiet, Owned

LEMMA OpenedAdapters ==
  ASSUME TInv, AllAd, NEW s \in Sockets, Opened(s)
  PROVE  AllAd'
<1>1. /\ net' = [net EXCEPT ![s] = "connecting"] /\ net[s] = "fetching"
      /\ UNCHANGED <<owner, historyVars>>
  BY DEF Opened
<1>2. /\ net'[s] = "connecting" /\ \A t \in Sockets \ {s} : net'[t] = net[t]
      /\ \A b : Owned(b)' = Owned(b) /\ SameHistory(b)
  BY <1>1, Typed DEF NetOK, Owned, SameHistory, historyVars
<1>3. \A a \in Adapters : IF a = owner[s] THEN ad'[a].sock = s ELSE ad'[a] = ad[a]
  BY OpenedDoes
<1>4. ASSUME NEW b \in Adapters, b # owner[s] PROVE AdInv(b)'
  BY <1>1, <1>2, <1>3, <1>4, ToldOther
<1>5. ASSUME NEW a \in Adapters, a = owner[s] PROVE AdInv(a)'
  <2>1. AdInv(a) /\ s \in Owned(a) /\ ~Quiet(a) /\ a \notin stopped \ loose
    BY <1>5, OwnerRuns
  <2>2. ~Quiet(a)' /\ a \notin stopped' \ loose'
    BY <1>2, <2>1 DEF Quiet, SameHistory
  <2>3. ASSUME a \notin crossed PROVE OneAt(a)'
    <3>1. OneAt(a) /\ net[s] \in Creating
      BY <1>1, <2>1, <2>3 DEF AdInv, Creating
    <3>2. \A t \in Owned(a) \ {s} : net[t] = "ending"
      BY <2>1, <3>1, Apart DEF OneAt, Owned
    <3> QED
      BY <1>2, <1>3, <1>5, <3>2 DEF OneAt, Owned, Creating
  <2> QED
    BY <1>2, <2>2, <2>3 DEF AdInv, SameHistory
<1> QED
  BY <1>4, <1>5 DEF AllAd

LEMMA OpenFailsAdapters ==
  ASSUME TInv, AllAd, NEW s \in Sockets, OpenFails(s)
  PROVE  AllAd'
<1>1. net[s] \in Creating /\ net[s] # "free" /\ Leave(s) /\ UNCHANGED historyVars
  BY DEF OpenFails, Creating
<1>2. /\ owner'[s] = None
      /\ \A t \in Sockets \ {s} : net'[t] = net[t] /\ owner'[t] = owner[t]
      /\ \A q : q # None => Owned(q)' = Owned(q) \ {s}
  BY <1>1, LeaveDoes, Typed
<1>3. \A a \in Adapters : IF a = owner[s] THEN ad'[a].sock = ad[a].sock /\ Excused(ad'[a])
                                          ELSE ad'[a] = ad[a]
  BY OpenFailsDoes
<1>4. \A b : SameHistory(b)
  BY <1>1 DEF SameHistory, historyVars
<1>5. ASSUME NEW b \in Adapters, b # owner[s] PROVE AdInv(b)'
  BY <1>2, <1>3, <1>4, <1>5, ToldOther
<1>6. ASSUME NEW a \in Adapters, a = owner[s] PROVE AdInv(a)'
  <2>1. AdInv(a) /\ a \notin stopped \ loose /\ a # None
    BY <1>6, OwnerRuns, Apart
  <2>2. Owned(a)' = Owned(a) \ {s} /\ \A t \in Owned(a)' : net'[t] = net[t]
    BY <1>2, <2>1 DEF Owned
  <2>3. OneAt(a) => OneAt(a)'
    BY <1>3, <1>6, <2>2 DEF OneAt
  <2> QED
    BY <1>3, <1>4, <1>6, <2>1, <2>3 DEF AdInv, SameHistory, Excused, Quiet
<1> QED
  BY <1>5, <1>6 DEF AllAd

LEMMA AcceptAdapters ==
  ASSUME TInv, AllAd, NEW s \in Sockets, Accept(s)
  PROVE  AllAd'
<1>1. /\ net' = [net EXCEPT ![s] = "open"] /\ net[s] = "connecting"
      /\ UNCHANGED <<owner, historyVars>>
  BY DEF Accept
<1>2. /\ net'[s] = "open" /\ \A t \in Sockets \ {s} : net'[t] = net[t]
      /\ \A b : Owned(b)' = Owned(b) /\ SameHistory(b)
  BY <1>1, Typed DEF NetOK, Owned, SameHistory, historyVars
<1>3. \A a \in Adapters : IF a = owner[s] THEN ad'[a].sock = ad[a].sock ELSE ad'[a] = ad[a]
  BY AcceptDoes
<1>4. ASSUME NEW b \in Adapters, b # owner[s] PROVE AdInv(b)'
  BY <1>1, <1>2, <1>3, <1>4, ToldOther
<1>5. ASSUME NEW a \in Adapters, a = owner[s] PROVE AdInv(a)'
  <2>1. AdInv(a) /\ s \in Owned(a) /\ ~Quiet(a) /\ a \notin stopped \ loose
    BY <1>5, OwnerRuns
  <2>2. ~Quiet(a)' /\ a \notin stopped' \ loose'
    BY <1>2, <2>1 DEF Quiet, SameHistory
  <2>3. OneAt(a) => OneAt(a)'
    BY <1>1, <1>2, <1>3, <1>5 DEF OneAt, Owned, Creating
  <2> QED
    BY <1>2, <2>1, <2>2, <2>3 DEF AdInv, SameHistory
<1> QED
  BY <1>4, <1>5 DEF AllAd

LEMMA QRAdapters ==
  ASSUME TInv, AllAd, NEW s \in Sockets, QR(s)
  PROVE  AllAd'
<1>1. /\ \A a \in Adapters : IF a = owner[s] THEN ad'[a].sock = None /\ Excused(ad'[a])
                                             ELSE ad'[a] = ad[a]
      /\ \A b : Owned(b)' = Owned(b)
      /\ net[s] = "connecting"
      /\ \A t \in Sockets : net'[t] = IF /\ owner[s] \in Adapters /\ t = ad[owner[s]].sock
                                         /\ net[t] # "free"
                                      THEN "ending" ELSE net[t]
  BY QRDoes
<1>2. /\ UNCHANGED <<stopped, loose, owner>>
      /\ crossed' = IF owner[s] \in Adapters /\ ad[owner[s]].sock # s
                    THEN crossed \cup {owner[s]} ELSE crossed
  BY DEF QR
<1>3. ASSUME NEW b \in Adapters, b # owner[s] PROVE AdInv(b)'
  <2>1. SameHistory(b)
    BY <1>2, <1>3 DEF SameHistory
  <2>2. \A t \in Sockets : owner[t] # owner[s] => net'[t] = net[t]
    BY <1>1, Apart DEF TInv, SockInv
  <2> QED
    BY <1>1, <1>2, <1>3, <2>1, <2>2, ToldOther
<1>4. ASSUME NEW a \in Adapters, a = owner[s] PROVE AdInv(a)'
  <2>1. AdInv(a) /\ s \in Owned(a) /\ a \notin stopped \ loose
    BY <1>4, OwnerRuns
  <2>2. ASSUME a \notin crossed' PROVE OneAt(a)'
    <3>1. OneAt(a) /\ ad[a].sock = s /\ s # None
      BY <1>2, <1>4, <2>1, <2>2, Apart DEF AdInv
    <3>2. \A t \in Owned(a) : t = s \/ net[t] = "ending"
      BY <3>1 DEF OneAt
    <3>3. \A t \in Owned(a) : net'[t] = "ending"
      BY <1>1, <1>4, <3>1, <3>2 DEF Owned
    <3> QED
      BY <1>1, <3>3 DEF OneAt, Creating
  <2> QED
    BY <1>1, <1>2, <1>4, <2>1, <2>2 DEF AdInv, Excused, Quiet
<1> QED
  BY <1>3, <1>4 DEF AllAd

LEMMA AdapterClosesAdapters ==
  ASSUME TInv, AllAd, NEW s \in Sockets, NEW reason, AdapterCloses(s, reason)
  PROVE  AllAd'
<1>1. PICK a \in Adapters : a = owner[s]
  BY DEF AdapterCloses
<1>2. /\ net[s] # "free"
      /\ ad' = [ad EXCEPT ![a] = Disconnected(ad[a], reason)]
      /\ Leave(s)
      /\ crossed' = IF ad[a].sock \notin {s, None} THEN crossed \cup {a} ELSE crossed
      /\ UNCHANGED <<stopped, loose>>
  BY <1>1, ReasonsOf, Typed DEF AdapterCloses
<1>3. /\ owner'[s] = None
      /\ \A t \in Sockets \ {s} : net'[t] = net[t] /\ owner'[t] = owner[t]
      /\ \A q : q # None => Owned(q)' = Owned(q) \ {s}
  BY <1>2, LeaveDoes, Typed
<1>4. /\ ad'[a].sock = None /\ Excused(ad'[a])
      /\ \A b \in Adapters \ {a} : ad'[b] = ad[b]
  BY <1>2, DisconnectedDoes, Typed
<1>5. ASSUME NEW b \in Adapters, b # owner[s] PROVE AdInv(b)'
  <2>1. SameHistory(b) /\ ad'[b] = ad[b]
    BY <1>1, <1>2, <1>4, <1>5 DEF SameHistory
  <2> QED
    BY <1>3, <1>5, <2>1, ToldOther
<1>6. AdInv(a)'
  <2>1. AdInv(a) /\ s \in Owned(a) /\ a \notin stopped \ loose /\ a # None
    BY <1>1, OwnerRuns, Apart
  <2>2. Owned(a)' = Owned(a) \ {s} /\ \A t \in Owned(a)' : net'[t] = net[t]
    BY <1>3, <2>1 DEF Owned
  <2>3. ASSUME a \notin crossed' PROVE OneAt(a)'
    <3>1. OneAt(a) /\ ad[a].sock \in {s, None}
      BY <1>2, <2>1, <2>3 DEF AdInv
    <3>2. \A t \in Owned(a) \ {s} : net[t] \in Creating \cup {"ending"}
      BY <3>1, Apart DEF OneAt, Owned
    <3> QED
      BY <1>4, <2>2, <3>1, <3>2 DEF OneAt
  <2> QED
    BY <1>2, <1>4, <2>1, <2>3 DEF AdInv, Excused, Quiet
<1> QED
  BY <1>1, <1>5, <1>6 DEF AllAd

LEMMA SessionClosesAdapters ==
  ASSUME TInv, AllAd, NEW s \in Sockets, NEW reason, SessionCloses(s, reason)
  PROVE  AllAd'
<1>1. PICK p \in Sessions : p = owner[s]
  BY DEF SessionCloses
<1>2. /\ net[s] # "free" /\ UNCHANGED <<ad, historyVars>>
      /\ \/ Leave(s)
         \/ net' = [net EXCEPT ![s] = "opening"] /\ owner' = owner
  BY <1>1, ReasonsOf DEF SessionCloses
<1>3. /\ owner'[s] \in {p, None}
      /\ \A t \in Sockets \ {s} : net'[t] = net[t] /\ owner'[t] = owner[t]
  BY <1>1, <1>2, LeaveDoes, Typed DEF NetOK
<1>4. ASSUME NEW b \in Adapters PROVE AdInv(b)'
  <2>1. SameHistory(b) /\ ad'[b] = ad[b] /\ b # owner[s]
    BY <1>1, <1>2, Apart DEF SameHistory, historyVars
  <2> QED
    BY <1>1, <1>3, <2>1, ToldOther
<1> QED
  BY <1>4 DEF AllAd

\* Steps in which only sockets of sessions are made, ended or told something.
LEMMA IdleAdapters ==
  ASSUME TInv, AllAd,
         \/ \E s \in Sockets : ReadCreds(s) \/ SaveUnlinked(s) \/ Scan(s) \/ Save(s)
         \/ \E p \in Sessions : Cleared(p) \/ QrTimeout(p)
         \/ Boot \/ UNCHANGED vars
  PROVE  AllAd'
<1>1. ASSUME NEW s \in Sockets, ReadCreds(s) PROVE AllAd'
  <2>1. /\ ad' = ad /\ UNCHANGED historyVars /\ owner' = owner
        /\ net[s] = "opening" /\ net'[s] = "fetching"
        /\ \A t \in Sockets \ {s} : net'[t] = net[t]
    BY <1>1, Typed DEF ReadCreds, NetOK
  <2> QED
    BY <2>1, EndedIdle DEF Owned, Creating
<1>2. ASSUME NEW s \in Sockets, Scan(s) PROVE AllAd'
  <2>1. /\ ad' = ad /\ UNCHANGED historyVars /\ owner' = owner
        /\ owner[s] \notin Adapters
        /\ \A t \in Sockets \ {s} : net'[t] = net[t]
    BY <1>2, Apart, Typed DEF Scan, NetOK
  <2> QED
    BY <2>1, EndedIdle DEF Owned
<1>3. CASE (\E s \in Sockets : SaveUnlinked(s) \/ Save(s)) \/ Boot \/ UNCHANGED vars
  <2>1. ad' = ad /\ UNCHANGED historyVars /\ owner' = owner /\ net' = net
    BY <1>3 DEF SaveUnlinked, Save, Boot, vars, socketVars
  <2> QED
    BY <2>1, EndedIdle DEF Owned
<1>4. ASSUME NEW p \in Sessions, Cleared(p) PROVE AllAd'
  <2>1. PICK s \in Sockets : Create(s, p, {})
    BY <1>4 DEF Cleared
  <2>2. /\ net[s] = "free"
        /\ \A t \in Sockets \ {s} : net'[t] = net[t]
        /\ \A q : q # p /\ q # None => Owned(q)' = Owned(q)
    BY <2>1, CreateDoes, Apart, Typed
  <2>3. owner[s] \notin Adapters
    BY <2>2, Apart, Typed DEF NetOK
  <2>4. ad' = ad /\ UNCHANGED historyVars
    BY <1>4 DEF Cleared
  <2> QED
    BY <2>2, <2>3, <2>4, Apart, EndedIdle
<1>5. ASSUME NEW p \in Sessions, QrTimeout(p) PROVE AllAd'
  <2>1. PICK k \in Services : k = home[p]
    BY <1>5, QrTimeoutDoes
  <2>2. /\ ad' = ad /\ UNCHANGED historyVars /\ owner' = owner
        /\ \/ net' = net
           \/ pairings[k] # None /\ net' = Ended({ps[pairings[k]].sock})
    BY <1>5, <2>1 DEF QrTimeout
  <2>3. pairings[k] # None => OwnedBy({ps[pairings[k]].sock}, Sessions)
    BY SocksOwned, Typed
  <2>4. \A t \in Sockets : owner[t] \in Adapters => net'[t] = net[t]
    BY <2>2, <2>3, Apart DEF OwnedBy, Ended
  <2> QED
    BY <2>2, <2>4, EndedIdle DEF Owned
<1> QED
  BY <1>1, <1>2, <1>3, <1>4, <1>5

LEMMA ReconnectAdapters ==
  ASSUME TInv, AllAd, NEW a \in Adapters, Reconnect(a)
  PROVE  AllAd'
<1> DEFINE r == [ad[a] EXCEPT !.timer = FALSE]
<1>1. Start(a, r, {}) /\ ad[a].timer /\ UNCHANGED <<stopped, loose>>
  BY DEF Reconnect
<1>2. r \in Adapter /\ r.sock = ad[a].sock
  BY Typed DEF Adapter
<1> HIDE DEF r
<1>3. a \notin stopped' \ loose'
  BY <1>1 DEF AllAd, AdInv, Quiet
<1>4. OwnedBy({} \cup {r.sock}, Sessions \cup {a})
  BY <1>2, SocksOwned DEF OwnedBy
<1> QED
  BY <1>1, <1>2, <1>3, <1>4, StartAdapters

LEMMA StartChannelAdapters ==
  ASSUME TInv, AllAd, NEW k, NEW S, OwnedBy(S, Sessions), StartChannel(k, S)
  PROVE  AllAd'
<1>1. PICK a \in Adapters : Quiet(a) /\ Asked(a) /\ Start(a, NewAdapter, S)
  BY DEF StartChannel
<1>2. NewAdapter \in Adapter /\ NewAdapter.sock = None
  BY NewTyped DEF NewAdapter
<1>3. /\ a \notin stopped'
      /\ \A b \in Adapters \ {a} : /\ b \in stopped' <=> b \in stopped
                                   /\ b \in loose' <=> b \in loose
  BY <1>1 DEF Asked
<1>4. Owned(a) = {} /\ OwnedBy(S \cup {NewAdapter.sock}, Sessions \cup {a})
  BY <1>1, <1>2, Apart DEF Quiet, OwnedBy
<1> QED
  BY <1>1, <1>2, <1>3, <1>4, StartAdapters

LEMMA RestartAdapters ==
  ASSUME TInv, AllAd, NEW a \in Adapters, NEW S, OwnedBy(S, Sessions \cup {a}), ad[a].sock \in S,
         Asked(a), Start(a, Stopped(ad[a]), S)
  PROVE  AllAd'
<1>1. Stopped(ad[a]) \in Adapter /\ Stopped(ad[a]).sock = None
  BY StoppedDoes, Typed
<1>2. /\ a \notin stopped'
      /\ \A b \in Adapters \ {a} : /\ b \in stopped' <=> b \in stopped
                                   /\ b \in loose' <=> b \in loose
  BY DEF Asked
<1>3. OwnedBy(S \cup {Stopped(ad[a]).sock}, Sessions \cup {a})
  BY <1>1, Apart DEF OwnedBy
<1> QED
  BY <1>1, <1>2, <1>3, StartAdapters

LEMMA StartingAdapters ==
  ASSUME TInv, AllAd, Register \/ Restart \/ StartConfigured
  PROVE  AllAd'
<1>1. OwnedBy({}, Sessions)
  BY DEF OwnedBy
<1>2. CASE Register
  BY <1>1, <1>2, StartChannelAdapters DEF Register
<1>3. CASE Restart
  <2>1. PICK a \in Adapters : a = adapters[current]
    BY <1>3, CallTyped DEF Restart
  <2>2. Asked(a) /\ Start(a, Stopped(ad[a]), {ad[a].sock})
    BY <1>3, <2>1 DEF Restart
  <2>3. OwnedBy({ad[a].sock}, Sessions \cup {a})
    BY SocksOwned DEF OwnedBy
  <2> QED
    BY <2>2, <2>3, RestartAdapters
<1>4. CASE StartConfigured
  <2>1. CASE StartChannel(current, {})
    BY <1>1, <2>1, StartChannelAdapters
  <2>2. CASE UNCHANGED <<adapters, ad, socketVars, stopped, loose, crossed>>
    <3>1. \A b \in Adapters : Idle(b)
      BY <2>2 DEF Idle, SameHistory, Owned, socketVars
    <3> QED
      BY <3>1, AllIdle
  <2> QED
    BY <1>4, <2>1, <2>2 DEF StartConfigured
<1> QED
  BY <1>2, <1>3, <1>4

LEMMA HaltingAdapters ==
  ASSUME TInv, AllAd,
         Unregister \/ Dispose \/ PairAgain \/ \E p \in Sessions : PairNew(p) \/ PairReset(p)
  PROVE  AllAd'
<1>1. PICK k \in Services : k = current
  BY CallTyped DEF Unregister, Dispose, PairAgain, PairNew, PairReset
<1>2. PICK a \in Adapters \cup {None} : a = adapters[current]
  BY CallTyped DEF Unregister, Dispose, PairAgain, PairNew, PairReset
<1>3. /\ OwnedBy(SockOf(a), Sessions \cup {a})
      /\ OwnedBy(SockOf(a) \cup PairSock(k), Sessions \cup {a})
      /\ OwnedBy(PairSock(k) \cup SockOf(a), Sessions \cup {a})
  BY SocksOwned DEF OwnedBy
<1>4. ad' = HaltedAd(a) /\ Halted(a) /\ crossed' = crossed
  BY <1>2 DEF Unregister, Dispose, CloseAll, PairAgain, PairNew, PairReset
<1>5. ASSUME NEW S, net' = Ended(S), owner' = owner
      PROVE  /\ \A b \in Adapters : Owned(b)' = Owned(b)
             /\ \A t \in Sockets : net[t] # "free" => net'[t] = IF t \in S THEN "ending" ELSE net[t]
  BY <1>5 DEF Owned, Ended
<1>6. CASE Unregister \/ Dispose
  <2>1. net' = Ended(PairSock(k) \cup SockOf(a)) /\ owner' = owner
    BY <1>1, <1>2, <1>6 DEF Unregister, Dispose, CloseAll
  <2> QED
    BY <1>3, <1>4, <1>5, <2>1, HaltAdapters
<1>7. CASE PairAgain
  <2>1. net' = Ended(SockOf(a)) /\ owner' = owner
    BY <1>2, <1>7 DEF PairAgain
  <2> QED
    BY <1>3, <1>4, <1>5, <2>1, HaltAdapters
<1>8. ASSUME NEW p \in Sessions, PairReset(p) PROVE AllAd'
  <2>1. net' = Ended(SockOf(a) \cup PairSock(k)) /\ owner' = owner
    BY <1>1, <1>2, <1>8 DEF PairReset
  <2> QED
    BY <1>3, <1>4, <1>5, <2>1, HaltAdapters
<1>9. ASSUME NEW p \in Sessions, PairNew(p) PROVE AllAd'
  <2>1. PICK s \in Sockets : Create(s, p, SockOf(a) \cup PairSock(k))
    BY <1>1, <1>2, <1>9 DEF PairNew
  <2>2. /\ net[s] = "free"
        /\ \A t \in Sockets \ {s} :
             net'[t] = IF t \in SockOf(a) \cup PairSock(k) /\ net[t] # "free" THEN "ending" ELSE net[t]
        /\ \A q : q # p /\ q # None => Owned(q)' = Owned(q)
    BY <2>1, CreateDoes, Apart, Typed
  <2>3. \A b \in Adapters : Owned(b)' = Owned(b)
    BY <2>2, Apart
  <2>4. \A t \in Sockets : net[t] # "free" =>
          net'[t] = IF t \in SockOf(a) \cup PairSock(k) THEN "ending" ELSE net[t]
    BY <2>2
  <2> QED
    BY <1>3, <1>4, <2>3, <2>4, HaltAdapters
<1> QED
  BY <1>6, <1>7, <1>8, <1>9

LEMMA PairCancelAdapters ==
  ASSUME TInv, AllAd, PairCancel
  PROVE  AllAd'
<1>1. PICK k \in Services : k = current
  BY CallTyped DEF PairCancel
<1>2. PICK a \in Adapters \cup {None} : a = adapters[current]
  BY CallTyped DEF PairCancel
<1>3. OwnedBy(PairSock(k), Sessions)
  BY SocksOwned
<1>4. CASE a # None
  <2>1. a \in Adapters /\ Asked(a) /\ Start(a, ad[a], PairSock(k)) /\ ad[a] \in Adapter
    BY <1>1, <1>2, <1>4, Typed DEF PairCancel
  <2>2. /\ a \notin stopped'
        /\ \A b \in Adapters \ {a} : /\ b \in stopped' <=> b \in stopped
                                     /\ b \in loose' <=> b \in loose
    BY <2>1 DEF Asked
  <2>3. OwnedBy(PairSock(k) \cup {ad[a].sock}, Sessions \cup {a})
    BY <1>3, <2>1, SocksOwned DEF OwnedBy
  <2> QED
    BY <2>1, <2>2, <2>3, StartAdapters
<1>5. CASE a = None
  <2>1. net' = Ended(PairSock(k)) /\ UNCHANGED <<ad, owner, loaded, stopped, loose, crossed>>
    BY <1>1, <1>2, <1>5 DEF PairCancel
  <2>2. \A t \in Sockets : owner[t] \in Adapters => net'[t] = net[t]
    BY <1>3, <2>1, Apart DEF OwnedBy, Ended
  <2>3. \A b \in Adapters : Idle(b)
    BY <2>1, <2>2 DEF Idle, SameHistory, Owned
  <2> QED
    BY <2>3, AllIdle
<1> QED
  BY <1>4, <1>5

LEMMA PairedAdapters ==
  ASSUME TInv, AllAd, NEW s \in Sockets, Paired(s)
  PROVE  AllAd'
<1>1. PICK p \in Sessions : p = owner[s] /\ net[s] = "open"
  BY DEF Paired
<1>2. PICK k \in Services : k = home[p]
  BY <1>1, OwnerTyped
<1>3. PICK a \in Adapters \cup {None} : a = adapters[k]
  BY Typed
<1>4. \/ a # None /\ Asked(a) /\ Start(a, Stopped(ad[a]), {ps[p].sock, ad[a].sock})
      \/ StartChannel(k, {ps[p].sock})
      \/ net' = Ended({ps[p].sock}) /\ UNCHANGED <<adapters, ad, owner, loaded, historyVars>>
  BY <1>1, <1>2, <1>3 DEF Paired
<1>5. OwnedBy({ps[p].sock}, Sessions)
  BY SocksOwned
<1>6. CASE a # None /\ Asked(a) /\ Start(a, Stopped(ad[a]), {ps[p].sock, ad[a].sock})
  <2>1. a \in Adapters
    BY <1>6
  <2>2. OwnedBy({ps[p].sock, ad[a].sock}, Sessions \cup {a})
    BY <1>5, <2>1, SocksOwned DEF OwnedBy
  <2> QED
    BY <1>6, <2>1, <2>2, RestartAdapters
<1>7. CASE StartChannel(k, {ps[p].sock})
  BY <1>5, <1>7, StartChannelAdapters
<1>8. CASE net' = Ended({ps[p].sock}) /\ UNCHANGED <<adapters, ad, owner, loaded, historyVars>>
  <2>1. \A t \in Sockets : owner[t] \in Adapters => net'[t] = net[t]
    BY <1>5, <1>8, Apart DEF OwnedBy, Ended
  <2> QED
    BY <1>8, <2>1, EndedIdle DEF Owned
<1> QED
  BY <1>4, <1>6, <1>7, <1>8

LEMMA NextAdapters == TInv /\ AllAd /\ [Next]_vars => AllAd'
<1> SUFFICES ASSUME TInv, AllAd, [Next]_vars PROVE AllAd'
  OBVIOUS
<1>1. ASSUME NEW s \in Sockets, SocketStep(s) PROVE AllAd'
  <2>1. CASE ReadCreds(s) \/ SaveUnlinked(s) \/ Scan(s) \/ Save(s)
    BY <2>1, IdleAdapters
  <2>2. CASE Opened(s) \/ OpenFails(s) \/ Accept(s) \/ QR(s)
    BY <2>2, OpenedAdapters, OpenFailsAdapters, AcceptAdapters, QRAdapters
  <2>3. CASE Paired(s)
    BY <2>3, PairedAdapters
  <2>4. CASE \E reason \in {"closed", "restart_required", "logged_out"} :
               AdapterCloses(s, reason) \/ SessionCloses(s, reason)
    BY <2>4, AdapterClosesAdapters, SessionClosesAdapters
  <2> QED
    BY <1>1, <2>1, <2>2, <2>3, <2>4 DEF SocketStep
<1>2. CASE (\E a \in Adapters : Reconnect(a)) \/ Boot \/ UNCHANGED vars
  BY <1>2, ReconnectAdapters, IdleAdapters
<1>3. CASE Register \/ Restart \/ StartConfigured
  BY <1>3, StartingAdapters
<1>4. CASE Unregister \/ Dispose \/ PairAgain
  BY <1>4, HaltingAdapters
<1>5. CASE PairCancel
  BY <1>5, PairCancelAdapters
<1>6. ASSUME NEW p \in Sessions, PairNew(p) \/ PairReset(p) \/ Cleared(p) \/ QrTimeout(p)
      PROVE  AllAd'
  BY <1>6, HaltingAdapters, IdleAdapters
<1> QED
  BY <1>1, <1>2, <1>3, <1>4, <1>5, <1>6 DEF Next

----------------------------------------------------------------------------
(* The configuration and the maps of the service agree.                    *)

LEMMA MapsUnseen ==
  ASSUME MapInv, UNCHANGED <<serviceVars, entryVars, overlapped>>,
         \A a \in stopped \ stopped' : \E k \in Services : adapters[k] = a
  PROVE  MapInv'
BY DEF MapInv, serviceVars

\* Steps that leave the registry alone, and start adapters that are in a map only.
LEMMA UnseenMaps ==
  ASSUME TInv, MapInv,
         \/ \E s \in Sockets : ReadCreds(s) \/ Accept(s) \/ QR(s) \/ SaveUnlinked(s) \/ Scan(s) \/ Save(s)
         \/ \E s \in Sockets : \E reason : AdapterCloses(s, reason) \/ SessionCloses(s, reason)
         \/ \E a \in Adapters : Reconnect(a)
         \/ Restart \/ PairAgain \/ PairCancel
         \/ \E p \in Sessions : PairNew(p) \/ PairReset(p) \/ Cleared(p) \/ QrTimeout(p)
         \/ UNCHANGED vars
  PROVE  MapInv'
<1>1. CASE \/ \E s \in Sockets : ReadCreds(s) \/ Accept(s) \/ QR(s) \/ SaveUnlinked(s) \/ Scan(s) \/ Save(s)
           \/ \E s \in Sockets : \E reason : AdapterCloses(s, reason) \/ SessionCloses(s, reason)
           \/ \E a \in Adapters : Reconnect(a)
           \/ \E p \in Sessions : Cleared(p) \/ QrTimeout(p)
           \/ UNCHANGED vars
  <2>1. UNCHANGED <<serviceVars, entryVars, overlapped>> /\ stopped' = stopped
    BY <1>1 DEF ReadCreds, Accept, QR, SaveUnlinked, Scan, Save, AdapterCloses, SessionCloses,
                Reconnect, Cleared, QrTimeout, vars, diskVars, historyVars
  <2> QED
    BY <2>1, MapsUnseen
<1>2. CASE PairAgain \/ \E p \in Sessions : PairNew(p) \/ PairReset(p)
  <2>1. UNCHANGED <<serviceVars, entryVars, overlapped>> /\ \E a : Halted(a)
    BY <1>2 DEF PairAgain, PairNew, PairReset, diskVars
  <2>2. stopped \subseteq stopped'
    BY <2>1 DEF Halted
  <2> QED
    BY <2>1, <2>2, MapsUnseen
<1>3. CASE Restart \/ PairCancel
  <2>1. current \in Services
    BY <1>3, CallTyped DEF Restart, PairCancel
  <2>2. /\ UNCHANGED <<serviceVars, entryVars, overlapped>>
        /\ Asked(adapters[current]) \/ stopped' = stopped
    BY <1>3 DEF Restart, PairCancel, diskVars
  <2>3. \A a \in stopped \ stopped' : a = adapters[current]
    BY <2>2 DEF Asked
  <2> QED
    BY <2>1, <2>2, <2>3, MapsUnseen
<1> QED
  BY <1>1, <1>2, <1>3

\* A start() that a register waits for returns.
LEMMA PersistMaps ==
  ASSUME TInv, MapInv, NEW s \in Sockets, Opened(s) \/ OpenFails(s)
  PROVE  MapInv'
<1>1. /\ registering' = registering \ {s}
      /\ UNCHANGED <<current, service, configured, adapters, historyVars>>
  BY DEF Opened, OpenFails, Persist
<1>2. UNCHANGED <<current, service, configured, adapters, stopped, overlapped>>
  BY <1>1 DEF historyVars
<1>3. overlapped \in BOOLEAN /\ registered \in BOOLEAN /\ disabled \in BOOLEAN
  BY Typed
<1>4. CASE s \in registering
  <2>1. registered' /\ registering # {} /\ registering' \subseteq registering
    BY <1>1, <1>4, PersistTyped DEF Opened, OpenFails
  <2> QED
    BY <1>2, <1>3, <2>1 DEF MapInv
<1>5. CASE s \notin registering
  <2>1. registering' = registering /\ UNCHANGED entryVars
    BY <1>1, <1>5, PersistTyped DEF Opened, OpenFails
  <2> QED
    BY <1>2, <1>3, <2>1 DEF MapInv
<1> QED
  BY <1>4, <1>5

\* A new adapter takes its place in the map.
LEMMA StartChannelMaps ==
  ASSUME TInv, NEW k \in Services, NEW S, StartChannel(k, S)
  PROVE  /\ adapters'[k] # None
         /\ \A j \in Services \ {k} : adapters'[j] = adapters[j]
         /\ \A b \in stopped \ stopped' : adapters'[k] = b
<1>1. PICK a \in Adapters : adapters' = [adapters EXCEPT ![k] = a] /\ Asked(a)
  BY DEF StartChannel
<1> QED
  BY <1>1, Apart, Typed DEF Asked

LEMMA RegisterMaps ==
  ASSUME TInv, MapInv, Register
  PROVE  MapInv'
<1>1. PICK k \in Services : k = current
  BY CallTyped DEF Register
<1>2. /\ adapters[k] = None /\ StartChannel(k, {})
      /\ UNCHANGED <<creds, current, service, configured>>
      /\ registering' = registering \cup {s \in Sockets : net[s] = "free" /\ net'[s] = "opening"}
      /\ registered' <=> registered \/ creds = "missing"
      /\ AddEntry(creds = "missing")
      /\ overlapped' <=> overlapped \/ service # "up"
  BY <1>1, Typed DEF Register, AddEntry
<1>3. /\ adapters'[k] # None
      /\ \A j \in Services \ {k} : adapters'[j] = adapters[j]
      /\ \A b \in stopped \ stopped' : adapters'[k] = b
  BY <1>2, StartChannelMaps
<1>4. creds # "missing" => registering' # {}
  <2>1. PICK a \in Adapters : Start(a, NewAdapter, {})
    BY <1>2 DEF StartChannel
  <2>2. creds' # "missing" => \E t \in Sockets : net[t] = "free" /\ net'[t] = "opening"
    BY <2>1, NewTyped, StartDoes, Typed
  <2> QED
    BY <1>2, <2>2
<1>5. SUFFICES ASSUME ~overlapped' PROVE MapInv'
  BY DEF MapInv
<1>6. /\ ~overlapped /\ service = "up" /\ service' = "up" /\ current' = k
      /\ \A j \in Services : adapters[j] = None
      /\ \A a \in Adapters : a \in stopped
  BY <1>1, <1>2, <1>5, Apart DEF MapInv
<1>7. registering' = {} => registered'
  BY <1>2, <1>4
<1>8. \A a \in Adapters : (\A j \in Services : adapters'[j] # a) => a \in stopped'
  BY <1>3, <1>6
<1> QED
  BY <1>3, <1>6, <1>7, <1>8 DEF MapInv

LEMMA CloseAllMaps ==
  ASSUME TInv, MapInv, Unregister \/ Dispose
  PROVE  MapInv'
<1>1. PICK k \in Services : k = current
  BY CallTyped DEF Unregister, Dispose
<1>2. PICK a \in Adapters \cup {None} : a = adapters[k]
  BY Typed
<1>3. /\ adapters' = [adapters EXCEPT ![k] = None] /\ Halted(a)
      /\ UNCHANGED <<current, configured, registering>>
      /\ service # "disposed"
      /\ \/ /\ registered' = FALSE /\ service' = service
            /\ overlapped' <=> overlapped \/ registering # {} \/ service = "booting"
         \/ /\ service' = "disposed" /\ registered' = registered
            /\ overlapped' <=> overlapped \/ registering # {}
  BY <1>1, <1>2 DEF Unregister, Dispose, CloseAll, Call
<1>4. /\ adapters'[k] = None /\ \A j \in Services \ {k} : adapters'[j] = adapters[j]
      /\ stopped' = stopped \cup ({a} \ {None})
  BY <1>3, Typed DEF Halted
<1>5. SUFFICES ASSUME ~overlapped' PROVE MapInv'
  BY DEF MapInv
<1>6. ~overlapped /\ registering = {} /\ (service' = "up" \/ service' = "disposed")
  BY <1>3, <1>5, Typed
<1>7. \A j \in Services : adapters'[j] = None
  BY <1>1, <1>4, <1>6 DEF MapInv
<1>8. \A b \in Adapters : b \in stopped'
  <2>1. \A b \in Adapters : b # a => \A j \in Services : adapters[j] # b
    BY <1>1, <1>2, <1>6, Apart DEF MapInv
  <2> QED
    BY <1>4, <1>6, <2>1, Apart DEF MapInv
<1>9. service' = "up" => ~registered'
  BY <1>3
<1> QED
  BY <1>1, <1>3, <1>6, <1>7, <1>8, <1>9 DEF MapInv

LEMMA BootMaps ==
  ASSUME TInv, MapInv, Boot
  PROVE  MapInv'
<1>1. /\ service = "disposed" /\ current' = current + 1 /\ service' = "booting"
      /\ configured' = (registered /\ ~disabled)
      /\ UNCHANGED <<adapters, registering, entryVars, overlapped, stopped>>
      /\ current \in 0 .. MaxServices
  BY Typed DEF Boot, diskVars, historyVars
<1>2. SUFFICES ASSUME ~overlapped' PROVE MapInv'
  BY DEF MapInv
<1>3. /\ registering = {} /\ \A k \in Services : adapters[k] = None
      /\ \A a \in Adapters : a \in stopped
  BY <1>1, <1>2, Apart DEF MapInv
<1> QED
  BY <1>1, <1>2, <1>3 DEF MapInv

LEMMA StartConfiguredMaps ==
  ASSUME TInv, MapInv, StartConfigured
  PROVE  MapInv'
<1>1. PICK k \in Services : k = current
  BY Typed DEF StartConfigured
<1>2. /\ service = "booting" /\ service' = "up" /\ current' = current
      /\ UNCHANGED <<configured, registering, entryVars>>
      /\ overlapped' <=> overlapped \/ (configured /\ adapters[k] # None)
      /\ \/ configured /\ StartChannel(k, {})
         \/ ~configured /\ adapters' = adapters /\ stopped' = stopped
  BY <1>1 DEF StartConfigured, diskVars
<1>3. SUFFICES ASSUME ~overlapped' PROVE MapInv'
  BY DEF MapInv
<1>4. /\ registering = {} /\ \A j \in Services : adapters[j] = None
      /\ configured <=> registered /\ ~disabled
      /\ \A a \in Adapters : a \in stopped
  BY <1>1, <1>2, <1>3, Apart DEF MapInv
<1>5. CASE configured /\ StartChannel(k, {})
  <2>1. /\ adapters'[k] # None
        /\ \A j \in Services \ {k} : adapters'[j] = adapters[j]
        /\ \A b \in stopped \ stopped' : adapters'[k] = b
    BY <1>5, StartChannelMaps
  <2> QED
    BY <1>1, <1>2, <1>4, <1>5, <2>1 DEF MapInv
<1>6. CASE ~configured /\ adapters' = adapters /\ stopped' = stopped
  BY <1>1, <1>2, <1>4, <1>6 DEF MapInv
<1> QED
  BY <1>2, <1>5, <1>6

LEMMA PairedMaps ==
  ASSUME TInv, MapInv, NEW s \in Sockets, Paired(s)
  PROVE  MapInv'
<1>1. PICK p \in Sessions : p = owner[s] /\ net[s] = "open"
  BY DEF Paired
<1>2. PICK k \in Services : k = home[p]
  BY <1>1, OwnerTyped
<1>3. UNCHANGED <<current, service, configured, registering, entryVars>>
  BY DEF Paired
<1>4. CASE UNCHANGED <<adapters, overlapped>> /\ (stopped' = stopped \/ Asked(adapters[k]))
  BY <1>3, <1>4, MapsUnseen DEF Asked, serviceVars
<1>5. CASE /\ adapters[k] = None /\ registered /\ StartChannel(k, {ps[p].sock})
           /\ overlapped' <=> overlapped \/ k # current \/ service # "up"
  <2>1. SUFFICES ASSUME ~overlapped' PROVE MapInv'
    BY DEF MapInv
  <2>2. ~overlapped /\ k = current /\ service = "up"
    BY <1>5, <2>1
  <2>3. /\ adapters'[k] # None
        /\ \A j \in Services \ {k} : adapters'[j] = adapters[j]
        /\ \A b \in stopped \ stopped' : adapters'[k] = b
    BY <1>5, StartChannelMaps
  <2>4. \A a \in Adapters : (\A j \in Services : adapters'[j] # a) => a \in stopped'
    BY <1>5, <2>2, <2>3, Apart DEF MapInv
  <2> QED
    BY <1>3, <1>5, <2>2, <2>3, <2>4 DEF MapInv
<1>6. \/ UNCHANGED <<adapters, overlapped>> /\ (stopped' = stopped \/ Asked(adapters[k]))
      \/ /\ adapters[k] = None /\ registered /\ StartChannel(k, {ps[p].sock})
         /\ overlapped' <=> overlapped \/ k # current \/ service # "up"
  BY <1>1, <1>2 DEF Paired, historyVars
<1> QED
  BY <1>4, <1>5, <1>6

LEMMA NextMaps == TInv /\ MapInv /\ [Next]_vars => MapInv'
<1> SUFFICES ASSUME TInv, MapInv, [Next]_vars PROVE MapInv'
  OBVIOUS
<1>1. ASSUME NEW s \in Sockets, SocketStep(s) PROVE MapInv'
  BY <1>1, UnseenMaps, PersistMaps, PairedMaps DEF SocketStep
<1>2. CASE \/ \E a \in Adapters : Reconnect(a)
           \/ Restart \/ PairAgain \/ PairCancel \/ UNCHANGED vars
  BY <1>2, UnseenMaps
<1>3. CASE Register \/ Unregister \/ Dispose \/ Boot \/ StartConfigured
  BY <1>3, RegisterMaps, CloseAllMaps, BootMaps, StartConfiguredMaps
<1>4. ASSUME NEW p \in Sessions, PairNew(p) \/ PairReset(p) \/ Cleared(p) \/ QrTimeout(p)
      PROVE  MapInv'
  BY <1>4, UnseenMaps
<1> QED
  BY <1>1, <1>2, <1>3, <1>4 DEF Next

----------------------------------------------------------------------------
(* The theorems.                                                           *)

LEMMA InitInv == Init => IInv
<1> SUFFICES ASSUME Init PROVE IInv
  OBVIOUS
<1>1. TInv
  BY InitTyped
<1>2. AllAd
  <2>1. \A a \in Adapters : ~ad[a].timer /\ Owned(a) = {} /\ a \in stopped
    BY Apart DEF Init, NewAdapter, Owned
  <2> QED
    BY <2>1 DEF AllAd, AdInv, OneAt, Quiet
<1>3. MapInv
  BY DEF Init, MapInv
<1>4. PairInv
  <2>1. \A p \in Sessions : ps[p].phase = "idle"
    BY DEF Init, NewSession
  <2>2. \A k \in Services : pairings[k] = None
    BY DEF Init
  <2> QED
    BY <2>1, <2>2 DEF PairInv, PairingBacked, PairingExpires
<1> QED
  BY <1>1, <1>2, <1>3, <1>4, AllAdMeans DEF IInv, TInv, PairInv

LEMMA NextInv == IInv /\ [Next]_vars => IInv'
<1> SUFFICES ASSUME IInv, [Next]_vars PROVE IInv'
  OBVIOUS
<1>1. TInv /\ MapInv /\ PairInv
  BY DEF IInv, TInv, PairInv
<1>2. AllAd
  BY <1>1, AllAdMeans DEF IInv
<1>3. TInv' /\ AllAd' /\ MapInv' /\ PairInv'
  BY <1>1, <1>2, NextTyped, NextAdapters, NextMaps, NextPairs
<1>4. TInv' /\ AllAd' => (StoppedStaysQuiet /\ NeverSilentlyDeaf /\ OneInv)'
  BY AllAdMeans, PTL
<1> QED
  BY <1>3, <1>4 DEF IInv, TInv, PairInv

\* The invariant that the theorems below rest on holds in every state.
THEOREM Invariance == Spec => []IInv
BY InitInv, NextInv, PTL DEF Spec

\* Whatever is called and however sockets close, an adapter has one socket, unless start()
\* calls of it crossed or a socket it had given up reported to it.
THEOREM AlwaysOneSocket == Spec => []OneSocket
<1>1. IInv => OneSocket
  <2> SUFFICES ASSUME IInv, NEW s \in Sockets, NEW t \in Sockets,
                      owner[s] = owner[t], owner[s] \in Adapters \ crossed,
                      {net[s], net[t]} \cap {"free", "ending"} = {}
               PROVE  s = t
    BY DEF OneSocket
  <2>1. PICK a \in Adapters \ crossed : a = owner[s]
    OBVIOUS
  <2>2. OneAt(a) /\ s \in Owned(a) /\ t \in Owned(a) /\ s # None /\ t # None
    BY <2>1, Apart DEF IInv, OneInv, OneAt, Owned
  <2>3. net[s] # "ending" /\ net[t] # "ending"
    OBVIOUS
  <2> QED
    BY <2>2, <2>3 DEF OneAt
<1> QED
  BY <1>1, Invariance, PTL

\* An adapter that was stopped stays so, unless it had a socket left then.
THEOREM AlwaysStopped == Spec => []StoppedStaysQuiet
<1>1. IInv => StoppedStaysQuiet
  BY DEF IInv
<1> QED
  BY <1>1, Invariance, PTL

\* An adapter that nothing will wake says that it failed or must be paired again.
THEOREM AlwaysReported == Spec => []NeverSilentlyDeaf
<1>1. IInv => NeverSilentlyDeaf
  BY DEF IInv
<1> QED
  BY <1>1, Invariance, PTL

\* An adapter in the map has its entry, an enabled entry its adapter, and no other adapter
\* is at work, unless a removal or a reload overlapped with a registration, or a start with
\* a boot.
THEOREM AlwaysAgrees == Spec => []RegistryAgrees
<1>1. IInv => RegistryAgrees
  BY DEF IInv, MapInv, RegistryAgrees
<1> QED
  BY <1>1, Invariance, PTL

\* A pairing that is shown has a socket, and its code will expire.
THEOREM AlwaysPairing == Spec => []PairingKept
<1>1. IInv => PairingKept
  BY DEF IInv, PairingKept
<1> QED
  BY <1>1, Invariance, PTL

================================================================================
