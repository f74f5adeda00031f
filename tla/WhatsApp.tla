------------------------------- MODULE WhatsApp -------------------------------
(***************************************************************************)
(* The life of one WhatsApp channel: the adapter with its socket, its      *)
(* reconnect timer and its repair flag, the pairing sessions that compete  *)
(* with it for the auth directory, and the channel service that registers, *)
(* restarts, pairs and unregisters it and is itself reloaded in process.   *)
(*                                                                         *)
(* An adapter and a pairing session are records, and each of their         *)
(* handlers an operator from record to record; the actions add what        *)
(* happens to the sockets.  An instance of the service, once disposed of,  *)
(* leaves behind adapters, sessions and calls that go on by themselves:    *)
(* its maps are kept by instance.                                          *)
(*                                                                         *)
(* A step runs from one I/O completion to the next wait.  stop() waits for *)
(* nothing, start() for createWhatsAppSocket only, and configuration calls *)
(* read and write files synchronously.  An ended socket reports its close  *)
(* in a step of its own.                                                   *)
(***************************************************************************)
EXTENDS Integers

CONSTANTS
  Adapters,     \* WhatsAppAdapter objects (bound on those that are not quiet)
  Sessions,     \* pairing Session objects (bound on those in use)
  Sockets,      \* Baileys sockets (bound on those that are not closed)
  None,         \* null and undefined
  MaxAttempts,  \* ReconnectConfig.maxAttempts
  MaxRestarts,  \* MAX_RESTARTS of a pairing session
  MaxServices,  \* bound on instances of the channel service
  MaxCalls      \* bound on calls of bus methods that concern the channel

Objects == Adapters \cup Sessions

ASSUME WhatsAppAssumption == /\ None \notin Objects \cup Sockets
                             /\ Adapters \cap Sessions = {}
                             /\ MaxAttempts \in Nat
                             /\ MaxRestarts \in Nat
                             /\ MaxServices \in Nat
                             /\ MaxCalls \in Nat

VARIABLES
  \* ChannelService
  current,      \* the instances so far; the last one answers the bus
  service,      \* what that instance does: "booting", "up" or "disposed"
  configured,   \* the configuration that instance read has it start the channel
  adapters,     \* its and the older ones' this.adapters, for this channel
  registering,  \* sockets whose start() a channel.register waits for
  \* on disk
  registered,   \* config.channels has an entry for the channel
  disabled,     \* that entry has enabled: false
  creds,        \* what creds.json is worth
  \* WhatsAppAdapter
  ad,           \* Adapters -> the fields of the adapter
  \* WhatsAppPairing
  pairings,     \* this.sessions of each instance, for this channel
  home,         \* Sessions -> the instance that made the session
  ps,           \* Sessions -> the fields of the session
  \* Baileys
  net,          \* Sockets -> how far the socket is
  owner,        \* Sockets -> the adapter or the session whose handlers it calls
  loaded,       \* Sockets -> the credentials it read
  \* bounds and history
  calls,        \* such calls so far
  stopped,      \* adapters that nobody has asked to start since stop()
  loose,        \* those of them that had a socket left when stop() was called
  crossed,      \* adapters with two start() calls at a time, or to which a socket
                \* reported that was not the adapter's any more
  overlapped    \* an adapter was made or removed behind the back of a register or a reload

serviceVars == <<current, service, configured, adapters, registering>>
entryVars   == <<registered, disabled>>
diskVars    == <<entryVars, creds>>
pairVars    == <<pairings, home, ps>>
socketVars  == <<net, owner, loaded>>
historyVars == <<stopped, loose, crossed, overlapped>>
vars == <<serviceVars, diskVars, ad, pairVars, socketVars, calls, historyVars>>

Services == 1 .. MaxServices

\* creds.json does not exist, was written before the scan, is a linked device's, or is
\* that of a device that was logged out.
Creds == {"missing", "partial", "paired", "revoked"}

Adapter == [sock : Sockets \cup {None},
            status : {"disconnected", "connecting", "connected", "error"},
            needsRepair : BOOLEAN,
            timer : BOOLEAN,              \* reconnectTimer is set
            attempts : 0 .. MaxAttempts]  \* reconnector.attempt

Session == [phase : {"idle", "clearing", "connecting", "qr", "connected", "saved",
                     "expired", "error"},
            sock : Sockets \cup {None},
            restarts : 0 .. MaxRestarts,
            timer : BOOLEAN]

\* createWhatsAppSocket reads the credentials ("opening") and asks for the version
\* ("fetching"); a socket connects, is open, was scanned, or was ended and has not yet
\* reported its close.
Net == {"free", "opening", "fetching", "connecting", "open", "scanned", "ending"}
Creating == {"opening", "fetching"}

TypeOK == /\ current \in 0 .. MaxServices
          /\ service \in {"booting", "up", "disposed"}
          /\ configured \in BOOLEAN
          /\ registered \in BOOLEAN /\ disabled \in BOOLEAN
          /\ adapters \in [Services -> Adapters \cup {None}]
          /\ registering \subseteq {s \in Sockets : net[s] \in Creating}
          /\ creds \in Creds
          /\ ad \in [Adapters -> Adapter]
          /\ pairings \in [Services -> Sessions \cup {None}]
          /\ home \in [Sessions -> Services \cup {0}]
          /\ ps \in [Sessions -> Session]
          /\ net \in [Sockets -> Net]
          /\ owner \in [Sockets -> Objects \cup {None}]
          /\ loaded \in [Sockets -> Creds]
          /\ \A s \in Sockets : net[s] = "free" <=> owner[s] = None
          /\ calls \in 0 .. MaxCalls
          /\ loose \subseteq stopped /\ stopped \subseteq Adapters
          /\ crossed \subseteq Adapters
          /\ overlapped \in BOOLEAN

NewAdapter == [sock |-> None, status |-> "disconnected", needsRepair |-> FALSE,
               timer |-> FALSE, attempts |-> 0]
NewSession == [phase |-> "connecting", sock |-> None, restarts |-> 0, timer |-> TRUE]

\* Before the first boot: the directory and the configuration are whatever an earlier
\* process left.
Init == /\ current = 0 /\ service = "disposed" /\ configured = FALSE
        /\ adapters = [k \in Services |-> None] /\ registering = {}
        /\ registered \in BOOLEAN /\ disabled \in {FALSE, registered} /\ creds \in Creds
        /\ ad = [a \in Adapters |-> NewAdapter]
        /\ pairings = [k \in Services |-> None]
        /\ home = [p \in Sessions |-> 0]
        /\ ps = [p \in Sessions |-> [NewSession EXCEPT !.phase = "idle", !.timer = FALSE]]
        /\ net = [s \in Sockets |-> "free"]
        /\ owner = [s \in Sockets |-> None]
        /\ loaded = [s \in Sockets |-> "missing"]
        /\ calls = 0
        /\ stopped = Adapters /\ loose = {} /\ crossed = {} /\ overlapped = FALSE

----------------------------------------------------------------------------
(* Sockets.                                                                *)

Owned(o) == {s \in Sockets : owner[s] = o}
Starting(o) == \E s \in Owned(o) : net[s] \in Creating

\* sock.end() for some sockets; None is what `?.` skips.
Ended(S) == [s \in Sockets |-> IF s \in S /\ net[s] # "free" THEN "ending" ELSE net[s]]

\* createWhatsAppSocket for o, up to its first wait, after the sockets S were ended.
Create(s, o, S) == /\ net[s] = "free"
                   /\ net' = [Ended(S) EXCEPT ![s] = "opening"]
                   /\ owner' = [owner EXCEPT ![s] = o]
                   /\ UNCHANGED loaded

Leave(s) == /\ net' = [net EXCEPT ![s] = "free"]
            /\ owner' = [owner EXCEPT ![s] = None]
            /\ loaded' = [loaded EXCEPT ![s] = "missing"]

----------------------------------------------------------------------------
(* The adapter.                                                            *)

\* Nothing will call the adapter's handlers unless somebody starts it.
Quiet(a) == ~ad[a].timer /\ Owned(a) = {}

\* Fault: one attempt too many.
ScheduledOneMore(r) ==
  IF r.needsRepair \/ r.timer THEN r
  ELSE IF r.attempts > MaxAttempts THEN [r EXCEPT !.status = "error"]
  ELSE [r EXCEPT !.timer = TRUE, !.attempts = @ + 1]

Scheduled(r) == IF r.needsRepair \/ r.timer THEN r
                ELSE IF r.attempts >= MaxAttempts THEN [r EXCEPT !.status = "error"]
                ELSE [r EXCEPT !.timer = TRUE, !.attempts = @ + 1]

Repair(r) == [r EXCEPT !.needsRepair = TRUE, !.status = "error"]

\* Fault: a lost connection is left to the next restart.
DisconnectedForGood(r, reason) ==
  IF reason = "logged_out" THEN Repair([r EXCEPT !.sock = None])
                           ELSE [r EXCEPT !.sock = None, !.status = "disconnected"]

Disconnected(r, reason) ==
  IF reason = "logged_out" THEN Repair([r EXCEPT !.sock = None])
                           ELSE Scheduled([r EXCEPT !.sock = None, !.status = "disconnected"])

Connected(r) == [r EXCEPT !.status = "connected", !.attempts = 0]

\* Fault: the timer goes on.
StoppedTicking(r) == [r EXCEPT !.sock = None, !.status = "disconnected"]

Stopped(r) == [r EXCEPT !.timer = FALSE, !.sock = None, !.status = "disconnected"]

\* Fault: the socket the adapter has is forgotten, not ended.
StartBeside(a, r, S) ==
  /\ creds' # "missing"
  /\ ad' = [ad EXCEPT ![a] = [r EXCEPT !.needsRepair = FALSE, !.sock = None,
                                      !.status = "connecting"]]
  /\ \E s \in Sockets : Create(s, a, S)
  /\ crossed' = IF Starting(a) THEN crossed \cup {a}
                ELSE IF Quiet(a) THEN crossed \ {a} ELSE crossed

\* start() of an adapter whose fields are r, after the sockets S were ended and what the
\* step writes to the directory was written.
Start(a, r, S) ==
  LET begun == [r EXCEPT !.needsRepair = FALSE, !.sock = None] IN
  /\ \/ /\ creds' = "missing"
        /\ ad' = [ad EXCEPT ![a] = [begun EXCEPT !.status = "error"]]
        /\ net' = Ended(S \cup {r.sock})
        /\ UNCHANGED <<owner, loaded>>
     \/ /\ creds' # "missing"
        /\ ad' = [ad EXCEPT ![a] = [begun EXCEPT !.status = "connecting"]]
        /\ \E s \in Sockets : Create(s, a, S \cup {r.sock})
  /\ crossed' = IF Starting(a) THEN crossed \cup {a}
                ELSE IF Quiet(a) THEN crossed \ {a} ELSE crossed

\* A start() that somebody asked for.
Asked(a) == stopped' = stopped \ {a} /\ loose' = loose \ {a}

\* The record of a stop() of a, which may be None.
Halted(a) == /\ stopped' = stopped \cup ({a} \ {None})
             /\ loose' = IF a # None /\ Owned(a) # {} THEN loose \cup {a} ELSE loose \ {a}

\* The timer of scheduleReconnect.
Reconnect(a) == /\ ad[a].timer
                /\ UNCHANGED <<serviceVars, diskVars, pairVars, calls, stopped, loose, overlapped>>
                /\ Start(a, [ad[a] EXCEPT !.timer = FALSE], {})

----------------------------------------------------------------------------
(* What a socket does, and the handlers it calls.                          *)

\* The owner o of a socket becomes r if it is an adapter, q if it is a session.
Tell(o, r, q) == /\ ad' = IF o \in Adapters THEN [ad EXCEPT ![o] = r] ELSE ad
                 /\ ps' = IF o \in Sessions THEN [ps EXCEPT ![o] = q] ELSE ps

\* channel.register writes its entry, enabled or not, unless there is one for the channel.
AddEntry(now) == /\ registered' = (registered \/ now)
                 /\ disabled' \in IF now /\ ~registered THEN BOOLEAN ELSE {disabled}

\* Fault: the configuration is not written when start() took its time.
PersistNothing(s) == registering' = registering \ {s} /\ UNCHANGED entryVars

\* A channel.register whose start() has returned writes the configuration.
Persist(s) == /\ registering' = registering \ {s}
              /\ AddEntry(s \in registering)

ReadCreds(s) == /\ net[s] = "opening"
                /\ net' = [net EXCEPT ![s] = "fetching"]
                /\ loaded' = [loaded EXCEPT ![s] = creds]
                /\ UNCHANGED <<serviceVars, diskVars, ad, pairVars, owner, calls, historyVars>>

\* createWhatsAppSocket returns.
Opened(s) == /\ net[s] = "fetching"
             /\ net' = [net EXCEPT ![s] = "connecting"]
             /\ LET o == owner[s] IN
                Tell(o, [ad[o] EXCEPT !.sock = s], [ps[o] EXCEPT !.sock = s])
             /\ Persist(s)
             /\ UNCHANGED <<current, service, configured, adapters, creds, pairings, home,
                            owner, loaded, calls, historyVars>>

\* Fault: a session does not notice.
OpenFailsUnseen(s) == /\ net[s] \in Creating
                      /\ Leave(s)
                      /\ LET o == owner[s] IN
                         Tell(o, Scheduled([ad[o] EXCEPT !.status = "error"]), ps[o])
                      /\ Persist(s)
                      /\ UNCHANGED <<current, service, configured, adapters, creds, pairings,
                                     home, calls, historyVars>>

\* createWhatsAppSocket throws.
OpenFails(s) == /\ net[s] \in Creating
                /\ Leave(s)
                /\ LET o == owner[s] IN
                   Tell(o, Scheduled([ad[o] EXCEPT !.status = "error"]),
                           [ps[o] EXCEPT !.phase = "error"])
                /\ Persist(s)
                /\ UNCHANGED <<current, service, configured, adapters, creds, pairings, home,
                               calls, historyVars>>

\* The server accepts the credentials: onConnected.
Accept(s) == /\ net[s] = "connecting" /\ loaded[s] = "paired"
             /\ net' = [net EXCEPT ![s] = "open"]
             /\ LET o == owner[s] IN
                Tell(o, Connected(ad[o]), [ps[o] EXCEPT !.phase = "connected"])
             /\ UNCHANGED <<serviceVars, diskVars, pairings, home, owner, loaded, calls, historyVars>>

Unlinked(s) == net[s] = "connecting" /\ loaded[s] \in {"missing", "partial"}

\* Credentials of no linked device: onQR.  An adapter ends the socket it has, whichever that is.
QR(s) == LET o == owner[s] IN
         /\ Unlinked(s)
         /\ Tell(o, Repair([ad[o] EXCEPT !.sock = None]),
                    [ps[o] EXCEPT !.phase = IF @ = "connecting" THEN "qr" ELSE @])
         /\ net' = IF o \in Adapters THEN Ended({ad[o].sock}) ELSE net
         /\ crossed' = IF o \in Adapters /\ ad[o].sock # s THEN crossed \cup {o} ELSE crossed
         /\ UNCHANGED <<serviceVars, diskVars, pairings, home, owner, loaded, calls,
                        stopped, loose, overlapped>>

\* saveCreds during the handshake.
SaveUnlinked(s) == /\ Unlinked(s)
                   /\ creds' = "partial"
                   /\ UNCHANGED <<serviceVars, entryVars, ad, pairVars, socketVars, calls,
                                  historyVars>>

\* The person scans the code a session shows; saveCreds.  The server then has the socket
\* restarted.
Scan(s) == /\ Unlinked(s) /\ owner[s] \in Sessions /\ ps[owner[s]].phase = "qr"
           /\ net' = [net EXCEPT ![s] = "scanned"]
           /\ creds' = "paired"
           /\ UNCHANGED <<serviceVars, entryVars, ad, pairVars, owner, loaded, calls,
                          historyVars>>

\* saveCreds of an open socket, which no session waits for.
Save(s) == /\ net[s] = "open"
           /\ owner[s] \in Sessions => ps[owner[s]].phase # "connected"
           /\ creds' = "paired"
           /\ UNCHANGED <<serviceVars, entryVars, ad, pairVars, socketVars, calls, historyVars>>

\* Why a socket closes.  "logged_out" stands for "forbidden" too, "closed" for every
\* reason that is handled as a lost connection.
Reasons(s) == CASE net[s] = "scanned" -> {"restart_required", "closed"}
                [] net[s] = "open" -> {"closed", "logged_out"}
                [] net[s] = "connecting" ->
                     IF Unlinked(s) THEN {"closed"} ELSE {"closed", "logged_out"}
                [] net[s] = "ending" -> {"closed"}
                [] OTHER -> {}

Revoke(reason) == creds' = IF reason = "logged_out" /\ creds = "paired" THEN "revoked" ELSE creds

\* onDisconnected of an adapter, which takes the socket for its own.
AdapterCloses(s, reason) ==
  LET a == owner[s] IN
  /\ a \in Adapters /\ reason \in Reasons(s)
  /\ ad' = [ad EXCEPT ![a] = Disconnected(@, reason)]
  /\ Leave(s)
  /\ Revoke(reason)
  /\ crossed' = IF ad[a].sock \notin {s, None} THEN crossed \cup {a} ELSE crossed
  /\ UNCHANGED <<serviceVars, entryVars, pairVars, calls, stopped, loose, overlapped>>

\* onDisconnected of a session: connect() again, with a socket that takes the place of s,
\* or give up.
SessionCloses(s, reason) ==
  LET p == owner[s]
      closed == [ps[p] EXCEPT !.sock = None]
  IN /\ p \in Sessions /\ reason \in Reasons(s)
     /\ \/ /\ ps[p].phase \in {"saved", "connected"}
           /\ ps' = [ps EXCEPT ![p] = closed]
           /\ Leave(s)
        \/ /\ ps[p].phase \notin {"saved", "connected"}
           /\ reason = "restart_required" /\ ps[p].restarts < MaxRestarts
           /\ ps' = [ps EXCEPT ![p] = [closed EXCEPT !.restarts = @ + 1]]
           /\ net' = [net EXCEPT ![s] = "opening"]
           /\ loaded' = [loaded EXCEPT ![s] = "missing"]
           /\ UNCHANGED owner
        \/ /\ ps[p].phase \notin {"saved", "connected"}
           /\ reason = "restart_required" => ps[p].restarts = MaxRestarts
           /\ ps' = [ps EXCEPT ![p] = [closed EXCEPT !.phase = "error"]]
           /\ Leave(s)
     /\ Revoke(reason)
     /\ UNCHANGED <<serviceVars, entryVars, ad, pairings, home, calls, historyVars>>

----------------------------------------------------------------------------
(* The channel service.                                                    *)

\* stop() of a, which may be None, and the sockets it ends.
HaltedAd(a) == IF a = None THEN ad ELSE [ad EXCEPT ![a] = Stopped(@)]
SockOf(a) == IF a = None THEN {} ELSE {ad[a].sock}

\* WhatsAppPairing.cancel for the session of instance k, and the sockets it ends.
Cancelled(k) == IF pairings[k] = None THEN ps ELSE [ps EXCEPT ![pairings[k]].timer = FALSE]
PairSock(k) == IF pairings[k] = None THEN {} ELSE {ps[pairings[k]].sock}

\* A method of the bus is called.
Call == /\ service # "disposed" /\ calls < MaxCalls
        /\ calls' = calls + 1

\* startChannel of instance k: a new adapter, after the sockets S were ended.  It does not
\* look at `enabled`, and nor do its callers but startAllConfigured.
StartChannel(k, S) == \E a \in Adapters :
                        /\ Quiet(a) /\ \A j \in Services : adapters[j] # a
                        /\ adapters' = [adapters EXCEPT ![k] = a]
                        /\ Asked(a)
                        /\ Start(a, NewAdapter, S)

\* channel.register, up to the wait in start(); without credentials there is none.
Register == /\ Call
            /\ adapters[current] = None
            /\ UNCHANGED <<creds, current, service, configured, pairVars>>
            /\ StartChannel(current, {})
            /\ registering' = registering \cup {s \in Sockets : net[s] = "free" /\ net'[s] = "opening"}
            /\ AddEntry(creds = "missing")
            /\ overlapped' = (overlapped \/ service # "up")

\* channel.restart.
Restart == LET a == adapters[current] IN
           /\ Call
           /\ a # None
           /\ UNCHANGED <<serviceVars, diskVars, pairVars, overlapped>>
           /\ Asked(a)
           /\ Start(a, Stopped(ad[a]), {ad[a].sock})

\* Both maps of the current instance lose their entry, what was in them is stopped.
CloseAll == LET k == current  a == adapters[current] IN
            /\ pairings' = [pairings EXCEPT ![k] = None]
            /\ ps' = Cancelled(k)
            /\ adapters' = [adapters EXCEPT ![k] = None]
            /\ ad' = HaltedAd(a) /\ Halted(a)
            /\ net' = Ended(PairSock(k) \cup SockOf(a))
            /\ UNCHANGED <<current, configured, registering, creds, home, owner, loaded, crossed>>

Unregister == /\ Call
              /\ CloseAll
              /\ registered' = FALSE /\ disabled' = FALSE
              /\ overlapped' = (overlapped \/ registering # {} \/ service = "booting")
              /\ UNCHANGED service

\* bus.restart of the service: dispose() of the instance, ...
Dispose == /\ Call
           /\ service = "up" /\ current < MaxServices
           /\ CloseAll
           /\ service' = "disposed"
           /\ overlapped' = (overlapped \/ registering # {})
           /\ UNCHANGED entryVars

\* ... and init() of the next, up to the wait for the providers and the adapters that are
\* configured before this one; an entry with enabled: false will be skipped, ...
Boot == /\ service = "disposed" /\ current < MaxServices
        /\ current' = current + 1
        /\ service' = "booting"
        /\ configured' = (registered /\ ~disabled)
        /\ UNCHANGED <<adapters, registering, diskVars, ad, pairVars, socketVars, calls, historyVars>>

\* ... and after it: an entry that is missing or disabled starts nothing.
StartConfigured == /\ service = "booting"
                   /\ service' = "up"
                   /\ UNCHANGED <<current, configured, registering, diskVars, pairVars, calls>>
                   /\ \/ configured /\ StartChannel(current, {})
                      \/ /\ ~configured
                         /\ UNCHANGED <<adapters, ad, socketVars, stopped, loose, crossed>>
                   /\ overlapped' = (overlapped \/ (configured /\ adapters[current] # None))

----------------------------------------------------------------------------
(* Pairing.                                                                *)

InFlight == {"connecting", "qr", "connected"}

Unused(p) == /\ Owned(p) = {} /\ ~ps[p].timer /\ ps[p].phase # "clearing"
             /\ \A k \in Services : pairings[k] # p

\* channel.pairStart: stop the adapter; a session in flight is kept, ...
PairAgain == LET q == pairings[current]  a == adapters[current] IN
             /\ Call /\ registered
             /\ q # None /\ ps[q].phase \in InFlight
             /\ ad' = HaltedAd(a) /\ Halted(a) /\ net' = Ended(SockOf(a))
             /\ UNCHANGED <<serviceVars, diskVars, pairVars, owner, loaded, crossed, overlapped>>

\* ... another one is cancelled and a new one begins: at once, ...
PairNew(p) == LET k == current  a == adapters[current] IN
              /\ Call /\ registered /\ Unused(p)
              /\ pairings[k] # None => ps[pairings[k]].phase \notin InFlight
              /\ ad' = HaltedAd(a) /\ Halted(a)
              /\ pairings' = [pairings EXCEPT ![k] = p]
              /\ home' = [home EXCEPT ![p] = k]
              /\ ps' = [Cancelled(k) EXCEPT ![p] = NewSession]
              /\ \E s \in Sockets : Create(s, p, SockOf(a) \cup PairSock(k))
              /\ UNCHANGED <<serviceVars, diskVars, crossed, overlapped>>

\* ... or, with reset, once the auth directory is removed.
PairReset(p) == LET k == current  a == adapters[current] IN
                /\ Call /\ registered /\ Unused(p)
                /\ pairings[k] # None => ps[pairings[k]].phase \notin InFlight
                /\ ad' = HaltedAd(a) /\ Halted(a)
                /\ pairings' = [pairings EXCEPT ![k] = None]
                /\ home' = [home EXCEPT ![p] = k]
                /\ ps' = [Cancelled(k) EXCEPT ![p] = [NewSession EXCEPT !.phase = "clearing",
                                                                        !.timer = FALSE]]
                /\ net' = Ended(SockOf(a) \cup PairSock(k))
                /\ UNCHANGED <<serviceVars, diskVars, owner, loaded, crossed, overlapped>>

\* The directory is gone; a session that came into the map meanwhile is overwritten.
Cleared(p) == /\ ps[p].phase = "clearing"
              /\ creds' = "missing"
              /\ pairings' = [pairings EXCEPT ![home[p]] = p]
              /\ ps' = [ps EXCEPT ![p] = NewSession]
              /\ \E s \in Sockets : Create(s, p, {})
              /\ UNCHANGED <<serviceVars, entryVars, ad, home, calls, historyVars>>

\* Fault: only a code that was shown expires.
QrTimeoutShown(p) ==
  LET q == pairings[home[p]] IN
  /\ ps[p].timer
  /\ \/ /\ q # None => ps[q].phase # "qr"
        /\ ps' = [ps EXCEPT ![p].timer = FALSE]
        /\ UNCHANGED net
     \/ /\ q # None /\ ps[q].phase = "qr"
        /\ ps' = [ps EXCEPT ![p].timer = FALSE, ![q].phase = "expired"]
        /\ net' = Ended({ps[q].sock})
  /\ UNCHANGED <<serviceVars, diskVars, ad, pairings, home, owner, loaded, calls, historyVars>>

\* The timer that arm() set for p: it expires the session in the map, whichever that is.
QrTimeout(p) ==
  LET q == pairings[home[p]] IN
  /\ ps[p].timer
  /\ \/ /\ q # None => ps[q].phase \in {"saved", "connected"}
        /\ ps' = [ps EXCEPT ![p].timer = FALSE]
        /\ UNCHANGED net
     \/ /\ q # None /\ ps[q].phase \notin {"saved", "connected"}
        /\ ps' = [ps EXCEPT ![p].timer = FALSE, ![q].phase = "expired"]
        /\ net' = Ended({ps[q].sock})
  /\ UNCHANGED <<serviceVars, diskVars, ad, pairings, home, owner, loaded, calls, historyVars>>

\* channel.pairCancel starts the adapter, stopped or not.
PairCancel == LET k == current  a == adapters[current] IN
              /\ Call
              /\ pairings' = [pairings EXCEPT ![k] = None]
              /\ ps' = Cancelled(k)
              /\ UNCHANGED <<serviceVars, diskVars, home, overlapped>>
              /\ \/ a # None /\ Asked(a) /\ Start(a, ad[a], PairSock(k))
                 \/ /\ a = None
                    /\ net' = Ended(PairSock(k))
                    /\ UNCHANGED <<ad, owner, loaded, stopped, loose, crossed>>

\* saveCreds of a socket whose session is connected: onPaired, repairAfterPairing of the
\* instance the session belongs to.
Paired(s) ==
  LET p == owner[s]  k == home[p]  a == adapters[k] IN
  /\ net[s] = "open" /\ p \in Sessions /\ ps[p].phase = "connected"
  /\ creds' = "paired"
  /\ ps' = [ps EXCEPT ![p].phase = "saved", ![p].timer = FALSE]
  /\ \/ /\ a # None
        /\ Asked(a)
        /\ Start(a, Stopped(ad[a]), {ps[p].sock, ad[a].sock})
        /\ UNCHANGED <<adapters, overlapped>>
     \/ /\ a = None /\ registered
        /\ StartChannel(k, {ps[p].sock})
        /\ overlapped' = (overlapped \/ k # current \/ service # "up")
     \/ /\ a = None /\ ~registered
        /\ net' = Ended({ps[p].sock})
        /\ UNCHANGED <<adapters, ad, owner, loaded, historyVars>>
  /\ UNCHANGED <<current, service, configured, registering, entryVars, pairings, home, calls>>

----------------------------------------------------------------------------

SocketStep(s) == \/ ReadCreds(s) \/ Opened(s) \/ OpenFails(s)
                 \/ Accept(s) \/ QR(s) \/ SaveUnlinked(s) \/ Scan(s) \/ Save(s) \/ Paired(s)
                 \/ \E reason \in {"closed", "restart_required", "logged_out"} :
                      AdapterCloses(s, reason) \/ SessionCloses(s, reason)

Next == \/ \E s \in Sockets : SocketStep(s)
        \/ \E a \in Adapters : Reconnect(a)
        \/ Register \/ Restart \/ Unregister \/ Dispose \/ Boot \/ StartConfigured
        \/ PairAgain \/ PairCancel
        \/ \E p \in Sessions : PairNew(p) \/ PairReset(p) \/ Cleared(p) \/ QrTimeout(p)

Spec == Init /\ [][Next]_vars

----------------------------------------------------------------------------
(* Properties.                                                             *)

\* An adapter has one socket at a time, unless start() was called while another start() of
\* it was waiting, or a socket it had given up reported to it later.
OneSocket == \A s, t \in Sockets :
               ( /\ owner[s] = owner[t] /\ owner[s] \in Adapters \ crossed
                 /\ {net[s], net[t]} \cap {"free", "ending"} = {} ) => s = t

\* An adapter that was stopped, or replaced, stays so, unless it had a socket left at the
\* time: its close, or its arrival, brings the adapter back.
StoppedStaysQuiet == \A a \in stopped \ loose : Quiet(a)

\* An adapter that was to run and that nothing will wake any more says that it failed, or
\* has found that the channel must be paired again.
NeverSilentlyDeaf == \A a \in Adapters \ stopped :
                       Quiet(a) => ad[a].status = "error" \/ ad[a].needsRepair

\* Configuration and service agree on whether the channel exists - an adapter has its
\* entry; an entry has its adapter unless it is disabled, when it may have one from a
\* channel.register or a pairing until the next boot - and no other adapter is at work for
\* it, unless a removal or a reload overlapped with a registration, or a start with a boot.
RegistryAgrees ==
  ~overlapped =>
    /\ service = "up" /\ registering = {} =>
         /\ adapters[current] # None => registered
         /\ registered /\ ~disabled => adapters[current] # None
    /\ \A a \in Adapters : (\A k \in Services : adapters[k] # a) => a \in stopped

\* A session that says it is connecting or shows a code has a socket.
PairingBacked == \A p \in Sessions : ps[p].phase \in {"connecting", "qr"} => Owned(p) # {}

\* The code of the session that is in the map will expire.
PairingExpires == \A k \in Services :
                    LET p == pairings[k] IN
                    p # None => (ps[p].phase \in {"connecting", "qr"} => ps[p].timer)

\* A pairing that is shown is a real one, and it ends; with the types.
PairingKept == TypeOK /\ PairingBacked /\ PairingExpires

\* channel.pairStart stops the adapter "so the auth dir is unambiguously free for the
\* pairing socket": no adapter's socket uses the credentials while a session is pairing.
AuthDirFree ==
  \A s, t \in Sockets :
    ~( /\ owner[s] \in Sessions /\ net[s] \in {"connecting", "scanned"}
       /\ owner[t] \in Adapters /\ net[t] \in {"connecting", "open"} )

================================================================================
