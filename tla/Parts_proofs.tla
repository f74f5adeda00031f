------------------------------ MODULE Parts_proofs ------------------------------
(***************************************************************************)
(* The other parts of MCHost: the configuration files and all who rewrite  *)
(* them, and the console's pairing dialog, its forms and its transcripts,  *)
(* for any number of each; and the delivery of a text, whatever it is.     *)
(***************************************************************************)
EXTENDS Host_proofs, SequenceTheorems, WellFoundedInduction

-----------------------------------------------------------------------------
(* ConfigStore *)

ConfigObjects == [channels: C!Channels, providers: C!Keys \cup {None}, auth: C!Keys \cup {None},
                  agent: C!Settings \cup {None}]
TaskRecs == [kind: C!Kinds \cup {"none"}, at: {"idle", "read", "set", "settings"},
             key: ChannelIds \cup Provs \cup {None}, value: C!Values,
             cfg: ConfigObjects \cup C!Settings \cup {None}]

\* Each kind of request is about a key of its kind, and holds a whole object of its kind; while
\* the agent's retry settings are on their way there is a settings.json.
TaskTyped(t) ==
    LET r == task[t]
    IN  /\ r.kind \in {"register", "unregister", "channelForm"} => r.key \in ChannelIds
        /\ r.kind \in {"modelForm", "provider"} => r.key \in Provs
        /\ r.kind \in {"register", "channelForm"} => r.value # 0
        /\ r.kind = "unregister" => r.value = 0
        /\ r.kind = "none" => r.at = "idle"
        /\ r.kind = "retry" => settings # None
        /\ r.at = "set" =>
              /\ r.kind \in {"register", "unregister", "channelForm", "modelForm", "retry"}
              /\ r.cfg \in IF r.kind = "retry" THEN C!Settings ELSE ConfigObjects
TasksTyped == task \in [Tasks -> TaskRecs] /\ \A t \in Tasks : TaskTyped(t)

\* What SavesStay says.
Agrees ==
    /\ config = wanted.channels
    /\ C!Content(auth, Provs) = wanted.auth
    /\ wanted.model # 0 => settings # None /\ settings.model = wanted.model

\* What a request is about to write: the files as they are, and its edit.
Snapshot(t) ==
    LET r == task[t]
        edited == [config EXCEPT ![r.key] = r.value]
    IN  IF r.kind = "retry" THEN r.cfg = settings
        ELSE /\ r.cfg.auth = auth /\ r.cfg.agent = settings
             /\ r.kind \in {"register", "unregister"} => r.cfg.channels = edited
             /\ r.kind = "modelForm" => r.cfg.channels = config
             /\ r.kind = "channelForm" => \/ config[r.key] # 0 /\ r.cfg.channels = edited
                                          \/ config[r.key] = 0 /\ r.cfg.channels = config

\* While no two rewrites overlap, one request at a time is about to write.
Calmly ==
    /\ Agrees
    /\ \A t, u \in C!Holding : t = u
    /\ \A t \in C!Holding : Snapshot(t)

ConfigInv == C!TypeOK /\ TasksTyped /\ (~interfered => Calmly)

LEMMA ConfigFacts ==
    /\ Edits \subseteq Nat \ {0}
    /\ None \notin C!Channels /\ None \notin C!Keys /\ None \notin C!Settings
    /\ 0 \in C!Values /\ C!Empty(ChannelIds) \in C!Channels /\ C!Empty(Provs) \in C!Keys
BY PartsAssumption DEF C!ConfigAssumption, C!Values, C!Empty, C!Channels, C!Keys

LEMMA ConfigInit == C!Init => ConfigInv
<1> SUFFICES ASSUME C!Init PROVE ConfigInv
  OBVIOUS
<1>1. C!Idle \in [kind: {"none"}, at: {"idle"}, key: {None}, value: {0}, cfg: {None}]
  BY DEF C!Idle
<1>2. C!Idle \in TaskRecs /\ C!Idle.at = "idle" /\ C!Idle.kind = "none"
  BY <1>1, ConfigFacts DEF TaskRecs
<1>3. \A t \in Tasks : task[t] = C!Idle
  BY DEF C!Init
<1>4. TasksTyped
  BY <1>2, <1>3 DEF TasksTyped, TaskTyped, C!Init
<1>5. wanted \in [channels: {C!Empty(ChannelIds)}, providers: {C!Empty(Provs)}, auth: {C!Empty(Provs)}, model: {0}]
  BY DEF C!Init
<1>6. C!TypeOK
  <2>1. /\ config = C!Empty(ChannelIds) /\ models = None /\ auth = None /\ settings = None /\ adapters = {}
        /\ inService \in BOOLEAN /\ used = 0 /\ interfered \in BOOLEAN
    BY DEF C!Init
  <2>2. wanted \in [channels: C!Channels, providers: C!Keys, auth: C!Keys, model: C!Values]
    BY <1>5, ConfigFacts
  <2>3. \A t \in Tasks : /\ task[t].kind \in C!Kinds \cup {"none"}
                         /\ task[t].key \in ChannelIds \cup Provs \cup {None}
                         /\ task[t].value \in C!Values
    BY <1>2, <1>3 DEF TaskRecs
  <2> QED
    BY <2>1, <2>2, <2>3, ConfigFacts DEF C!TypeOK
<1>7. C!Holding = {}
  BY <1>2, <1>3 DEF C!Holding
<1>8. Agrees
  BY <1>5 DEF Agrees, C!Init, C!Content
<1> QED
  BY <1>4, <1>6, <1>7, <1>8 DEF ConfigInv, Calmly

\* The files stay, and nobody begins to hold an object.
LEMMA FilesStay ==
    ASSUME ~interfered => Calmly, UNCHANGED <<config, auth, settings, wanted, interfered>>,
           \A t \in Tasks : task'[t].at = "set" => task'[t] = task[t]
    PROVE  (~interfered => Calmly)'
<1> SUFFICES ASSUME Calmly PROVE Calmly'
  OBVIOUS
<1>1. \A t \in C!Holding' : t \in C!Holding /\ task'[t] = task[t]
  BY DEF C!Holding
<1>2. Agrees'
  BY DEF Calmly, Agrees, C!Content
<1>3. \A t \in C!Holding' : Snapshot(t)'
  BY <1>1 DEF Calmly, Snapshot
<1> QED
  BY <1>1, <1>2, <1>3 DEF Calmly

\* A step of one request that leaves the files and holds no object after it.
LEMMA TaskMoves ==
    ASSUME ConfigInv, NEW t \in Tasks, NEW n \in TaskRecs, task' = [task EXCEPT ![t] = n],
           n.at # "set", TaskTyped(t)',
           UNCHANGED <<config, models, auth, settings, wanted, interfered>>,
           adapters' \subseteq ChannelIds, inService' \in BOOLEAN, used' \in C!Values
    PROVE  ConfigInv'
<1>1. task'[t] = n /\ task' \in [Tasks -> TaskRecs] /\ \A u \in Tasks \ {t} : task'[u] = task[u]
  BY DEF ConfigInv, TasksTyped
<1>2. TasksTyped'
  <2> SUFFICES ASSUME NEW u \in Tasks PROVE TaskTyped(u)'
    BY <1>1 DEF TasksTyped
  <2>1. CASE u = t
    BY <2>1
  <2>2. CASE u # t
    BY <2>2, <1>1 DEF ConfigInv, TasksTyped, TaskTyped
  <2> QED
    BY <2>1, <2>2
<1>3. C!TypeOK'
  BY <1>1 DEF ConfigInv, C!TypeOK, TaskRecs
<1>4. \A u \in Tasks : task'[u].at = "set" => task'[u] = task[u]
  BY <1>1
<1>5. (~interfered => Calmly)'
  BY <1>4, FilesStay DEF ConfigInv
<1> QED
  BY <1>2, <1>3, <1>5 DEF ConfigInv

\* A request of the given kind begins.
LEMMA FreshDoes ==
    ASSUME NEW t \in Tasks, NEW kind \in C!Kinds, NEW k \in ChannelIds \cup Provs,
           C!Fresh(t, kind, k)
    PROVE  /\ used' \in C!Values
           /\ \E n \in TaskRecs : /\ task' = [task EXCEPT ![t] = n]
                                  /\ n.kind = kind /\ n.key = k /\ n.value # 0 /\ n.at = "read"
<1> DEFINE n == [C!Idle EXCEPT !.kind = kind, !.at = "read", !.key = k, !.value = used + 1]
<1>1. used' = used + 1 /\ used + 1 \in Edits /\ task' = [task EXCEPT ![t] = n]
  BY DEF C!Fresh
<1>2. n \in [kind: {kind}, at: {"read"}, key: {k}, value: {used + 1}, cfg: {None}]
  BY DEF C!Idle
<1> HIDE DEF n
<1>3. used + 1 \in C!Values /\ used + 1 # 0
  BY <1>1, ConfigFacts DEF C!Values
<1>4. n \in TaskRecs /\ n.kind = kind /\ n.key = k /\ n.value # 0 /\ n.at = "read"
  BY <1>2, <1>3 DEF TaskRecs
<1> QED
  BY <1>1, <1>3, <1>4

LEMMA RequestBegins ==
    ASSUME ConfigInv, NEW t \in Tasks, NEW kind \in C!Kinds \ {"retry", "unregister"},
           NEW k \in ChannelIds \cup Provs,
           kind \in {"register", "channelForm"} => k \in ChannelIds,
           kind \in {"modelForm", "provider"} => k \in Provs,
           C!Fresh(t, kind, k),
           UNCHANGED <<config, models, auth, settings, adapters, inService, wanted, interfered>>
    PROVE  ConfigInv'
<1>1. PICK n \in TaskRecs : /\ task' = [task EXCEPT ![t] = n]
                            /\ n.kind = kind /\ n.key = k /\ n.value # 0 /\ n.at = "read"
  BY FreshDoes
<1>2. task'[t] = n
  BY <1>1 DEF ConfigInv, TasksTyped
<1>3. TaskTyped(t)'
  BY <1>1, <1>2 DEF TaskTyped, C!Kinds
<1>4. used' \in C!Values
  BY FreshDoes
<1>5. adapters' \subseteq ChannelIds /\ inService' \in BOOLEAN
  BY DEF ConfigInv, C!TypeOK
<1> QED
  BY <1>1, <1>3, <1>4, <1>5, TaskMoves

\* What makes a request, or the process, begin.
LEMMA BeginKeepsConfig ==
    ASSUME ConfigInv, NEW t \in Tasks,
           \/ \E i \in ChannelIds : C!Register(t, i) \/ C!Unregister(t, i) \/ C!ChannelForm(t, i)
           \/ \E p \in Provs : C!ModelForm(t, p) \/ C!ConfigureProvider(t, p)
           \/ C!Boot(t)
    PROVE  ConfigInv'
<1>1. ASSUME NEW i \in ChannelIds, C!Register(t, i) PROVE ConfigInv'
  BY <1>1, RequestBegins DEF C!Register, C!Kinds, C!files
<1>2. ASSUME NEW i \in ChannelIds, C!ChannelForm(t, i) PROVE ConfigInv'
  BY <1>2, RequestBegins DEF C!ChannelForm, C!Kinds, C!files
<1>3. ASSUME NEW p \in Provs, C!ModelForm(t, p) PROVE ConfigInv'
  BY <1>3, RequestBegins DEF C!ModelForm, C!Kinds, C!files
<1>4. ASSUME NEW p \in Provs, C!ConfigureProvider(t, p) PROVE ConfigInv'
  BY <1>4, RequestBegins DEF C!ConfigureProvider, C!Kinds, C!files
<1>5. ASSUME NEW i \in ChannelIds, C!Unregister(t, i) PROVE ConfigInv'
  <2> DEFINE n == [C!Idle EXCEPT !.kind = "unregister", !.at = "read", !.key = i]
  <2>1. n \in [kind: {"unregister"}, at: {"read"}, key: {i}, value: {0}, cfg: {None}]
    BY DEF C!Idle
  <2>2. /\ task' = [task EXCEPT ![t] = n] /\ adapters' \subseteq ChannelIds
        /\ UNCHANGED <<config, models, auth, settings, wanted, interfered, inService, used>>
    BY <1>5 DEF C!Unregister, C!files, ConfigInv, C!TypeOK
  <2> HIDE DEF n
  <2>3. n \in TaskRecs /\ n.kind = "unregister" /\ n.key = i /\ n.value = 0 /\ n.at = "read"
    BY <2>1, ConfigFacts DEF TaskRecs, C!Kinds
  <2>4. task'[t] = n
    BY <2>2 DEF ConfigInv, TasksTyped
  <2>5. TaskTyped(t)'
    BY <2>3, <2>4 DEF TaskTyped
  <2>6. inService' \in BOOLEAN /\ used' \in C!Values
    BY <2>2 DEF ConfigInv, C!TypeOK
  <2> QED
    BY <2>2, <2>3, <2>5, <2>6, TaskMoves
<1>6. CASE C!Boot(t)
  <2> DEFINE n == [C!Idle EXCEPT !.kind = "retry", !.at = "read"]
  <2>1. n \in [kind: {"retry"}, at: {"read"}, key: {None}, value: {0}, cfg: {None}]
    BY DEF C!Idle
  <2>2. /\ task' = [task EXCEPT ![t] = n] /\ adapters' \subseteq ChannelIds /\ inService' = TRUE
        /\ UNCHANGED <<config, models, auth, settings, wanted, interfered, used>>
        /\ settings # None
    BY <1>6 DEF C!Boot, C!files, C!ProviderReady
  <2> HIDE DEF n
  <2>3. n \in TaskRecs /\ n.kind = "retry" /\ n.at = "read"
    BY <2>1, ConfigFacts DEF TaskRecs, C!Kinds
  <2>4. task'[t] = n
    BY <2>2 DEF ConfigInv, TasksTyped
  <2>5. TaskTyped(t)'
    BY <2>2, <2>3, <2>4 DEF TaskTyped
  <2>6. inService' \in BOOLEAN /\ used' \in C!Values
    BY <2>2 DEF ConfigInv, C!TypeOK
  <2> QED
    BY <2>2, <2>3, <2>5, <2>6, TaskMoves
<1> QED
  BY <1>1, <1>2, <1>3, <1>4, <1>5, <1>6

\* What the request makes of the configuration that it reads.
LEMMA EditedIs ==
    ASSUME ConfigInv, NEW t \in Tasks, config # None, C!Edited(t) # None,
           task[t].kind \in {"register", "unregister", "channelForm", "modelForm"}
    PROVE  LET r == task[t]
               cfg == C!Edited(t)
               edited == [config EXCEPT ![r.key] = r.value]
           IN  /\ cfg \in ConfigObjects /\ cfg.auth = auth /\ cfg.agent = settings
               /\ r.kind \in {"register", "unregister"} => cfg.channels = edited
               /\ r.kind = "modelForm" => cfg.channels = config
               /\ r.kind = "channelForm" => \/ config[r.key] # 0 /\ cfg.channels = edited
                                            \/ config[r.key] = 0 /\ cfg.channels = config
<1> DEFINE r == task[t]
           edited == [config EXCEPT ![r.key] = r.value]
           base == C!LoadConfig
<1>0. /\ TaskTyped(t) /\ r.value \in C!Values /\ config \in C!Channels
      /\ models \in C!Keys \cup {None} /\ auth \in C!Keys \cup {None}
      /\ settings \in C!Settings \cup {None}
  BY DEF ConfigInv, C!TypeOK, TasksTyped, TaskRecs
<1>1. base \in [channels: {config}, providers: {models}, auth: {auth}, agent: {settings}]
  BY DEF C!LoadConfig
<1>2. edited \in C!Channels
  BY <1>0 DEF C!Channels
<1> HIDE DEF base
<1>3. [base EXCEPT !.channels = edited]
         \in [channels: {edited}, providers: {models}, auth: {auth}, agent: {settings}]
  BY <1>1
<1>4. [base EXCEPT !.channels[r.key] = r.value] = [base EXCEPT !.channels = edited]
  BY <1>1
<1>5. CASE r.kind = "register" \/ r.kind = "unregister"
  <2>1. C!Edited(t) = [base EXCEPT !.channels[r.key] = r.value]
    BY <1>5, <1>0 DEF C!Edited, base, TaskTyped
  <2> HIDE DEF edited
  <2> QED
    BY <1>0, <1>2, <1>3, <1>4, <1>5, <2>1 DEF ConfigObjects, edited
<1>6. CASE r.kind = "channelForm"
  <2>1. CASE config[r.key] # 0
    <3>1. C!Edited(t) = [base EXCEPT !.channels[r.key] = r.value]
      BY <1>6, <2>1 DEF C!Edited, base
    <3> QED
      BY <1>0, <1>2, <1>3, <1>4, <1>6, <2>1, <3>1 DEF ConfigObjects
  <2>2. CASE config[r.key] = 0
    <3>1. C!Edited(t) = base
      BY <1>6, <2>2 DEF C!Edited, base
    <3> QED
      BY <1>0, <1>1, <1>6, <2>2, <3>1 DEF ConfigObjects
  <2> QED
    BY <2>1, <2>2
<1>7. CASE r.kind = "modelForm"
  <2> DEFINE ps == [(IF models = None THEN C!Empty(Provs) ELSE models) EXCEPT ![r.key] = r.value]
  <2>1. C!Edited(t) = [base EXCEPT !.providers = ps]
    BY <1>7 DEF C!Edited, base
  <2>2. ps \in C!Keys
    BY <1>0, ConfigFacts DEF C!Keys
  <2> HIDE DEF ps
  <2>3. [base EXCEPT !.providers = ps] \in [channels: {config}, providers: {ps}, auth: {auth}, agent: {settings}]
    BY <1>1
  <2> QED
    BY <1>0, <1>7, <2>1, <2>2, <2>3 DEF ConfigObjects
<1> QED
  BY <1>5, <1>6, <1>7

LEMMA ReadKeeps ==
    ASSUME ConfigInv, NEW t \in Tasks, C!Read(t)
    PROVE  ConfigInv'
<1> DEFINE r == task[t]
           x == IF r.kind = "retry" THEN settings ELSE C!Edited(t)
           n == [r EXCEPT !.at = "set", !.cfg = x]
<1>0. /\ r.at = "read" /\ r.kind # "provider" /\ r.kind # "none" /\ r \in TaskRecs /\ TaskTyped(t)
      /\ UNCHANGED <<config, models, auth, settings, inService, used, wanted>>
      /\ adapters' \subseteq ChannelIds /\ inService' \in BOOLEAN /\ used' \in C!Values
      /\ settings \in C!Settings \cup {None}
  BY DEF C!Read, C!files, ConfigInv, C!TypeOK, TasksTyped, TaskTyped
<1>1. CASE ~(r.kind = "retry" \/ (config # None /\ C!Edited(t) # None))
  <2>1. task' = [task EXCEPT ![t] = C!Idle] /\ UNCHANGED interfered
    BY <1>1 DEF C!Read
  <2>2. C!Idle \in [kind: {"none"}, at: {"idle"}, key: {None}, value: {0}, cfg: {None}]
    BY DEF C!Idle
  <2>3. C!Idle \in TaskRecs /\ C!Idle.at = "idle" /\ C!Idle.kind = "none"
    BY <2>2, ConfigFacts DEF TaskRecs
  <2>4. TaskTyped(t)'
    BY <2>1, <2>3 DEF TaskTyped, ConfigInv, TasksTyped
  <2> QED
    BY <1>0, <2>1, <2>3, <2>4, TaskMoves
<1>2. CASE r.kind = "retry" \/ (config # None /\ C!Edited(t) # None)
  <2>1. task' = [task EXCEPT ![t] = n] /\ interfered' = (interfered \/ C!Holding # {})
    BY <1>2 DEF C!Read
  <2>2. x \in IF r.kind = "retry" THEN C!Settings ELSE ConfigObjects
    <3>1. CASE r.kind = "retry"
      BY <3>1, <1>0 DEF TaskTyped
    <3>2. CASE r.kind # "retry"
      BY <3>2, <1>0, <1>2, EditedIs DEF TaskRecs, C!Kinds
    <3> QED
      BY <3>1, <3>2
  <2> HIDE DEF x
  <2>3. n \in [kind: {r.kind}, at: {"set"}, key: {r.key}, value: {r.value}, cfg: {x}]
    BY <1>0 DEF TaskRecs
  <2> HIDE DEF n
  <2>4. /\ n \in TaskRecs /\ n.kind = r.kind /\ n.at = "set" /\ n.key = r.key /\ n.value = r.value
        /\ n.cfg = x
    BY <2>2, <2>3, <1>0 DEF TaskRecs
  <2>5. task'[t] = n /\ task' \in [Tasks -> TaskRecs] /\ \A u \in Tasks \ {t} : task'[u] = task[u]
    BY <2>1, <2>4 DEF ConfigInv, TasksTyped
  <2>6. TaskTyped(t)'
    BY <1>0, <2>2, <2>4, <2>5 DEF TaskTyped, TaskRecs, C!Kinds
  <2>7. TasksTyped'
    BY <1>0, <2>5, <2>6 DEF ConfigInv, TasksTyped, TaskTyped
  <2>8. interfered' \in BOOLEAN
    BY <2>1 DEF ConfigInv, C!TypeOK
  <2>9. C!TypeOK'
    BY <1>0, <2>5, <2>8 DEF ConfigInv, C!TypeOK, TaskRecs
  <2>10. ASSUME ~interfered' PROVE Calmly'
    <3>1. ~interfered /\ C!Holding = {} /\ Calmly
      BY <2>10, <2>1 DEF ConfigInv, C!TypeOK
    <3>2. C!Holding' = {t}
      BY <3>1, <2>4, <2>5 DEF C!Holding
    <3>3. Agrees'
      BY <3>1, <1>0 DEF Calmly, Agrees, C!Content
    <3>4. Snapshot(t)'
      <4>1. CASE r.kind = "retry"
        BY <4>1, <1>0, <2>4, <2>5 DEF Snapshot, x
      <4>2. CASE r.kind # "retry"
        <5>1. r.kind \in {"register", "unregister", "channelForm", "modelForm"}
          BY <4>2, <1>0 DEF TaskRecs, C!Kinds
        <5> QED
          BY <4>2, <5>1, <1>0, <1>2, <2>4, <2>5, EditedIs DEF Snapshot, x
      <4> QED
        BY <4>1, <4>2
    <3> QED
      BY <3>2, <3>3, <3>4 DEF Calmly
  <2> QED
    BY <2>7, <2>9, <2>10 DEF ConfigInv
<1> QED
  BY <1>1, <1>2

\* What a save makes of the files, and of what was wanted.
LEMMA OverIs ==
    ASSUME NEW new \in C!Keys, NEW was \in C!Keys \cup {None}
    PROVE  C!Over(new, was) \in C!Keys /\ (new = was => C!Over(new, was) = was)
BY DEF C!Over, C!Keys

LEMMA NextSettingsIs ==
    ASSUME settings \in C!Settings \cup {None}, NEW new \in C!Settings \cup {None}
    PROVE  /\ C!NextSettings(new) \in C!Settings \cup {None}
           /\ settings # None => C!NextSettings(new) # None
           /\ new = settings /\ settings # None => C!NextSettings(new).model = settings.model
<1>1. CASE new = None \/ settings = None
  BY <1>1 DEF C!NextSettings
<1>2. CASE new # None /\ settings # None
  <2> DEFINE m == IF new.model = 0 THEN settings.model ELSE new.model
             b == new.retry \/ settings.retry
  <2>1. C!NextSettings(new) = [model |-> m, retry |-> b]
    BY <1>2 DEF C!NextSettings
  <2>2. m \in C!Values /\ b \in BOOLEAN /\ (new = settings => m = settings.model)
    BY <1>2 DEF C!Settings
  <2> HIDE DEF m, b
  <2>3. [model |-> m, retry |-> b] \in C!Settings /\ [model |-> m, retry |-> b].model = m
    BY <2>2 DEF C!Settings
  <2> QED
    BY <1>2, <2>1, <2>2, <2>3, ConfigFacts
<1> QED
  BY <1>1, <1>2

LEMMA WantedUpdates ==
    ASSUME C!TypeOK, NEW v \in C!Values
    PROVE  /\ \A i \in ChannelIds :
                [wanted EXCEPT !.channels[i] = v]
                   \in [channels: {[wanted.channels EXCEPT ![i] = v]}, providers: {wanted.providers},
                        auth: {wanted.auth}, model: {wanted.model}]
           /\ \A p \in Provs :
                /\ [wanted EXCEPT !.providers[p] = v]
                     \in [channels: {wanted.channels}, providers: {[wanted.providers EXCEPT ![p] = v]},
                          auth: {wanted.auth}, model: {wanted.model}]
                /\ [wanted EXCEPT !.providers[p] = v, !.auth[p] = v]
                     \in [channels: {wanted.channels}, providers: {[wanted.providers EXCEPT ![p] = v]},
                          auth: {[wanted.auth EXCEPT ![p] = v]}, model: {wanted.model}]
           /\ [wanted EXCEPT !.model = v]
                \in [channels: {wanted.channels}, providers: {wanted.providers}, auth: {wanted.auth}, model: {v}]
BY DEF C!TypeOK

\* A step of one request that changes the files, and leaves the others.
LEMMA FilesMove ==
    ASSUME ConfigInv, NEW t \in Tasks, NEW n \in TaskRecs, task' = [task EXCEPT ![t] = n],
           n.at # "set", n.kind \in {"none", "provider"}, n.kind = "none" => n.at = "idle",
           n.kind = "provider" => n.key \in Provs,
           config' \in C!Channels \cup {None}, models' \in C!Keys \cup {None},
           auth' \in C!Keys \cup {None}, settings' \in C!Settings \cup {None},
           settings # None => settings' # None,
           UNCHANGED <<adapters, inService, used>>, interfered' \in BOOLEAN,
           wanted' \in [channels: C!Channels, providers: C!Keys, auth: C!Keys, model: C!Values],
           interfered => interfered',
           ~interfered' => Agrees' /\ C!Holding \subseteq {t}
    PROVE  ConfigInv'
<1>1. task'[t] = n /\ task' \in [Tasks -> TaskRecs] /\ \A u \in Tasks \ {t} : task'[u] = task[u]
  BY DEF ConfigInv, TasksTyped
<1>2. TasksTyped'
  <2> SUFFICES ASSUME NEW u \in Tasks PROVE TaskTyped(u)'
    BY <1>1 DEF TasksTyped
  <2>1. CASE u = t
    BY <2>1, <1>1 DEF TaskTyped
  <2>2. CASE u # t
    BY <2>2, <1>1 DEF ConfigInv, TasksTyped, TaskTyped
  <2> QED
    BY <2>1, <2>2
<1>3. C!TypeOK'
  BY <1>1 DEF ConfigInv, C!TypeOK, TaskRecs
<1>4. ~interfered' => C!Holding' = {}
  BY <1>1 DEF C!Holding
<1> QED
  BY <1>2, <1>3, <1>4 DEF ConfigInv, Calmly

LEMMA IdleTask ==
    C!Idle \in TaskRecs /\ C!Idle.at = "idle" /\ C!Idle.kind = "none"
<1>1. C!Idle \in [kind: {"none"}, at: {"idle"}, key: {None}, value: {0}, cfg: {None}]
  BY DEF C!Idle
<1> QED
  BY <1>1, ConfigFacts DEF TaskRecs

LEMMA SaveKeeps ==
    ASSUME ConfigInv, NEW t \in Tasks, C!Save(t)
    PROVE  ConfigInv'
<1> DEFINE r == task[t]
<1>0. /\ r.at = "set" /\ r \in TaskRecs /\ TaskTyped(t)
      /\ r.kind \in {"register", "unregister", "channelForm", "modelForm"} /\ r.cfg \in ConfigObjects
      /\ UNCHANGED <<adapters, inService, used, interfered>> /\ interfered' \in BOOLEAN
      /\ r.value \in C!Values
      /\ task' = [task EXCEPT ![t] = C!Idle] /\ t \in C!Holding
  BY DEF C!Save, ConfigInv, C!TypeOK, TasksTyped, TaskTyped, C!Holding
<1>1. /\ config' = r.cfg.channels /\ models' = C!NextModels(r.cfg.providers)
      /\ settings' = C!NextSettings(r.cfg.agent) /\ auth' = C!NextAuth(r.cfg.auth)
      /\ wanted' = C!Noted(r)
  BY DEF C!Save, C!Set
<1>2. /\ config \in C!Channels \cup {None} /\ models \in C!Keys \cup {None} /\ auth \in C!Keys \cup {None}
      /\ settings \in C!Settings \cup {None}
      /\ wanted \in [channels: C!Channels, providers: C!Keys, auth: C!Keys, model: C!Values]
  BY DEF ConfigInv, C!TypeOK
<1>3. /\ r.cfg.channels \in C!Channels /\ r.cfg.providers \in C!Keys \cup {None}
      /\ r.cfg.auth \in C!Keys \cup {None} /\ r.cfg.agent \in C!Settings \cup {None}
  BY <1>0 DEF ConfigObjects
<1>4. models' \in C!Keys \cup {None}
  BY <1>1, <1>2, <1>3 DEF C!NextModels
<1>5. auth' \in C!Keys \cup {None} /\ (r.cfg.auth = auth => auth' = auth)
  BY <1>1, <1>2, <1>3, OverIs DEF C!NextAuth
<1>6. /\ settings' \in C!Settings \cup {None} /\ (settings # None => settings' # None)
      /\ r.cfg.agent = settings /\ settings # None => settings'.model = settings.model
  BY <1>1, <1>2, <1>3, NextSettingsIs
<1>7. /\ r.kind = "modelForm" => wanted' = [wanted EXCEPT !.providers[r.key] = r.value]
      /\ r.kind = "channelForm" /\ r.cfg.channels[r.key] = 0 => wanted' = wanted
      /\ r.kind = "channelForm" /\ r.cfg.channels[r.key] # 0
            => wanted' = [wanted EXCEPT !.channels[r.key] = r.value]
      /\ r.kind \in {"register", "unregister"} => wanted' = [wanted EXCEPT !.channels[r.key] = r.value]
  BY <1>0, <1>1 DEF C!Noted
<1>8. C!TypeOK
  BY DEF ConfigInv
<1>9. \/ wanted' = wanted
      \/ /\ r.key \in ChannelIds
         /\ wanted' \in [channels: {[wanted.channels EXCEPT ![r.key] = r.value]},
                         providers: {wanted.providers}, auth: {wanted.auth}, model: {wanted.model}]
      \/ /\ r.key \in Provs
         /\ wanted' \in [channels: {wanted.channels}, providers: {[wanted.providers EXCEPT ![r.key] = r.value]},
                         auth: {wanted.auth}, model: {wanted.model}]
  BY <1>0, <1>7, <1>8, WantedUpdates DEF TaskTyped
<1>10. wanted' \in [channels: C!Channels, providers: C!Keys, auth: C!Keys, model: C!Values]
  <2>1. \A w \in C!Channels : \A i : [w EXCEPT ![i] = r.value] \in C!Channels
    BY <1>0 DEF C!Channels
  <2>2. \A w \in C!Keys : \A i : [w EXCEPT ![i] = r.value] \in C!Keys
    BY <1>0 DEF C!Keys
  <2>3. /\ wanted.channels \in C!Channels /\ wanted.providers \in C!Keys /\ wanted.auth \in C!Keys
        /\ wanted.model \in C!Values
    BY <1>2
  <2> DEFINE cs == [wanted.channels EXCEPT ![r.key] = r.value]
             ps == [wanted.providers EXCEPT ![r.key] = r.value]
  <2>4. cs \in C!Channels /\ ps \in C!Keys
    BY <2>1, <2>2, <2>3
  <2> HIDE DEF cs, ps
  <2>5. CASE wanted' \in [channels: {cs}, providers: {wanted.providers}, auth: {wanted.auth},
                         model: {wanted.model}]
    BY <2>3, <2>4, <2>5
  <2>6. CASE wanted' \in [channels: {wanted.channels}, providers: {ps}, auth: {wanted.auth},
                         model: {wanted.model}]
    BY <2>3, <2>4, <2>6
  <2> QED
    BY <1>2, <1>9, <2>5, <2>6 DEF cs, ps
<1>11. wanted'.auth = wanted.auth /\ wanted'.model = wanted.model
  BY <1>9
<1>12. ASSUME ~interfered PROVE Agrees' /\ C!Holding \subseteq {t}
  <2>1. Calmly /\ Snapshot(t) /\ Agrees
    BY <1>0, <1>12 DEF ConfigInv, Calmly
  <2>2. auth' = auth /\ r.cfg.agent = settings
    BY <2>1, <1>0, <1>5 DEF Snapshot
  <2>3. (C!Content(auth, Provs) = wanted.auth)'
    BY <2>1, <2>2, <1>11 DEF Agrees, C!Content
  <2>4. (wanted.model # 0 => settings # None /\ settings.model = wanted.model)'
    BY <2>1, <2>2, <1>6, <1>11 DEF Agrees
  <2>5. config' = wanted'.channels
    <3>1. config = wanted.channels /\ config \in C!Channels
      BY <2>1, <1>2 DEF Agrees
    <3>2. CASE r.kind \in {"register", "unregister"}
      <4>1. r.key \in ChannelIds /\ wanted' \in [channels: {[wanted.channels EXCEPT ![r.key] = r.value]},
                         providers: {wanted.providers}, auth: {wanted.auth}, model: {wanted.model}]
        BY <1>0, <1>7, <1>8, <3>2, WantedUpdates DEF TaskTyped
      <4> QED
        BY <4>1, <3>1, <3>2, <2>1, <1>1 DEF Snapshot
    <3>3. CASE r.kind = "modelForm"
      <4>1. r.key \in Provs /\ wanted' \in [channels: {wanted.channels},
                         providers: {[wanted.providers EXCEPT ![r.key] = r.value]},
                         auth: {wanted.auth}, model: {wanted.model}]
        BY <1>0, <1>7, <1>8, <3>3, WantedUpdates DEF TaskTyped
      <4> QED
        BY <4>1, <3>1, <3>3, <2>1, <1>1 DEF Snapshot
    <3>4. CASE r.kind = "channelForm"
      <4>0. r.key \in ChannelIds /\ r.value # 0
        BY <1>0, <3>4 DEF TaskTyped
      <4>1. CASE config[r.key] = 0 /\ r.cfg.channels = config
        BY <4>1, <3>1, <3>4, <1>1, <1>7
      <4>2. CASE config[r.key] # 0 /\ r.cfg.channels = [config EXCEPT ![r.key] = r.value]
        <5>1. r.cfg.channels[r.key] # 0
          BY <4>0, <4>2, <3>1 DEF C!Channels
        <5>2. wanted' \in [channels: {[wanted.channels EXCEPT ![r.key] = r.value]},
                         providers: {wanted.providers}, auth: {wanted.auth}, model: {wanted.model}]
          BY <5>1, <4>0, <1>0, <1>7, <1>8, <3>4, WantedUpdates
        <5> QED
          BY <5>2, <4>2, <3>1, <1>1
      <4> QED
        BY <4>1, <4>2, <2>1, <3>4 DEF Snapshot
    <3> QED
      BY <3>2, <3>3, <3>4, <1>0
  <2> QED
    BY <2>1, <2>3, <2>4, <2>5, <1>0 DEF Agrees, Calmly
<1>13. config' \in C!Channels \cup {None}
  BY <1>1, <1>3
<1> HIDE DEF r
<1> QED
  BY <1>0, <1>4, <1>5, <1>6, <1>10, <1>12, <1>13, IdleTask, FilesMove

LEMMA PersistKeeps ==
    ASSUME ConfigInv, NEW t \in Tasks, C!PersistRetrySettings(t)
    PROVE  ConfigInv'
<1> DEFINE r == task[t]
           x == [r.cfg EXCEPT !.retry = TRUE]
<1>0. /\ r.at = "set" /\ r.kind = "retry" /\ r.cfg \in C!Settings /\ settings # None /\ t \in C!Holding
      /\ UNCHANGED <<config, models, auth, adapters, inService, used, wanted, interfered>>
      /\ settings' = x /\ task' = [task EXCEPT ![t] = C!Idle]
  BY DEF C!PersistRetrySettings, ConfigInv, TasksTyped, TaskTyped, C!Holding
<1>1. x \in C!Settings /\ x.model = r.cfg.model
  BY <1>0 DEF C!Settings
<1> HIDE DEF x
<1>2. settings' \in C!Settings /\ settings' # None /\ settings'.model = r.cfg.model
  BY <1>0, <1>1, ConfigFacts
<1>3. /\ config \in C!Channels \cup {None} /\ models \in C!Keys \cup {None} /\ auth \in C!Keys \cup {None}
      /\ wanted \in [channels: C!Channels, providers: C!Keys, auth: C!Keys, model: C!Values]
      /\ interfered \in BOOLEAN
  BY DEF ConfigInv, C!TypeOK
<1>4. ASSUME ~interfered PROVE Agrees' /\ C!Holding \subseteq {t}
  <2>1. Agrees /\ r.cfg = settings /\ C!Holding \subseteq {t}
    BY <1>0, <1>4 DEF ConfigInv, Calmly, Snapshot
  <2> QED
    BY <2>1, <1>0, <1>2 DEF Agrees, C!Content
<1> HIDE DEF r
<1> QED
  BY <1>0, <1>2, <1>3, <1>4, IdleTask, FilesMove

LEMMA WriteModelsKeeps ==
    ASSUME ConfigInv, NEW t \in Tasks, C!WriteModels(t)
    PROVE  ConfigInv'
<1> DEFINE r == task[t]
           n == [r EXCEPT !.at = "settings"]
           Written(file) == [(IF file = None THEN C!Empty(Provs) ELSE file) EXCEPT ![r.key] = r.value]
<1>0. /\ r.kind = "provider" /\ r.at = "read" /\ r \in TaskRecs /\ r.key \in Provs /\ r.value \in C!Values
      /\ config \in C!Channels \cup {None} /\ models \in C!Keys \cup {None} /\ auth \in C!Keys \cup {None}
      /\ settings \in C!Settings \cup {None} /\ interfered \in BOOLEAN
      /\ wanted \in [channels: C!Channels, providers: C!Keys, auth: C!Keys, model: C!Values]
  BY DEF C!WriteModels, ConfigInv, C!TypeOK, TasksTyped, TaskTyped, TaskRecs
<1>1. /\ task' = [task EXCEPT ![t] = n] /\ models' = Written(models)
      /\ interfered' = (interfered \/ C!Holding # {})
      /\ UNCHANGED <<config, settings, adapters, inService, used>>
      /\ \/ auth' = Written(auth) /\ wanted' = [wanted EXCEPT !.providers[r.key] = r.value, !.auth[r.key] = r.value]
         \/ auth' = auth /\ wanted' = [wanted EXCEPT !.providers[r.key] = r.value]
  BY DEF C!WriteModels
<1>2. n \in [kind: {"provider"}, at: {"settings"}, key: {r.key}, value: {r.value}, cfg: {r.cfg}]
  BY <1>0 DEF TaskRecs
<1> HIDE DEF n
<1>3. n \in TaskRecs /\ n.kind = "provider" /\ n.at = "settings" /\ n.key \in Provs
  BY <1>0, <1>2 DEF TaskRecs, C!Kinds
<1>4. \A file \in C!Keys \cup {None} :
         /\ Written(file) \in C!Keys
         /\ Written(file) = [C!Content(file, Provs) EXCEPT ![r.key] = r.value]
  BY <1>0, ConfigFacts DEF C!Keys, C!Content
<1>5. C!TypeOK
  BY DEF ConfigInv
<1> DEFINE ps == [wanted.providers EXCEPT ![r.key] = r.value]
           as == [wanted.auth EXCEPT ![r.key] = r.value]
<1>6. ps \in C!Keys /\ as \in C!Keys
  BY <1>0 DEF C!Keys
<1>7. \/ /\ auth' = Written(auth)
         /\ wanted' \in [channels: {wanted.channels}, providers: {ps}, auth: {as}, model: {wanted.model}]
      \/ /\ auth' = auth
         /\ wanted' \in [channels: {wanted.channels}, providers: {ps}, auth: {wanted.auth}, model: {wanted.model}]
  <2>1. /\ [wanted EXCEPT !.providers[r.key] = r.value]
              \in [channels: {wanted.channels}, providers: {ps}, auth: {wanted.auth}, model: {wanted.model}]
        /\ [wanted EXCEPT !.providers[r.key] = r.value, !.auth[r.key] = r.value]
              \in [channels: {wanted.channels}, providers: {ps}, auth: {as}, model: {wanted.model}]
    BY <1>0, <1>5, WantedUpdates
  <2> HIDE DEF ps, as, Written
  <2> QED
    BY <1>1, <2>1
<1>8. models' \in C!Keys /\ auth' \in C!Keys \cup {None}
  BY <1>0, <1>1, <1>4
<1>9. (C!Content(auth, Provs) = wanted.auth) => (C!Content(auth, Provs) = wanted.auth)'
  <2> SUFFICES ASSUME C!Content(auth, Provs) = wanted.auth
               PROVE  (C!Content(auth, Provs) = wanted.auth)'
    OBVIOUS
  <2>1. CASE auth' = Written(auth) /\ wanted'.auth = as
    <3>1. auth' = as /\ auth' # None
      BY <2>1, <1>0, <1>4, <1>6, ConfigFacts
    <3> QED
      BY <2>1, <3>1 DEF C!Content
  <2>2. CASE auth' = auth /\ wanted'.auth = wanted.auth
    BY <2>2 DEF C!Content
  <2> QED
    BY <2>1, <2>2, <1>7
<1> HIDE DEF ps, as, Written
<1>10. /\ wanted' \in [channels: C!Channels, providers: C!Keys, auth: C!Keys, model: C!Values]
       /\ wanted'.channels = wanted.channels /\ wanted'.model = wanted.model
  <2>1. /\ wanted.channels \in C!Channels /\ wanted.auth \in C!Keys /\ wanted.model \in C!Values
    BY <1>0
  <2>2. CASE wanted' \in [channels: {wanted.channels}, providers: {ps}, auth: {as}, model: {wanted.model}]
    BY <2>1, <2>2, <1>6
  <2>3. CASE wanted' \in [channels: {wanted.channels}, providers: {ps}, auth: {wanted.auth}, model: {wanted.model}]
    BY <2>1, <2>3, <1>6
  <2> QED
    BY <2>2, <2>3, <1>7
<1>11. ASSUME ~interfered' PROVE Agrees' /\ C!Holding \subseteq {t}
  <2>1. ~interfered /\ C!Holding = {} /\ Agrees
    BY <1>0, <1>1, <1>11 DEF ConfigInv, Calmly
  <2> QED
    BY <2>1, <1>1, <1>9, <1>10 DEF Agrees
<1>12. interfered' \in BOOLEAN /\ (interfered => interfered')
  BY <1>1
<1> HIDE DEF r
<1> QED
  BY <1>0, <1>1, <1>3, <1>8, <1>10, <1>11, <1>12, FilesMove

LEMMA WriteSettingsKeeps ==
    ASSUME ConfigInv, NEW t \in Tasks, C!WriteSettings(t)
    PROVE  ConfigInv'
<1> DEFINE r == task[t]
           x == IF settings = None THEN [model |-> r.value, retry |-> FALSE]
                ELSE [settings EXCEPT !.model = r.value]
<1>0. /\ r.value \in C!Values
      /\ config \in C!Channels \cup {None} /\ models \in C!Keys \cup {None} /\ auth \in C!Keys \cup {None}
      /\ settings \in C!Settings \cup {None} /\ interfered \in BOOLEAN
      /\ wanted \in [channels: C!Channels, providers: C!Keys, auth: C!Keys, model: C!Values]
  BY DEF ConfigInv, C!TypeOK
<1>1. /\ task' = [task EXCEPT ![t] = C!Idle] /\ settings' = x
      /\ interfered' = (interfered \/ C!Holding # {})
      /\ UNCHANGED <<config, models, auth, adapters, inService, used>>
      /\ wanted' = [wanted EXCEPT !.model = r.value]
  BY DEF C!WriteSettings
<1>2. x \in C!Settings /\ x.model = r.value
  <2>1. CASE settings = None
    BY <2>1, <1>0 DEF C!Settings
  <2>2. CASE settings # None
    BY <2>2, <1>0 DEF C!Settings
  <2> QED
    BY <2>1, <2>2
<1> HIDE DEF x
<1>3. settings' \in C!Settings /\ settings' # None /\ settings'.model = r.value
  BY <1>1, <1>2, ConfigFacts
<1>4. C!TypeOK
  BY DEF ConfigInv
<1>5. wanted' \in [channels: {wanted.channels}, providers: {wanted.providers}, auth: {wanted.auth},
                   model: {r.value}]
  BY <1>0, <1>1, <1>4, WantedUpdates
<1>6. wanted' \in [channels: C!Channels, providers: C!Keys, auth: C!Keys, model: C!Values]
  BY <1>0, <1>5
<1>7. ASSUME ~interfered' PROVE Agrees' /\ C!Holding \subseteq {t}
  <2>1. ~interfered /\ C!Holding = {} /\ Agrees
    BY <1>0, <1>1, <1>7 DEF ConfigInv, Calmly
  <2> QED
    BY <2>1, <1>1, <1>3, <1>5 DEF Agrees, C!Content
<1>8. interfered' \in BOOLEAN /\ (interfered => interfered')
  BY <1>1
<1> HIDE DEF r
<1> QED
  BY <1>0, <1>1, <1>3, <1>6, <1>7, <1>8, IdleTask, FilesMove

LEMMA CliRegisterKeeps ==
    ASSUME ConfigInv, NEW i \in ChannelIds, C!CliRegisterChannel(i)
    PROVE  ConfigInv'
<1> DEFINE v == used + 1
           x == [(IF config = None THEN C!Empty(ChannelIds) ELSE config) EXCEPT ![i] = v]
<1>0. /\ config \in C!Channels \cup {None} /\ models \in C!Keys \cup {None} /\ auth \in C!Keys \cup {None}
      /\ settings \in C!Settings \cup {None} /\ interfered \in BOOLEAN
      /\ wanted \in [channels: C!Channels, providers: C!Keys, auth: C!Keys, model: C!Values]
      /\ C!TypeOK
  BY DEF ConfigInv, C!TypeOK
<1>1. /\ v \in Edits /\ used' = v /\ config' = x /\ wanted' = [wanted EXCEPT !.channels[i] = v]
      /\ interfered' = (interfered \/ C!Holding # {})
      /\ UNCHANGED <<models, auth, settings, adapters, inService, task>>
  BY DEF C!CliRegisterChannel
<1>2. v \in C!Values
  BY <1>1 DEF C!Values
<1> HIDE DEF v
<1>3. x \in C!Channels /\ (config # None => x = [config EXCEPT ![i] = v])
  BY <1>0, <1>2, ConfigFacts DEF C!Channels
<1> HIDE DEF x
<1> DEFINE cs == [wanted.channels EXCEPT ![i] = v]
<1>4. wanted' \in [channels: {cs}, providers: {wanted.providers}, auth: {wanted.auth}, model: {wanted.model}]
  BY <1>0, <1>1, <1>2, WantedUpdates
<1>5. cs \in C!Channels
  BY <1>0, <1>2 DEF C!Channels
<1>6. ~interfered' => Calmly'
  <2> SUFFICES ASSUME ~interfered' PROVE Calmly'
    OBVIOUS
  <2>1. ~interfered /\ C!Holding = {} /\ Agrees
    BY <1>0, <1>1 DEF ConfigInv, Calmly
  <2>2. C!Holding' = {}
    BY <2>1, <1>1 DEF C!Holding
  <2>3. config # None /\ config' = cs
    BY <2>1, <1>0, <1>1, <1>3, ConfigFacts DEF Agrees
  <2>4. wanted'.channels = cs /\ wanted'.auth = wanted.auth /\ wanted'.model = wanted.model
    BY <1>4
  <2> QED
    BY <2>1, <2>2, <2>3, <2>4, <1>1 DEF Agrees, Calmly, C!Content
<1> HIDE DEF cs
<1>7. wanted' \in [channels: C!Channels, providers: C!Keys, auth: C!Keys, model: C!Values]
  BY <1>0, <1>4, <1>5
<1>8. C!TypeOK'
  BY <1>0, <1>1, <1>2, <1>3, <1>7 DEF C!TypeOK
<1>9. TasksTyped'
  BY <1>1 DEF ConfigInv, TasksTyped, TaskTyped
<1> QED
  BY <1>6, <1>8, <1>9 DEF ConfigInv

LEMMA ConfigCrashKeeps ==
    ASSUME ConfigInv, C!Crash
    PROVE  ConfigInv'
<1>0. /\ config \in C!Channels \cup {None} /\ models \in C!Keys \cup {None} /\ auth \in C!Keys \cup {None}
      /\ settings \in C!Settings \cup {None} /\ interfered \in BOOLEAN /\ used \in C!Values
      /\ wanted \in [channels: C!Channels, providers: C!Keys, auth: C!Keys, model: C!Values]
      /\ task \in [Tasks -> TaskRecs] /\ \A t \in Tasks : TaskTyped(t)
  BY DEF ConfigInv, C!TypeOK, TasksTyped
<1>1. task' = C!DiesWith /\ inService' = FALSE /\ adapters' = {} /\ UNCHANGED <<used, wanted>>
  BY DEF C!Crash
<1>2. /\ task' \in [Tasks -> TaskRecs]
      /\ \A t \in Tasks : \/ task'[t] = C!Idle
                          \/ task'[t] = task[t] /\ task[t].kind = "provider"
  BY <1>0, <1>1, IdleTask DEF C!DiesWith
<1>3. TasksTyped' /\ C!Holding' = {}
  <2>1. ASSUME NEW t \in Tasks PROVE TaskTyped(t)' /\ task'[t].at # "set"
    <3>1. CASE task'[t] = C!Idle
      BY <3>1, IdleTask DEF TaskTyped
    <3>2. CASE task'[t] = task[t] /\ task[t].kind = "provider"
      BY <3>2, <1>0 DEF TaskTyped
    <3> QED
      BY <3>1, <3>2, <1>2
  <2> QED
    BY <1>2, <2>1 DEF TasksTyped, C!Holding
<1>4. \A t \in Tasks : /\ task'[t].kind \in C!Kinds \cup {"none"}
                       /\ task'[t].key \in ChannelIds \cup Provs \cup {None}
                       /\ task'[t].value \in C!Values
  BY <1>2 DEF TaskRecs
<1>5. CASE UNCHANGED <<config, models, auth, settings, interfered>>
  <2>1. C!TypeOK'
    BY <1>0, <1>1, <1>4, <1>5 DEF ConfigInv, C!TypeOK
  <2>2. ~interfered' => Calmly'
    BY <1>1, <1>3, <1>5 DEF ConfigInv, Calmly, Agrees, C!Content
  <2> QED
    BY <1>3, <2>1, <2>2 DEF ConfigInv
<1>6. ASSUME NEW t \in Tasks, task[t].at = "set", task[t].kind \notin {"retry", "provider"},
             C!SetCutShort(task[t].cfg), interfered' = TRUE
      PROVE  ConfigInv'
  <2>1. task[t].cfg \in ConfigObjects
    BY <1>0, <1>6 DEF TaskTyped
  <2> DEFINE cfg == task[t].cfg
  <2>2. /\ cfg.channels \in C!Channels /\ cfg.providers \in C!Keys \cup {None}
        /\ cfg.agent \in C!Settings \cup {None}
    BY <2>1 DEF ConfigObjects
  <2>3. C!NextModels(cfg.providers) \in C!Keys \cup {None}
    BY <1>0, <2>2 DEF C!NextModels
  <2>4. C!NextSettings(cfg.agent) \in C!Settings \cup {None}
    BY <1>0, <2>2, NextSettingsIs
  <2> HIDE DEF cfg
  <2>5. /\ config' \in C!Channels \cup {None} /\ models' \in C!Keys \cup {None}
        /\ auth' \in C!Keys \cup {None} /\ settings' \in C!Settings \cup {None}
    BY <1>0, <1>6, <2>2, <2>3, <2>4 DEF C!SetCutShort, cfg
  <2>6. C!TypeOK'
    BY <1>0, <1>1, <1>4, <1>6, <2>5 DEF C!TypeOK
  <2> QED
    BY <1>3, <1>6, <2>6 DEF ConfigInv
<1> QED
  BY <1>5, <1>6 DEF C!Crash, C!files

LEMMA ConfigStays ==
    ASSUME ConfigInv, [C!Next]_C!vars
    PROVE  ConfigInv'
<1>1. CASE C!Next
  <2>1. ASSUME NEW t \in Tasks,
               \/ \E i \in ChannelIds : C!Register(t, i) \/ C!Unregister(t, i) \/ C!ChannelForm(t, i)
               \/ \E p \in Provs : C!ModelForm(t, p) \/ C!ConfigureProvider(t, p)
               \/ C!Boot(t)
        PROVE  ConfigInv'
    BY <2>1, BeginKeepsConfig
  <2>2. ASSUME NEW t \in Tasks, C!Read(t) PROVE ConfigInv'
    BY <2>2, ReadKeeps
  <2>3. ASSUME NEW t \in Tasks, C!Save(t) PROVE ConfigInv'
    BY <2>3, SaveKeeps
  <2>4. ASSUME NEW t \in Tasks, C!PersistRetrySettings(t) PROVE ConfigInv'
    BY <2>4, PersistKeeps
  <2>5. ASSUME NEW t \in Tasks, C!WriteModels(t) PROVE ConfigInv'
    BY <2>5, WriteModelsKeeps
  <2>6. ASSUME NEW t \in Tasks, C!WriteSettings(t) PROVE ConfigInv'
    BY <2>6, WriteSettingsKeeps
  <2>7. ASSUME NEW i \in ChannelIds, C!CliRegisterChannel(i) PROVE ConfigInv'
    BY <2>7, CliRegisterKeeps
  <2> QED
    BY <1>1, <2>1, <2>2, <2>3, <2>4, <2>5, <2>6, <2>7, ConfigCrashKeeps DEF C!Next
<1>2. CASE UNCHANGED C!vars
  BY <1>2
  DEF C!vars, C!files, ConfigInv, C!TypeOK, TasksTyped, TaskTyped, Calmly, Agrees, C!Content,
     C!Holding, Snapshot
<1> QED
  BY <1>1, <1>2

\* What was acknowledged stays in the files while no two rewrites of the configuration overlap
\* (config.set, the console's forms, the agent's retry settings and the CLI's own writers).
THEOREM ConfigIsKept == AllSpec => []ConfigKept
<1>1. AllInit => (part = "config" => ConfigInv)
  BY ConfigInit DEF AllInit
<1>2. (part = "config" => ConfigInv) /\ [AllNext]_allVars => (part = "config" => ConfigInv)'
  BY PartSteps, ConfigStays
<1>3. (part = "config" => ConfigInv) => ConfigKept
  BY DEF ConfigKept, ConfigInv, Calmly, Agrees, C!SavesStay
<1> QED
  BY <1>1, <1>2, <1>3, PTL DEF AllSpec

-----------------------------------------------------------------------------
(* PairDialog *)

\* The calls of begin() are counted.
BegunCounted ==
    P!Begun = {n \in Starts : n <= P!Latest} /\ P!Latest \in {0} \cup P!Begun

\* The dialog on the screen is the one of the latest call.
Homes == (\A n \in P!Begun : home[n] \in P!Begun) /\ (mount # 0 => home[P!Latest] = mount)

\* An interval that runs is the one that the pollRef of its mount holds.
Polling ==
    /\ \A m \in Starts : poll[m] # 0 => home[poll[m]] = m
    /\ \A n \in polls : start[n] = "over" /\ poll[home[n]] = n

\* Whatever is under way since the last cleanup is of the dialog on the screen.
Underway(n) == n \in polls \/ start[n] \in {"asked", "ok"}
Followed == \A n \in P!Begun : Underway(n) => n \in early \/ (mount # 0 /\ home[n] = mount)

\* A dialog whose latest start was answered and that does not poll shows an end, or a status that
\* came when its interval was stopped.
Settles ==
    mount # 0 /\ poll[mount] = 0 /\ start[P!Latest] = "over" => shown \in P!Ended \/ late

\* No cancel is of the latest effect while that one's dialog is on the screen.
Uncancelled == mount # 0 => P!Latest \notin cancels

\* The daemon has a session for the dialog on the screen, or will hear of it, or has refused, or
\* the dialog does not know.
Served ==
    mount # 0 => \/ session # "idle" \/ crossed \/ shown = "refused"
                 \/ start[P!Latest] \in {"asked", "failed", "dropped", "lost"}

\* A status that has been read is of an interval.
Answers == \A q \in Asks : told[q] # "none" => asking[q] # 0

PairInv ==
    /\ P!TypeOK /\ BegunCounted /\ Homes /\ Polling /\ Followed /\ Settles /\ Uncancelled
    /\ Served /\ Answers

LEMMA StartsAre == Starts \subseteq Nat /\ 0 \notin Starts
BY PartsAssumption DEF P!StartsAssumption

LEMMA MaxIs ==
    ASSUME NEW Q \in SUBSET Nat, NEW b \in Q, \A k \in Q : k <= b
    PROVE  (CHOOSE n \in Q : \A k \in Q : k <= n) = b
<1> DEFINE c == CHOOSE n \in Q : \A k \in Q : k <= n
<1>1. c \in Q /\ \A k \in Q : k <= c
  OBVIOUS
<1> HIDE DEF c
<1>2. c = b
  BY <1>1
<1> QED
  BY <1>2 DEF c

LEMMA PairInit == P!Init => PairInv
<1> SUFFICES ASSUME P!Init PROVE PairInv
  OBVIOUS
<1>1. P!Begun = {} /\ P!Latest = 0
  BY DEF P!Init, P!Begun, P!Latest
<1>2. P!TypeOK
  BY <1>1, StartsAre DEF P!Init, P!TypeOK, P!Phases, P!Stages
<1>3. BegunCounted
  <2>1. \A n \in Starts : ~(n <= 0)
    BY StartsAre
  <2> QED
    BY <1>1, <2>1 DEF BegunCounted
<1> QED
  BY <1>1, <1>2, <1>3
  DEF P!Init, PairInv, Homes, Polling, Followed, Settles, Uncancelled, Served, Answers

LEMMA LatestIs ==
    ASSUME PairInv
    PROVE  /\ P!Latest \in Nat /\ P!Begun \subseteq Starts
           /\ P!Begun # {} => P!Latest \in P!Begun
           /\ \A n \in P!Begun : n <= P!Latest
           /\ \A n \in Starts : n \in P!Begun <=> start[n] # "no"
<1>1. P!Begun \subseteq Starts /\ \A n \in Starts : n \in P!Begun <=> start[n] # "no"
  BY DEF P!Begun
<1>2. BegunCounted
  BY DEF PairInv
<1>3. P!Latest \in Nat /\ \A n \in P!Begun : n <= P!Latest
  BY <1>1, <1>2, StartsAre DEF BegunCounted
<1>4. ASSUME P!Begun # {} PROVE P!Latest # 0
  <2>1. \A n \in Starts : ~(n <= 0)
    BY StartsAre
  <2> QED
    BY <1>2, <1>4, <2>1 DEF BegunCounted
<1> QED
  BY <1>1, <1>2, <1>3, <1>4 DEF BegunCounted

\* begin() is one call more.
LEMMA BeginDoes ==
    ASSUME PairInv, NEW m \in Starts, P!Begin(m)
    PROVE  /\ P!Latest + 1 \in Starts \ P!Begun /\ P!Latest' = P!Latest + 1
           /\ P!Begun' = P!Begun \cup {P!Latest'} /\ BegunCounted'
           /\ start'[P!Latest'] = "asked" /\ home'[P!Latest'] = m
           /\ \A n \in P!Begun : start'[n] = start[n] /\ home'[n] = home[n]
           /\ start' \in [Starts -> P!Stages]
           /\ home' \in [Starts -> {0} \cup Starts]
           /\ \A n \in Starts : start'[n] \in {"ok", "failed", "over"} => start'[n] = start[n]
           /\ late' = FALSE
<1> DEFINE b == P!Latest + 1
<1>1. /\ b \in Starts /\ b \in Nat /\ start' = [start EXCEPT ![b] = "asked"] /\ home' = [home EXCEPT ![b] = m]
      /\ start \in [Starts -> P!Stages] /\ home \in [Starts -> {0} \cup Starts]
      /\ P!Begun = {n \in Starts : n <= P!Latest} /\ P!Latest \in Nat
  BY StartsAre, LatestIs DEF P!Begin, PairInv, P!TypeOK, BegunCounted
<1>0. late' = FALSE
  BY DEF P!Begin
<1>2. b \notin P!Begun
  BY <1>1
<1> HIDE DEF b
<1>3. P!Begun' = P!Begun \cup {b}
  BY <1>1 DEF P!Begun
<1>4. \A n \in P!Begun' : n <= b
  BY <1>1, <1>3, StartsAre DEF b
<1>5. (P!Latest)' = b
  <2>1. P!Begun' \in SUBSET Nat /\ b \in P!Begun' /\ P!Begun' # {}
    BY <1>1, <1>3, StartsAre
  <2> QED
    BY <1>4, <2>1, MaxIs DEF P!Latest
<1>6. {n \in Starts : n <= b} = P!Begun \cup {b}
  <2>1. \A n \in Starts : n <= b <=> n <= P!Latest \/ n = b
    BY <1>1, StartsAre DEF b
  <2> QED
    BY <1>1, <2>1
<1>7. BegunCounted'
  BY <1>3, <1>5, <1>6 DEF BegunCounted
<1> QED
  BY <1>0, <1>1, <1>2, <1>3, <1>5, <1>7 DEF b, P!Stages

\* The other steps are no calls.
LEMMA BegunStays ==
    ASSUME PairInv, \A n \in Starts : start'[n] = "no" <=> start[n] = "no"
    PROVE  P!Begun' = P!Begun /\ P!Latest' = P!Latest /\ BegunCounted'
<1>1. P!Begun' = P!Begun
  BY DEF P!Begun
<1>2. P!Latest' = P!Latest
  BY <1>1 DEF P!Latest
<1> QED
  BY <1>1, <1>2 DEF PairInv, BegunCounted

\* What the cleanup leaves is known to be under way.
LEMMA CleanUpDoes ==
    ASSUME PairInv, mount # 0, P!CleanUp
    PROVE  /\ mount \in Starts /\ mount \in P!Begun /\ P!Latest \in P!Begun
           /\ poll' \in [Starts -> {0} \cup polls'] /\ polls' \subseteq polls /\ poll'[mount] = 0
           /\ \A m \in Starts \ {mount} : poll'[m] = poll[m]
           /\ \A n \in polls' : poll'[home[n]] = n /\ home[n] # mount
           /\ cancels' \subseteq P!Begun /\ early \subseteq early' /\ early' \subseteq P!Begun
           /\ \A n \in P!Begun : n \in polls' \/ start[n] \in {"asked", "ok"} => n \in early'
<1>0. /\ mount \in P!Begun /\ P!Begun \subseteq Starts /\ poll \in [Starts -> {0} \cup polls]
      /\ polls \subseteq P!Begun /\ cancels \subseteq P!Begun /\ early \subseteq P!Begun
      /\ \A n \in Starts : n \in P!Begun <=> start[n] # "no"
  BY LatestIs DEF PairInv, P!TypeOK
<1>1. P!Latest \in P!Begun
  BY <1>0, LatestIs
<1>2. /\ polls' = polls \ {poll[mount]} /\ poll' = [poll EXCEPT ![mount] = 0]
      /\ cancels' \subseteq cancels \cup {P!Latest}
      /\ early' = early \cup {n \in Starts : start[n] \in {"asked", "ok"}}
  BY DEF P!CleanUp
<1>3. \A n \in polls : home[n] \in Starts /\ poll[home[n]] = n
  BY <1>0 DEF PairInv, Polling, Homes
<1>4. \A m \in Starts : poll[m] # 0 => home[poll[m]] = m
  BY DEF PairInv, Polling
<1>5. \A n \in polls' : home[n] # mount
  BY <1>2, <1>3
<1>6. \A m \in Starts : m # mount => poll[m] # poll[mount] \/ poll[m] = 0
  BY <1>0, <1>4
<1>7. poll' \in [Starts -> {0} \cup polls']
  BY <1>0, <1>2, <1>6
<1>8. \A n \in P!Begun : n \in polls' => n \in early'
  BY <1>2, <1>5 DEF PairInv, Followed, Underway
<1>9. early' \subseteq P!Begun
  BY <1>0, <1>2
<1> QED
  BY <1>0, <1>1, <1>2, <1>3, <1>5, <1>7, <1>8, <1>9

LEMMA PairFacts ==
    ASSUME PairInv
    PROVE  /\ mount \in {0} \cup P!Begun /\ P!Begun \subseteq Starts /\ crossed \in BOOLEAN
           /\ shown \in P!Phases \cup {"refused"} /\ session \in P!Phases
           /\ late \in BOOLEAN /\ told \in [Asks -> P!Phases \cup {"none"}]
           /\ start \in [Starts -> P!Stages]
           /\ home \in [Starts -> {0} \cup Starts] /\ poll \in [Starts -> {0} \cup polls]
           /\ cancels \subseteq P!Begun /\ early \subseteq P!Begun /\ polls \subseteq P!Begun
           /\ closing \subseteq P!Begun /\ done \subseteq P!Begun
           /\ asking \in [Asks -> {0} \cup P!Begun]
BY DEF PairInv, P!TypeOK, P!Begun

\* The types after a step, from those of each variable.
LEMMA PairTyped ==
    ASSUME BegunCounted', mount' \in {0} \cup P!Begun', crossed' \in BOOLEAN,
           shown' \in P!Phases \cup {"refused"}, session' \in P!Phases,
           told' \in [Asks -> P!Phases \cup {"none"}], late' \in BOOLEAN,
           start' \in [Starts -> P!Stages],
           home' \in [Starts -> {0} \cup Starts], poll' \in [Starts -> {0} \cup polls'],
           cancels' \subseteq P!Begun', early' \subseteq P!Begun', polls' \subseteq P!Begun',
           closing' \subseteq P!Begun', done' \subseteq P!Begun', asking' \in [Asks -> {0} \cup P!Begun']
    PROVE  P!TypeOK'
<1>1. ASSUME NEW n \in P!Begun', NEW k \in Starts, k < n PROVE k \in P!Begun'
  <2> DEFINE b == P!Latest'
  <2>0. P!Begun' = {i \in Starts : i <= b} /\ b \in {0} \cup P!Begun'
    BY DEF BegunCounted
  <2> HIDE DEF b
  <2>1. n \in Starts /\ n <= b /\ b \in Nat
    BY <2>0, StartsAre
  <2> QED
    BY <1>1, <2>0, <2>1, StartsAre
<1> QED
  BY <1>1 DEF P!TypeOK

\* begin(), in a dialog that has just been opened, or after a cleanup, or after an end.
LEMMA BegunKeeps ==
    ASSUME PairInv, NEW m \in Starts, P!Begin(m), mount' = m, m \in P!Begun',
           poll' \in [Starts -> {0} \cup polls'], polls' \subseteq polls,
           \A k \in Starts : poll'[k] \in {0, poll[k]},
           \A n \in polls' : poll'[home[n]] = n,
           cancels' \subseteq P!Begun, early \subseteq early', early' \subseteq P!Begun,
           \A n \in P!Begun : n \in polls' \/ start[n] \in {"asked", "ok"}
                                 => n \in early' \/ home[n] = m,
           UNCHANGED <<closing, asking, told, session, crossed>>
    PROVE  PairInv'
<1> DEFINE b == P!Latest'
<1>1. /\ b \in Starts \ P!Begun /\ P!Begun' = P!Begun \cup {b} /\ BegunCounted'
      /\ start'[b] = "asked" /\ home'[b] = m /\ late' = FALSE
      /\ \A n \in P!Begun : start'[n] = start[n] /\ home'[n] = home[n]
      /\ start' \in [Starts -> P!Stages]
      /\ home' \in [Starts -> {0} \cup Starts]
  BY BeginDoes
<1> HIDE DEF b
<1>2. P!Latest' = b
  BY DEF b
<1>3. done' = done \ {m} /\ shown' = "pairing"
  BY DEF P!Begin
<1>4. P!TypeOK'
  <2>1. asking' \in [Asks -> {0} \cup P!Begun'] /\ told' \in [Asks -> P!Phases \cup {"none"}]
    BY <1>1, PairFacts
  <2> QED
    BY <1>1, <1>3, <2>1, PairFacts, PairTyped DEF P!Phases
<1>5. Homes'
  BY <1>1, <1>2 DEF Homes, PairInv
<1>6. Polling'
  <2>1. ASSUME NEW k \in Starts, poll'[k] # 0 PROVE home'[poll'[k]] = k
    <3>1. poll'[k] = poll[k] /\ poll[k] \in P!Begun
      BY <2>1, PairFacts
    <3> QED
      BY <2>1, <3>1, <1>1 DEF PairInv, Polling
  <2>2. ASSUME NEW n \in polls' PROVE start'[n] = "over" /\ poll'[home'[n]] = n
    BY <2>2, <1>1, PairFacts DEF PairInv, Polling
  <2> QED
    BY <2>1, <2>2 DEF Polling
<1>7. Followed'
  <2> SUFFICES ASSUME NEW n \in P!Begun', Underway(n)'
               PROVE  n \in early' \/ (mount' # 0 /\ home'[n] = mount')
    BY DEF Followed
  <2>0. m # 0
    BY StartsAre
  <2>1. CASE n = b
    BY <2>0, <2>1, <1>1
  <2>2. CASE n \in P!Begun
    BY <2>0, <2>2, <1>1 DEF Underway
  <2> QED
    BY <2>1, <2>2, <1>1
<1>8. Settles'
  BY <1>1, <1>2 DEF Settles
<1>9. Uncancelled' /\ Served'
  BY <1>1, <1>2 DEF Uncancelled, Served
<1> QED
  BY <1>1, <1>4, <1>5, <1>6, <1>7, <1>8, <1>9 DEF PairInv, Answers

LEMMA OpenKeeps ==
    ASSUME PairInv, P!Open
    PROVE  PairInv'
<1> DEFINE m == P!Latest + 1
<1>1. /\ P!Begin(m) /\ mount' = m /\ mount = 0
      /\ UNCHANGED <<poll, polls, closing, cancels, asking, told, session, crossed, early>>
  BY DEF P!Open
<1>2. m \in Starts
  BY <1>1 DEF P!Begin
<1> HIDE DEF m
<1>3. m \in P!Begun'
  BY <1>1, <1>2, BeginDoes DEF m
<1>4. /\ poll' \in [Starts -> {0} \cup polls'] /\ polls' \subseteq polls
      /\ \A k \in Starts : poll'[k] \in {0, poll[k]}
      /\ \A n \in polls' : poll'[home[n]] = n
      /\ cancels' \subseteq P!Begun /\ early \subseteq early' /\ early' \subseteq P!Begun
  BY <1>1, PairFacts DEF PairInv, Polling
<1>5. \A n \in P!Begun : n \in polls' \/ start[n] \in {"asked", "ok"} => n \in early' \/ home[n] = m
  BY <1>1 DEF PairInv, Followed, Underway
<1> QED
  BY <1>1, <1>2, <1>3, <1>4, <1>5, BegunKeeps

LEMMA RenderedKeeps ==
    ASSUME PairInv, P!Rendered
    PROVE  PairInv'
<1>1. /\ mount # 0 /\ P!CleanUp /\ P!Begin(mount) /\ mount' = mount
      /\ UNCHANGED <<closing, asking, told, session, crossed>>
  BY DEF P!Rendered
<1>2. /\ mount \in Starts /\ mount \in P!Begun
      /\ poll' \in [Starts -> {0} \cup polls'] /\ polls' \subseteq polls /\ poll'[mount] = 0
      /\ \A m \in Starts \ {mount} : poll'[m] = poll[m]
      /\ \A n \in polls' : poll'[home[n]] = n
      /\ cancels' \subseteq P!Begun /\ early \subseteq early' /\ early' \subseteq P!Begun
      /\ \A n \in P!Begun : n \in polls' \/ start[n] \in {"asked", "ok"} => n \in early'
  BY <1>1, CleanUpDoes
<1>3. mount \in P!Begun'
  BY <1>1, <1>2, BeginDoes
<1>4. \A k \in Starts : poll'[k] \in {0, poll[k]}
  BY <1>2
<1>5. PICK m \in Starts : m = mount
  BY <1>2
<1> QED
  BY <1>1, <1>2, <1>3, <1>4, <1>5, BegunKeeps

LEMMA RetryKeeps ==
    ASSUME PairInv, P!Retry
    PROVE  PairInv'
<1>1. /\ mount # 0 /\ P!Begin(mount)
      /\ UNCHANGED <<mount, poll, polls, closing, cancels, asking, told, session, crossed, early>>
  BY DEF P!Retry
<1>2. mount \in Starts /\ mount \in P!Begun
  BY <1>1, PairFacts
<1>3. mount \in P!Begun'
  BY <1>1, <1>2, BeginDoes
<1>4. /\ poll' \in [Starts -> {0} \cup polls'] /\ polls' \subseteq polls
      /\ \A k \in Starts : poll'[k] \in {0, poll[k]}
      /\ \A n \in polls' : poll'[home[n]] = n
      /\ cancels' \subseteq P!Begun /\ early \subseteq early' /\ early' \subseteq P!Begun
  BY <1>1, PairFacts DEF PairInv, Polling
<1>5. \A n \in P!Begun : n \in polls' \/ start[n] \in {"asked", "ok"}
                            => n \in early' \/ home[n] = mount
  BY <1>1 DEF PairInv, Followed, Underway
<1> QED
  BY <1>1, <1>2, <1>3, <1>4, <1>5, BegunKeeps

\* The dialog leaves the screen, by the user or by its timer.
LEMMA LeaveKeeps ==
    ASSUME PairInv, mount' = 0, closing' \subseteq closing,
           IF mount # 0 THEN P!CleanUp ELSE UNCHANGED <<polls, poll, cancels, early>>,
           UNCHANGED <<shown, start, home, done, asking, told, session, crossed, late>>
    PROVE  PairInv'
<1>1. P!Begun' = P!Begun /\ BegunCounted'
  BY BegunStays
<1>2. /\ poll' \in [Starts -> {0} \cup polls'] /\ polls' \subseteq polls
      /\ \A k \in Starts : poll'[k] \in {0, poll[k]}
      /\ \A n \in polls' : poll'[home[n]] = n
      /\ cancels' \subseteq P!Begun /\ early \subseteq early' /\ early' \subseteq P!Begun
      /\ \A n \in P!Begun : n \in polls' \/ start[n] \in {"asked", "ok"} => n \in early'
  <2>1. CASE mount # 0
    BY <2>1, CleanUpDoes
  <2>2. CASE mount = 0
    <3>1. UNCHANGED <<polls, poll, cancels, early>>
      BY <2>2
    <3>2. \A n \in P!Begun : n \in polls \/ start[n] \in {"asked", "ok"} => n \in early
      BY <2>2 DEF PairInv, Followed, Underway
    <3> QED
      BY <3>1, <3>2, PairFacts DEF PairInv, Polling
  <2> QED
    BY <2>1, <2>2
<1>3. P!TypeOK'
  BY <1>1, <1>2, PairFacts, PairTyped
<1>4. Homes' /\ Settles' /\ Uncancelled' /\ Served'
  BY <1>1 DEF PairInv, Homes, Settles, Uncancelled, Served
<1>5. Polling'
  BY <1>2 DEF PairInv, Polling
<1>6. Followed'
  BY <1>1, <1>2 DEF Followed, Underway
<1> QED
  BY <1>1, <1>3, <1>4, <1>5, <1>6 DEF PairInv, Answers

LEMMA StartedKeeps ==
    ASSUME PairInv, NEW n \in Starts, P!Started(n)
    PROVE  PairInv'
<1> DEFINE m == home[n]
<1>1. /\ start[n] \in {"ok", "failed"} /\ start' = [start EXCEPT ![n] = "over"]
      /\ UNCHANGED <<mount, home, done, closing, cancels, asking, told, session, crossed, early>>
  BY DEF P!Started
<1>2. /\ late' \in BOOLEAN
      /\ start[n] = "ok" => /\ poll' = [poll EXCEPT ![m] = n] /\ polls' = (polls \ {poll[m]}) \cup {n}
                            /\ shown' = shown /\ (m # mount => late' = late)
      /\ start[n] = "failed" => /\ UNCHANGED <<poll, polls>> /\ late' = late
                                /\ m = mount => shown' = "refused"
                                /\ m # mount => shown' = shown
  BY PairFacts DEF P!Started
<1>3. n \in P!Begun /\ m \in P!Begun /\ m \in Starts /\ n # 0 /\ n \notin polls
  BY <1>1, StartsAre, LatestIs DEF PairInv, Homes, Polling
<1>4. start' \in [Starts -> P!Stages] /\ start'[n] = "over"
      /\ \A k \in Starts \ {n} : start'[k] = start[k]
  BY <1>1, PairFacts DEF P!Stages
<1>5. P!Begun' = P!Begun /\ P!Latest' = P!Latest /\ BegunCounted'
  BY <1>1, <1>4, BegunStays
<1>6. /\ poll' \in [Starts -> {0} \cup polls'] /\ polls' \subseteq polls \cup {n}
      /\ \A k \in Starts \ {m} : poll'[k] = poll[k]
      /\ \A k \in Starts : poll'[k] # 0 => home[poll'[k]] = k
      /\ \A k \in polls' : start'[k] = "over" /\ poll'[home[k]] = k
      /\ start[n] = "ok" => poll'[m] = n
  <2>1. \A k \in Starts : poll[k] # 0 => home[poll[k]] = k
    BY DEF PairInv, Polling
  <2>2. \A k \in polls : k # n /\ start[k] = "over" /\ poll[home[k]] = k /\ k \in Starts /\ home[k] \in Starts
    BY <1>3, PairFacts DEF PairInv, Polling, Homes
  <2>3. poll \in [Starts -> {0} \cup polls]
    BY PairFacts
  <2>4. CASE start[n] = "failed"
    BY <1>2, <1>4, <2>1, <2>2, <2>3, <2>4
  <2>5. CASE start[n] = "ok"
    <3>1. poll' = [poll EXCEPT ![m] = n] /\ polls' = (polls \ {poll[m]}) \cup {n}
      BY <1>2, <2>5
    <3>2. \A k \in Starts \ {m} : poll'[k] = poll[k] /\ (poll[k] = 0 \/ poll[k] # poll[m])
      BY <3>1, <2>1, <2>3, <1>3
    <3>3. poll'[m] = n
      BY <3>1, <2>3, <1>3
    <3>4. poll' \in [Starts -> {0} \cup polls']
      BY <3>1, <3>2, <2>3, <1>3
    <3>5. \A k \in polls \ {poll[m]} : home[k] # m
      BY <2>2
    <3> QED
      BY <3>1, <3>2, <3>3, <3>4, <3>5, <2>1, <2>2, <1>3, <1>4
  <2> QED
    BY <2>4, <2>5, <1>1
<1>7. shown' \in {shown, "refused"} /\ (shown = "refused" => shown' = "refused")
  BY <1>1, <1>2
<1>8. P!TypeOK'
  BY <1>1, <1>2, <1>3, <1>4, <1>5, <1>6, <1>7, PairFacts, PairTyped
<1>9. Homes' /\ Uncancelled' /\ Answers'
  BY <1>1, <1>5 DEF PairInv, Homes, Uncancelled, Answers
<1>10. Polling'
  BY <1>1, <1>6 DEF Polling
<1>11. Followed'
  <2>1. \A k \in P!Begun : Underway(k)' => Underway(k)
    <3>1. n \in polls' => start[n] = "ok"
      BY <1>1, <1>2, <1>3
    <3> SUFFICES ASSUME NEW k \in P!Begun, Underway(k)' PROVE Underway(k)
      OBVIOUS
    <3>2. CASE k = n
      BY <3>1, <3>2, <1>4 DEF Underway
    <3>3. CASE k # n
      BY <3>3, <1>4, <1>6, PairFacts DEF Underway
    <3> QED
      BY <3>2, <3>3
  <2> QED
    BY <2>1, <1>1, <1>5 DEF PairInv, Followed
<1>12. Settles'
  <2> SUFFICES ASSUME mount # 0, poll'[mount] = 0, start'[P!Latest] = "over"
               PROVE  shown' \in P!Ended \/ late'
    BY <1>1, <1>5 DEF Settles
  <2>1. CASE m = mount
    BY <2>1, <1>1, <1>2, <1>3, <1>6 DEF P!Ended
  <2>2. CASE m # mount
    <3>1. poll[mount] = 0 /\ shown' = shown /\ late' = late /\ mount \in Starts
      BY <2>2, <1>1, <1>2, <1>6, PairFacts
    <3>2. n # P!Latest /\ P!Latest \in Starts
      BY <2>2, PairFacts, LatestIs DEF PairInv, Homes
    <3>3. start[P!Latest] = "over"
      BY <3>2, <1>4
    <3> QED
      BY <3>1, <3>3 DEF PairInv, Settles
  <2> QED
    BY <2>1, <2>2
<1>13. Served'
  <2> SUFFICES ASSUME mount # 0
               PROVE  \/ session # "idle" \/ crossed \/ shown' = "refused"
                      \/ start'[P!Latest] \in {"asked", "failed", "dropped", "lost"}
    BY <1>1, <1>5 DEF Served
  <2>1. CASE n = P!Latest
    <3>1. m = mount
      BY <2>1 DEF PairInv, Homes
    <3> QED
      BY <2>1, <3>1, <1>1, <1>2, <1>7 DEF PairInv, Served
  <2>2. CASE n # P!Latest
    <3>1. P!Latest \in Starts
      BY PairFacts, LatestIs
    <3> QED
      BY <2>2, <3>1, <1>4, <1>7 DEF PairInv, Served
  <2> QED
    BY <2>1, <2>2
<1> QED
  BY <1>5, <1>8, <1>9, <1>10, <1>11, <1>12, <1>13 DEF PairInv

\* A start that is rejected is not answered, and what it finds is as before.
LEMMA RejectKeeps ==
    ASSUME PairInv, NEW n \in Starts, P!StartRejects(n)
    PROVE  PairInv'
<1>1. /\ UNCHANGED <<mount, shown, home, poll, polls, done, closing, cancels, asking, told, session,
                     crossed, early, late>>
      /\ start[n] \in {"asked", "ok", "failed"}
      /\ \E a \in {"dropped", "lost"} : start' = [start EXCEPT ![n] = a]
  BY DEF P!StartRejects, P!histVars
<1>2. /\ start' \in [Starts -> P!Stages]
      /\ start'[n] \in {"dropped", "lost"} /\ \A k \in Starts \ {n} : start'[k] = start[k]
  BY <1>1, PairFacts DEF P!Stages
<1>3. P!Begun' = P!Begun /\ P!Latest' = P!Latest /\ BegunCounted' /\ P!Begun \subseteq Starts
  BY <1>1, <1>2, BegunStays, PairFacts
<1>4. P!TypeOK'
  BY <1>1, <1>2, <1>3, PairFacts, PairTyped
<1>5. Homes' /\ Uncancelled' /\ Answers'
  BY <1>1, <1>3 DEF PairInv, Homes, Uncancelled, Answers
<1>6. Polling'
  BY <1>1, <1>2, PairFacts DEF PairInv, Polling
<1>7. Followed'
  BY <1>1, <1>2, <1>3 DEF PairInv, Followed, Underway
<1>8. ASSUME mount # 0 PROVE P!Latest \in Starts
  BY <1>8, PairFacts, LatestIs
<1>9. Settles' /\ Served'
  BY <1>1, <1>2, <1>3, <1>8 DEF PairInv, Settles, Served
<1> QED
  BY <1>3, <1>4, <1>5, <1>6, <1>7, <1>9 DEF PairInv

LEMMA StatusKeeps ==
    ASSUME PairInv, NEW q \in Asks, P!StatusComes(q)
    PROVE  PairInv'
<1> DEFINE m == home[asking[q]]
           first == told[q] = "saved" /\ m \notin done
<1>1. /\ told[q] # "none" /\ asking' = [asking EXCEPT ![q] = 0]
      /\ told' = [told EXCEPT ![q] = "none"]
      /\ UNCHANGED <<mount, start, home, cancels, session, crossed, early>>
      /\ shown' = IF m = mount /\ shown # "refused" THEN told[q] ELSE shown
      /\ done' \subseteq done \cup {m} /\ closing' \subseteq closing \cup {m}
      /\ IF first \/ told[q] = "error" THEN poll' = [poll EXCEPT ![m] = 0] /\ polls' = polls \ {poll[m]}
                                       ELSE UNCHANGED <<poll, polls>>
  BY DEF P!StatusComes, P!Over
<1>0. late' \in BOOLEAN /\ (late => late') /\ (m = mount /\ poll[m] = 0 => late')
  BY PairFacts DEF P!StatusComes
<1>2. asking[q] \in P!Begun /\ asking[q] # 0 /\ m \in P!Begun /\ m \in Starts
  BY <1>1, PairFacts DEF PairInv, Answers, Homes
<1> HIDE DEF m
<1>3. P!Begun' = P!Begun /\ P!Latest' = P!Latest /\ BegunCounted'
  BY <1>1, BegunStays
<1>4. /\ poll' \in [Starts -> {0} \cup polls'] /\ polls' \subseteq polls
      /\ \A k \in Starts \ {m} : poll'[k] = poll[k]
      /\ \A k \in Starts : poll'[k] # 0 => home[poll'[k]] = k
      /\ \A k \in polls' : poll'[home[k]] = k
  <2>1. \A k \in Starts : poll[k] # 0 => home[poll[k]] = k
    BY DEF PairInv, Polling
  <2>2. \A k \in polls : poll[home[k]] = k /\ home[k] \in Starts
    BY PairFacts DEF PairInv, Polling, Homes
  <2>3. poll \in [Starts -> {0} \cup polls]
    BY PairFacts
  <2>4. CASE UNCHANGED <<poll, polls>>
    BY <2>1, <2>2, <2>3, <2>4
  <2>5. CASE poll' = [poll EXCEPT ![m] = 0] /\ polls' = polls \ {poll[m]}
    <3>1. \A k \in Starts \ {m} : poll'[k] = poll[k] /\ (poll[k] = 0 \/ poll[k] # poll[m])
      BY <2>1, <2>3, <2>5, <1>2
    <3>2. poll'[m] = 0
      BY <2>3, <2>5, <1>2
    <3>3. poll' \in [Starts -> {0} \cup polls']
      BY <3>1, <3>2, <2>3, <2>5
    <3>4. \A k \in polls \ {poll[m]} : home[k] # m
      BY <2>2
    <3> QED
      BY <3>1, <3>2, <3>3, <3>4, <2>1, <2>2, <2>5
  <2> QED
    BY <2>4, <2>5, <1>1
<1>5. /\ shown' \in P!Phases \cup {"refused"} /\ told' \in [Asks -> P!Phases \cup {"none"}]
      /\ asking' \in [Asks -> {0} \cup P!Begun]
      /\ \A a \in Asks \ {q} : told'[a] = told[a] /\ asking'[a] = asking[a]
      /\ told'[q] = "none"
  BY <1>1, PairFacts
<1>6. P!TypeOK'
  BY <1>0, <1>1, <1>2, <1>3, <1>4, <1>5, PairFacts, PairTyped
<1>7. Homes' /\ Uncancelled' /\ Answers' /\ Polling'
  BY <1>1, <1>3, <1>4, <1>5 DEF PairInv, Homes, Uncancelled, Answers, Polling
<1>8. Followed' /\ Served'
  BY <1>1, <1>3, <1>4 DEF PairInv, Followed, Underway, Served
<1>9. Settles'
  <2> SUFFICES ASSUME mount # 0, poll'[mount] = 0, start[P!Latest] = "over", ~late'
               PROVE  shown' \in P!Ended
    BY <1>1, <1>3 DEF Settles
  <2>1. CASE m = mount
    <3>1. poll[m] # 0
      BY <2>1, <1>0
    <3>2. told[q] \in {"saved", "error"}
      BY <2>1, <3>1, <1>1
    <3> QED
      BY <2>1, <3>2, <1>1 DEF P!Ended
  <2>2. CASE m # mount
    <3>1. poll[mount] = 0 /\ shown' = shown /\ ~late
      BY <2>2, <1>0, <1>1, <1>4, PairFacts
    <3> QED
      BY <3>1 DEF PairInv, Settles
  <2> QED
    BY <2>1, <2>2
<1> QED
  BY <1>3, <1>6, <1>7, <1>8, <1>9 DEF PairInv

LEMMA ServeStartKeeps ==
    ASSUME PairInv, NEW n \in Starts, P!ServeStart(n)
    PROVE  PairInv'
<1>1. /\ start[n] \in {"asked", "dropped"}
      /\ UNCHANGED <<mount, shown, home, poll, polls, done, closing, cancels, asking, told, early, late>>
  BY DEF P!ServeStart
<1>a. PICK served \in BOOLEAN :
        /\ start' = [start EXCEPT ![n] = IF @ = "dropped" THEN "lost"
                                        ELSE IF served THEN "ok" ELSE "failed"]
        /\ session' = IF served THEN "pairing" ELSE session
        /\ crossed' = (crossed /\ ~served)
  BY DEF P!ServeStart
<1>2. /\ start' \in [Starts -> P!Stages]
      /\ start'[n] \in {"ok", "failed", "lost"} /\ (start'[n] = "ok" => served)
      /\ start'[n] \in {"ok", "failed"} => start[n] = "asked"
      /\ \A k \in Starts \ {n} : start'[k] = start[k]
  BY <1>1, <1>a, PairFacts DEF P!Stages
<1>3. P!Begun' = P!Begun /\ P!Latest' = P!Latest /\ BegunCounted' /\ P!Begun \subseteq Starts
  BY <1>1, <1>2, BegunStays, PairFacts
<1>4. session' \in P!Phases /\ crossed' \in BOOLEAN
  BY <1>a, PairFacts DEF P!Phases
<1>5. P!TypeOK'
  BY <1>1, <1>2, <1>3, <1>4, PairFacts, PairTyped
<1>6. Homes' /\ Uncancelled' /\ Answers'
  BY <1>1, <1>3 DEF PairInv, Homes, Uncancelled, Answers
<1>7. Polling'
  BY <1>1, <1>2, PairFacts DEF PairInv, Polling
<1>8. Followed'
  BY <1>1, <1>2, <1>3 DEF PairInv, Followed, Underway
<1>9. Settles'
  <2>1. mount # 0 => P!Latest \in Starts
    BY PairFacts, LatestIs
  <2> QED
    BY <2>1, <1>1, <1>2, <1>3 DEF PairInv, Settles
<1>10. Served'
  <2> SUFFICES ASSUME mount # 0
               PROVE  \/ session' # "idle" \/ crossed' \/ shown = "refused"
                      \/ start'[P!Latest] \in {"asked", "failed", "dropped", "lost"}
    BY <1>1, <1>3 DEF Served
  <2>1. P!Latest \in Starts
    BY PairFacts, LatestIs
  <2>2. CASE served
    BY <2>2, <1>a
  <2>3. CASE ~served
    <3>1. session' = session /\ crossed' = crossed
      BY <2>3, <1>a, PairFacts
    <3>2. CASE n = P!Latest
      BY <2>3, <3>2, <1>2
    <3>3. CASE n # P!Latest
      BY <2>1, <3>1, <3>3, <1>2 DEF PairInv, Served
    <3> QED
      BY <3>2, <3>3
  <2> QED
    BY <2>2, <2>3
<1> QED
  BY <1>3, <1>5, <1>6, <1>7, <1>8, <1>9, <1>10 DEF PairInv

LEMMA ServeCancelKeeps ==
    ASSUME PairInv, NEW n \in Starts, P!ServeCancel(n)
    PROVE  PairInv'
<1>1. /\ n \in cancels /\ cancels' = cancels \ {n} /\ session' = "idle"
      /\ crossed' = (crossed \/ \E k \in P!Begun : k > n /\ start[k] \notin {"asked", "dropped"})
      /\ UNCHANGED <<mount, shown, start, home, poll, polls, done, closing, asking, told, early, late>>
  BY DEF P!ServeCancel
<1>2. P!Begun' = P!Begun /\ P!Latest' = P!Latest /\ BegunCounted'
  BY <1>1, BegunStays
<1>3. session' \in P!Phases /\ crossed' \in BOOLEAN
  BY <1>1 DEF P!Phases
<1>4. P!TypeOK'
  BY <1>1, <1>2, <1>3, PairFacts, PairTyped
<1>5. Homes' /\ Polling' /\ Followed' /\ Settles' /\ Uncancelled' /\ Answers'
  BY <1>1, <1>2 DEF PairInv, Homes, Polling, Followed, Underway, Settles, Uncancelled, Answers
<1>6. Served'
  <2> SUFFICES ASSUME mount # 0, start[P!Latest] \notin {"asked", "dropped"}
               PROVE  crossed'
    BY <1>1, <1>2 DEF Served
  <2>1. n \in P!Begun /\ n # P!Latest /\ P!Latest \in P!Begun /\ n <= P!Latest
    BY <1>1, PairFacts, LatestIs DEF PairInv, Uncancelled
  <2>2. P!Latest > n
    BY <2>1, PairFacts, StartsAre
  <2> QED
    BY <2>1, <2>2, <1>1
<1> QED
  BY <1>2, <1>4, <1>5, <1>6 DEF PairInv

\* SessionMoves, the status requests until one is shown, and the steps that change nothing.
LEMMA QuietKeeps ==
    ASSUME PairInv, session' \in {session, "saved", "error"},
           told' \in [Asks -> P!Phases \cup {"none"}], asking' \in [Asks -> {0} \cup P!Begun],
           \A q \in Asks : told'[q] # "none" => asking'[q] # 0,
           UNCHANGED <<mount, shown, start, home, poll, polls, done, closing, cancels, crossed,
                       early, late>>
    PROVE  PairInv'
<1>1. P!Begun' = P!Begun /\ P!Latest' = P!Latest /\ BegunCounted'
  BY BegunStays
<1>2. session' \in P!Phases
  BY PairFacts DEF P!Phases
<1>3. P!TypeOK'
  BY <1>1, <1>2, PairFacts, PairTyped
<1>4. Homes' /\ Polling' /\ Followed' /\ Settles' /\ Uncancelled' /\ Served' /\ Answers'
  BY <1>1 DEF PairInv, Homes, Polling, Followed, Underway, Settles, Uncancelled, Served, Answers
<1> QED
  BY <1>1, <1>3, <1>4 DEF PairInv

LEMMA AskKeeps ==
    ASSUME PairInv, NEW q \in Asks, NEW n \in Starts,
           P!AskStatus(n, q) \/ P!ServeStatus(q) \/ P!StatusFails(q)
    PROVE  PairInv'
<1>1. /\ UNCHANGED <<mount, shown, start, home, poll, polls, done, closing, cancels, session, crossed,
                     early, late>>
      /\ \E a \in {0, asking[q], n}, t \in P!Phases \cup {"none"} :
            /\ asking' = [asking EXCEPT ![q] = a] /\ told' = [told EXCEPT ![q] = t]
            /\ t # "none" => a # 0
            /\ a = n => n \in polls \/ n = asking[q]
  <2>1. asking = [asking EXCEPT ![q] = asking[q]] /\ told = [told EXCEPT ![q] = told[q]]
    BY PairFacts
  <2>2. told[q] \in P!Phases \cup {"none"} /\ session \in P!Phases /\ n # 0
    BY PairFacts, StartsAre
  <2>3. told[q] # "none" => asking[q] # 0
    BY DEF PairInv, Answers
  <2>4. CASE P!AskStatus(n, q)
    BY <2>1, <2>2, <2>4 DEF P!AskStatus, P!histVars
  <2>5. CASE P!ServeStatus(q)
    BY <2>1, <2>2, <2>5 DEF P!ServeStatus, P!histVars
  <2>6. CASE P!StatusFails(q)
    BY <2>2, <2>6 DEF P!StatusFails, P!Over, P!histVars
  <2> QED
    BY <2>4, <2>5, <2>6
<1>2. PICK a \in {0, asking[q], n}, t \in P!Phases \cup {"none"} :
            /\ asking' = [asking EXCEPT ![q] = a] /\ told' = [told EXCEPT ![q] = t]
            /\ t # "none" => a # 0
            /\ a = n => n \in polls \/ n = asking[q]
  BY <1>1
<1>3. a \in {0} \cup P!Begun
  BY <1>2, PairFacts
<1>4. told' \in [Asks -> P!Phases \cup {"none"}] /\ asking' \in [Asks -> {0} \cup P!Begun]
  BY <1>2, <1>3, PairFacts
<1>5. \A k \in Asks : told'[k] # "none" => asking'[k] # 0
  BY <1>2, PairFacts DEF PairInv, Answers
<1> QED
  BY <1>1, <1>4, <1>5, QuietKeeps

LEMMA PairStays ==
    ASSUME PairInv, [P!Next]_(P!vars)
    PROVE  PairInv'
<1>1. CASE P!Close
  BY <1>1, LeaveKeeps DEF P!Close
<1>2. ASSUME NEW n \in Starts, P!DoneTimer(n) PROVE PairInv'
  BY <1>2, LeaveKeeps DEF P!DoneTimer
<1>3. ASSUME NEW q \in Asks, P!ServeStatus(q) \/ P!StatusFails(q) PROVE PairInv'
  <2>1. asking[q] # 0 /\ asking[q] \in Starts
    BY <1>3, PairFacts DEF P!ServeStatus, P!StatusFails
  <2> QED
    BY <1>3, <2>1, AskKeeps
<1>4. CASE P!SessionMoves
  BY <1>4, QuietKeeps, PairFacts DEF P!SessionMoves, P!dialogVars, P!histVars, PairInv, Answers
<1>5. CASE UNCHANGED P!vars
  BY <1>5, QuietKeeps, PairFacts DEF P!vars, P!dialogVars, P!histVars, PairInv, Answers
<1>6. ASSUME NEW n \in Starts,
             P!Started(n) \/ P!StartRejects(n) \/ P!ServeStart(n) \/ P!ServeCancel(n)
      PROVE  PairInv'
  BY <1>6, StartedKeeps, RejectKeeps, ServeStartKeeps, ServeCancelKeeps
<1>7. ASSUME NEW q \in Asks, P!StatusComes(q) \/ \E n \in Starts : P!AskStatus(n, q)
      PROVE  PairInv'
  BY <1>7, StatusKeeps, AskKeeps
<1> QED
  BY <1>1, <1>2, <1>3, <1>4, <1>5, <1>6, <1>7, OpenKeeps, RenderedKeeps, RetryKeeps
  DEF P!Next

\* DialogFollows: no interval runs on behind a closed dialog, and an open one whose latest start was
\* answered and that shows a pairing in progress polls a session of the daemon's, whichever calls
\* are rejected and however the polls overlap, for any number of renders, retries and polls.
THEOREM DialogIsFollowed == AllSpec => []DialogFollows
<1>1. AllInit => (part = "pair" => PairInv)
  BY PairInit DEF AllInit
<1>2. (part = "pair" => PairInv) /\ [AllNext]_allVars => (part = "pair" => PairInv)'
  BY PartSteps, PairStays
<1>3. ASSUME PairInv PROVE P!DialogFollows
  <2>1. \A n \in polls : n \in early \/ (mount # 0 /\ home[n] = mount)
    BY <1>3, PairFacts DEF PairInv, Followed, Underway
  <2>2. ASSUME mount # 0, start[P!Latest] = "over", shown \notin P!Ended
        PROVE  (poll[mount] # 0 \/ late) /\ (session # "idle" \/ crossed)
    BY <1>3, <2>2 DEF PairInv, Settles, Served, P!Ended
  <2> QED
    BY <2>1, <2>2 DEF P!DialogFollows
<1>4. (part = "pair" => PairInv) => DialogFollows
  BY <1>3 DEF PairInv, DialogFollows
<1> QED
  BY <1>1, <1>2, <1>4, PTL DEF AllSpec

-----------------------------------------------------------------------------
(* Pages *)

\* A form is open below a list; what is untouched in one that is on the screen is what it was
\* opened with; and one that waits, waits for a save that has a text.
FormInv ==
    /\ lost \subseteq {"failed load", "late save"}
    /\ formOpen => jobs # None
    /\ formOpen /\ G!Rendered /\ ~typed => fields = origin
    /\ saving = G!NoSave \/ saving.text # 0
    /\ busy => saving.text # 0 \/ rejected

PagesInv == G!TypeOK /\ FormInv

LEMMA PagesFacts ==
    /\ MaxText \in Nat /\ 0 \in G!Texts /\ 1 \in G!Texts /\ None \notin G!Lists
    /\ \A n \in G!Texts : n < MaxText => n + 1 \in G!Texts
BY PartsAssumption DEF G!PagesAssumption, G!Texts

LEMMA NoSaveIs == G!NoSave \in [item: {None}, text: {0}, same: {FALSE}]
BY DEF G!NoSave

LEMMA PagesInit == G!Init => PagesInv
<1> SUFFICES ASSUME G!Init PROVE PagesInv
  OBVIOUS
<1>1. G!TypeOK
  <2>1. store \in G!Lists /\ jobs = None /\ texts \in G!Texts /\ lost = {}
    BY PagesFacts DEF G!Init, G!Lists
  <2>2. load \in [PageLists -> {"unsent", "sent", "listed", "failed", "done"}]
    BY DEF G!Init
  <2>3. answer \in [PageLists -> G!Lists]
    BY PagesFacts DEF G!Init, G!NoList, G!Lists
  <2>4. saving \in [item: Items \cup {None}, text: G!Texts, same: BOOLEAN]
    BY NoSaveIs, PagesFacts DEF G!Init
  <2>5. {due, error, formOpen, typed, busy, rejected} \subseteq BOOLEAN
    BY DEF G!Init
  <2> QED
    BY <2>1, <2>2, <2>3, <2>4, <2>5, PagesFacts DEF G!Init, G!TypeOK
<1> QED
  BY <1>1 DEF PagesInv, FormInv, G!Init

\* The list is asked for, or answers.
LEMMA AskingKeeps ==
    ASSUME PagesInv, load' \in [PageLists -> {"unsent", "sent", "listed", "failed", "done"}],
           answer' \in [PageLists -> G!Lists], store' \in G!Lists, texts' \in G!Texts, due' \in BOOLEAN,
           UNCHANGED <<page, G!pageVars, G!formVars, saving, G!histVars>>
    PROVE  PagesInv'
<1>1. G!TypeOK'
  BY DEF PagesInv, G!TypeOK, G!pageVars, G!formVars, G!histVars
<1>2. FormInv'
  BY DEF PagesInv, FormInv, G!Rendered, G!pageVars, G!formVars, G!histVars
<1> QED
  BY <1>1, <1>2 DEF PagesInv

\* A save that is said to be of another form is the same save.
LEMMA AnotherForm ==
    ASSUME PagesInv, saving' = [saving EXCEPT !.same = FALSE]
    PROVE  /\ saving' \in [item: Items \cup {None}, text: G!Texts, same: BOOLEAN]
           /\ saving'.text = saving.text
           /\ saving' = G!NoSave \/ saving'.text # 0
<1>1. saving \in [item: Items \cup {None}, text: G!Texts, same: BOOLEAN]
  BY DEF PagesInv, G!TypeOK
<1>2. saving' \in [item: {saving.item}, text: {saving.text}, same: {FALSE}]
  BY <1>1
<1>3. saving = G!NoSave => saving' = G!NoSave
  BY <1>2, NoSaveIs
<1> QED
  BY <1>1, <1>2, <1>3 DEF PagesInv, FormInv

LEMMA ShowErrorKeeps ==
    ASSUME PagesInv, G!ShowError, UNCHANGED <<page, store, texts, due, rejected>>,
           load' \in [PageLists -> {"unsent", "sent", "listed", "failed", "done"}],
           answer' \in [PageLists -> G!Lists]
    PROVE  PagesInv'
<1>1. /\ error' = TRUE /\ typed' = FALSE /\ busy' = FALSE /\ fields' = 0
      /\ UNCHANGED <<jobs, formOpen, editing, origin>>
      /\ lost' \in {lost, lost \cup {"failed load"}}
      /\ saving' \in [item: Items \cup {None}, text: G!Texts, same: BOOLEAN]
      /\ saving' = G!NoSave \/ saving'.text # 0
  BY AnotherForm DEF G!ShowError, G!Losing
<1>2. G!TypeOK'
  <2>1. {due', error', formOpen', typed', busy', rejected'} \subseteq BOOLEAN
    BY <1>1 DEF PagesInv, G!TypeOK
  <2> QED
    BY <1>1, <2>1, PagesFacts DEF PagesInv, G!TypeOK
<1>3. FormInv'
  BY <1>1 DEF PagesInv, FormInv, G!Rendered
<1> QED
  BY <1>2, <1>3 DEF PagesInv

LEMMA ShowListKeeps ==
    ASSUME PagesInv, NEW l \in PageLists, G!ShowList(l), UNCHANGED <<page, store, texts, due, rejected>>,
           load' \in [PageLists -> {"unsent", "sent", "listed", "failed", "done"}],
           answer' \in [PageLists -> G!Lists]
    PROVE  PagesInv'
<1>1. /\ jobs' = answer[l] /\ error' = FALSE
      /\ UNCHANGED <<formOpen, editing, origin, typed, busy, lost, saving>>
      /\ fields' = IF error /\ formOpen THEN origin ELSE fields
  BY DEF G!ShowList
<1>2. jobs' \in G!Lists /\ jobs' # None
  <2>1. answer \in [PageLists -> G!Lists]
    BY DEF PagesInv, G!TypeOK
  <2> QED
    BY <1>1, <2>1, PagesFacts
<1>3. G!TypeOK'
  <2>1. {due', error', formOpen', typed', busy', rejected'} \subseteq BOOLEAN
    BY <1>1 DEF PagesInv, G!TypeOK
  <2> QED
    BY <1>1, <1>2, <2>1 DEF PagesInv, G!TypeOK
<1>4. FormInv'
  BY <1>1, <1>2 DEF PagesInv, FormInv, G!Rendered
<1> QED
  BY <1>3, <1>4 DEF PagesInv

\* The page's own actions.
LEMMA FormKeeps ==
    ASSUME PagesInv,
           \/ \E i \in Items \cup {None} : G!OpenForm(i)
           \/ G!Type \/ G!Cancel
    PROVE  PagesInv'
<1>1. ASSUME NEW i \in Items \cup {None}, G!OpenForm(i) PROVE PagesInv'
  <2>1. /\ jobs # None /\ formOpen' = TRUE /\ editing' = i /\ fields' = origin' /\ typed' = FALSE
        /\ UNCHANGED <<page, store, texts, load, answer, due, jobs, error, busy, lost, rejected>>
        /\ saving' \in [item: Items \cup {None}, text: G!Texts, same: BOOLEAN]
        /\ saving'.text = saving.text /\ (saving' = G!NoSave \/ saving'.text # 0)
        /\ origin' = IF i = None THEN 0 ELSE jobs[i]
    BY <1>1, AnotherForm DEF G!OpenForm, G!Rendered, G!Fill, G!histVars
  <2>2. origin' \in G!Texts
    BY <2>1, PagesFacts DEF PagesInv, G!TypeOK, G!Lists
  <2>3. {due', error', formOpen', typed', busy', rejected'} \subseteq BOOLEAN
    BY <2>1 DEF PagesInv, G!TypeOK
  <2>4. G!TypeOK'
    BY <2>1, <2>2, <2>3 DEF PagesInv, G!TypeOK
  <2>5. FormInv'
    BY <2>1 DEF PagesInv, FormInv, G!Rendered
  <2> QED
    BY <2>4, <2>5 DEF PagesInv
<1>2. CASE G!Type
  <2>1. /\ texts' = texts + 1 /\ texts < MaxText /\ fields' = texts' /\ typed' = TRUE
        /\ UNCHANGED <<page, store, jobs, error, formOpen, editing, origin, busy, load, answer, due,
                       saving, lost, rejected>>
    BY <1>2 DEF G!Type, G!pageVars, G!netVars, G!histVars
  <2>2. texts' \in G!Texts
    BY <2>1, PagesFacts DEF PagesInv, G!TypeOK
  <2>3. {due', error', formOpen', typed', busy', rejected'} \subseteq BOOLEAN
    BY <2>1 DEF PagesInv, G!TypeOK
  <2>4. G!TypeOK'
    BY <2>1, <2>2, <2>3 DEF PagesInv, G!TypeOK
  <2>5. FormInv'
    BY <2>1 DEF PagesInv, FormInv, G!Rendered
  <2> QED
    BY <2>4, <2>5 DEF PagesInv
<1>3. CASE G!Cancel
  <2>1. /\ formOpen' = FALSE /\ typed' = FALSE
        /\ UNCHANGED <<page, store, texts, load, answer, due, jobs, error, editing, origin, fields, busy,
                       lost, rejected>>
        /\ saving' \in [item: Items \cup {None}, text: G!Texts, same: BOOLEAN]
        /\ saving'.text = saving.text /\ (saving' = G!NoSave \/ saving'.text # 0)
    BY <1>3, AnotherForm DEF G!Cancel, G!histVars
  <2>3. {due', error', formOpen', typed', busy', rejected'} \subseteq BOOLEAN
    BY <2>1 DEF PagesInv, G!TypeOK
  <2>4. G!TypeOK'
    BY <2>1, <2>3 DEF PagesInv, G!TypeOK
  <2>5. FormInv'
    BY <2>1 DEF PagesInv, FormInv
  <2> QED
    BY <2>4, <2>5 DEF PagesInv
<1> QED
  BY <1>1, <1>2, <1>3

LEMMA SubmitKeeps ==
    ASSUME PagesInv, NEW i \in Items \cup {None}, G!Submit(i)
    PROVE  PagesInv'
<1>1. /\ fields # 0 /\ busy' = TRUE
      /\ UNCHANGED <<page, store, texts, load, answer, due, jobs, error, formOpen, editing, origin,
                     fields, typed, lost, rejected>>
      /\ saving' = [item |-> i, text |-> fields, same |-> TRUE]
  BY DEF G!Submit, G!pageVars, G!histVars
<1>2. saving' \in [item: Items \cup {None}, text: G!Texts, same: BOOLEAN] /\ saving'.text # 0
  BY <1>1 DEF PagesInv, G!TypeOK
<1>3. {due', error', formOpen', typed', busy', rejected'} \subseteq BOOLEAN
  BY <1>1 DEF PagesInv, G!TypeOK
<1>4. G!TypeOK'
  BY <1>1, <1>2, <1>3 DEF PagesInv, G!TypeOK
<1>5. FormInv'
  BY <1>1, <1>2 DEF PagesInv, FormInv, G!Rendered
<1> QED
  BY <1>4, <1>5 DEF PagesInv

LEMMA LoadIs ==
    ASSUME PagesInv, G!Load
    PROVE  load' \in [PageLists -> {"unsent", "sent", "listed", "failed", "done"}]
BY DEF G!Load, PagesInv, G!TypeOK

LEMMA WriteIs ==
    ASSUME PagesInv, G!Write
    PROVE  store' \in G!Lists
BY DEF G!Write, PagesInv, G!TypeOK, G!Lists

\* How a save ends.
LEMMA SavedKeeps ==
    ASSUME PagesInv, G!Saved \/ G!SaveRefused \/ G!SaveRejected
    PROVE  PagesInv'
<1>0. G!NoSave \in [item: Items \cup {None}, text: G!Texts, same: BOOLEAN]
  BY NoSaveIs, PagesFacts
<1>1. CASE G!Saved
  <2>1. /\ busy' = FALSE /\ saving' = G!NoSave /\ formOpen' = FALSE /\ typed' = FALSE
        /\ lost' \in {lost, lost \cup {"late save"}}
        /\ UNCHANGED <<page, texts, answer, due, jobs, error, editing, origin, fields, rejected>>
        /\ G!Write /\ G!Load
    BY <1>1 DEF G!Saved, G!CloseAfterSave, G!Losing
  <2>2. {due', error', formOpen', typed', busy', rejected'} \subseteq BOOLEAN
    BY <2>1 DEF PagesInv, G!TypeOK
  <2>3. G!TypeOK'
    BY <1>0, <2>1, <2>2, LoadIs, WriteIs DEF PagesInv, G!TypeOK
  <2>4. FormInv'
    BY <2>1 DEF PagesInv, FormInv
  <2> QED
    BY <2>3, <2>4 DEF PagesInv
<1>2. CASE G!SaveRefused
  <2>1. /\ busy' = FALSE /\ saving' = G!NoSave
        /\ UNCHANGED <<page, store, texts, load, answer, due, jobs, error, formOpen, editing, origin,
                       fields, typed, lost, rejected>>
    BY <1>2 DEF G!SaveRefused, G!pageVars, G!histVars
  <2>2. {due', error', formOpen', typed', busy', rejected'} \subseteq BOOLEAN
    BY <2>1 DEF PagesInv, G!TypeOK
  <2>3. G!TypeOK'
    BY <1>0, <2>1, <2>2 DEF PagesInv, G!TypeOK
  <2>4. FormInv'
    BY <2>1 DEF PagesInv, FormInv, G!Rendered
  <2> QED
    BY <2>3, <2>4 DEF PagesInv
<1>3. CASE G!SaveRejected
  <2>1. /\ saving' = G!NoSave /\ rejected' = TRUE /\ (G!Write \/ store' = store)
        /\ UNCHANGED <<page, texts, load, answer, due, jobs, error, formOpen, editing, origin,
                       fields, typed, busy, lost>>
    BY <1>3 DEF G!SaveRejected, G!pageVars, G!formVars
  <2>2. {due', error', formOpen', typed', busy', rejected'} \subseteq BOOLEAN
    BY <2>1 DEF PagesInv, G!TypeOK
  <2>3. store' \in G!Lists
    BY <2>1, WriteIs DEF PagesInv, G!TypeOK
  <2>4. G!TypeOK'
    BY <1>0, <2>1, <2>2, <2>3 DEF PagesInv, G!TypeOK
  <2>5. FormInv'
    BY <2>1 DEF PagesInv, FormInv, G!Rendered
  <2> QED
    BY <2>4, <2>5 DEF PagesInv
<1> QED
  BY <1>1, <1>2, <1>3

LEMMA PagesStay ==
    ASSUME PagesInv, [G!Next]_(G!vars)
    PROVE  PagesInv'
<1>0. /\ load \in [PageLists -> {"unsent", "sent", "listed", "failed", "done"}]
      /\ answer \in [PageLists -> G!Lists] /\ store \in G!Lists /\ texts \in G!Texts /\ due \in BOOLEAN
  BY DEF PagesInv, G!TypeOK
<1>1. CASE G!Announced
  BY <1>0, <1>1, AskingKeeps DEF G!Announced
<1>2. CASE G!Refresh
  BY <1>0, <1>2, AskingKeeps, LoadIs DEF G!Refresh
<1>3. ASSUME NEW l \in PageLists, G!ListItems(l) PROVE PagesInv'
  <2>1. /\ load' \in [PageLists -> {"unsent", "sent", "listed", "failed", "done"}]
        /\ answer' \in [PageLists -> G!Lists]
    BY <1>0, <1>3 DEF G!ListItems
  <2> QED
    BY <1>0, <1>3, <2>1, AskingKeeps DEF G!ListItems
<1>4. ASSUME NEW l \in PageLists, G!Loaded(l) PROVE PagesInv'
  <2>1. G!NoList \in G!Lists
    BY PagesFacts DEF G!NoList, G!Lists
  <2>2. /\ load' \in [PageLists -> {"unsent", "sent", "listed", "failed", "done"}]
        /\ answer' \in [PageLists -> G!Lists]
        /\ UNCHANGED <<page, store, texts, due, rejected>>
        /\ G!ShowList(l) \/ G!ShowError
    BY <1>0, <1>4, <2>1 DEF G!Loaded
  <2> QED
    BY <2>2, ShowListKeeps, ShowErrorKeeps
<1>5. ASSUME NEW i \in Items, G!Change(i) PROVE PagesInv'
  <2>1. texts' \in G!Texts /\ store' = [store EXCEPT ![i] = texts']
    BY <1>0, <1>5, PagesFacts DEF G!Change
  <2>2. store' \in G!Lists
    BY <1>0, <2>1 DEF G!Lists
  <2> QED
    BY <1>0, <1>5, <2>1, <2>2, AskingKeeps DEF G!Change, G!netVars
<1>6. ASSUME NEW i \in Items, G!RemoveJob(i) PROVE PagesInv'
  <2>1. store' \in G!Lists /\ load' \in [PageLists -> {"unsent", "sent", "listed", "failed", "done"}]
    BY <1>0, <1>6, LoadIs, PagesFacts DEF G!RemoveJob, G!Lists
  <2> QED
    BY <1>0, <1>6, <2>1, AskingKeeps DEF G!RemoveJob
<1>7. ASSUME NEW i \in Items, G!RunJob(i) PROVE PagesInv'
  BY <1>0, <1>7, AskingKeeps DEF G!RunJob
<1>8. CASE G!SubmitJob
  BY <1>8, SubmitKeeps DEF G!SubmitJob, PagesInv, G!TypeOK
<1>9. ASSUME NEW i \in Items, G!SubmitPersona(i) PROVE PagesInv'
  BY <1>9, SubmitKeeps DEF G!SubmitPersona
<1>10. CASE UNCHANGED G!vars
  BY <1>0, <1>10, AskingKeeps DEF G!vars, G!netVars
<1> QED
  BY <1>1, <1>2, <1>3, <1>4, <1>5, <1>6, <1>7, <1>8, <1>9, <1>10, FormKeeps, SavedKeeps DEF G!Next

-----------------------------------------------------------------------------
(* Sessions *)

States == {"idle", "walking", "listed", "failed", "hung"}
WalkItems == [kind: {"call", "dir", "file", "found"}, path: V!Prefixes, chat: BOOLEAN]

\* With the files f, of which those in r were deleted: the ones that are or were there.
HeldIn(f, r) == {k \in Dirs : f[k] # None} \cup r

\* A file of counts has no file that never was there, and no more than its messages.
Upto(f, r, file) ==
    \A k \in Dirs : file[k] # None => k \in HeldIn(f, r) /\ (f[k] # None => file[k] <= f[k])

\* A walk with the items b to look at, and the lines of c to count, comes to k yet.
PendingIn(b, c, k) ==
    \/ c = k
    \/ \E i \in b : \/ i.kind \in {"file", "found"} /\ i.path = k
                    \/ i.kind = "call" /\ ~i.chat /\ i.path = SubSeq(k, 1, 1)
                    \/ i.kind = "dir" /\ ~i.chat /\ i.path = k

\* A walk in the state a, that counted d of the files e: a session of the first two levels that
\* was there when it began is counted, or will be.
WalkOK(f, a, b, c, d, e) ==
    \A k \in Dirs :
        a \in {"walking", "listed"} /\ Len(k) <= 2 /\ e[k] # None /\ f[k] # None
            => \/ a = "walking" /\ PendingIn(b, c, k)
               \/ d[k] # None /\ e[k] <= d[k]

LoadOK(f, r, a, b, c, d, e) ==
    /\ a \in States /\ b \in SUBSET WalkItems /\ c \in Dirs \cup {None} /\ d \in V!Files /\ e \in V!Files
    /\ \A i \in b : i.kind \in {"file", "found"} => i.path \in HeldIn(f, r)
    /\ c # None => c \in HeldIn(f, r)
    /\ Upto(f, r, d) /\ Upto(f, r, e)
    /\ WalkOK(f, a, b, c, d, e)
    /\ a \in {"failed", "hung"} => r # {}

LoadsOK ==
    /\ listing \in [Walks -> States] /\ todo \in [Walks -> SUBSET WalkItems]
    /\ reading \in [Walks -> Dirs \cup {None}]
    /\ out \in [Walks -> V!Files] /\ began \in [Walks -> V!Files]
    /\ \A l \in Walks : LoadOK(msgs, removed, listing[l], todo[l], reading[l], out[l], began[l])

FilesOK ==
    /\ msgs \in V!Files /\ torn \subseteq V!There /\ removed \subseteq Dirs \ V!There
    /\ \A k \in torn : msgs[k] < MaxMsgs

\* The list, and what it said of the transcript that is shown, are of files that were there.
ListOK(f, r, x) == x \in V!Files \cup {None} /\ (x # None => Upto(f, r, x))
ViewOK(f, r, x) ==
    /\ x \in [file: Dirs \cup {None}, listed: V!Counts]
    /\ x.file # None => x.file \in HeldIn(f, r) /\ (f[x.file] # None => x.listed <= f[x.file])
    /\ x = V!NoView \/ x.file # None
PageOK ==
    /\ ListOK(msgs, removed, list) /\ failed \in BOOLEAN /\ ViewOK(msgs, removed, view)
    /\ events \in 0..MaxMsgs + 1 \cup {None}
    /\ view = V!NoView => events = None
    /\ V!TranscriptFollows

SessionsInv == FilesOK /\ LoadsOK /\ PageOK

LEMMA SessionsFacts ==
    /\ MaxMsgs \in Nat /\ None \notin Dirs /\ None \notin V!Counts /\ None \notin V!Files
    /\ V!Counts = 0..MaxMsgs /\ 0 \in V!Counts /\ V!Counts \subseteq Nat
    /\ V!NoFiles \in V!Files /\ \A k \in Dirs : V!NoFiles[k] = None
    /\ V!NoView \in [file: {None}, listed: {0}]
BY PartsAssumption DEF V!SessionsAssumption, V!Counts, V!NoFiles, V!Files, V!NoView

\* Directories are sequences of one name or more.
LEMMA DirsAre ==
    ASSUME NEW k \in Dirs
    PROVE  /\ Len(k) \in Nat /\ Len(k) >= 1 /\ SubSeq(k, 1, Len(k)) = k
           /\ SubSeq(k, 1, 1) \in V!Prefixes /\ k \in V!Prefixes
           /\ Len(k) = 2 => Len(SubSeq(k, 1, 1)) = 1
           /\ \A n \in 1..Len(k) : SubSeq(k, 1, n) \in V!Prefixes
<1>1. k \in Seq(STRING) /\ k # <<>>
  BY PartsAssumption DEF V!SessionsAssumption
<1>2. Len(k) \in Nat /\ Len(k) >= 1 /\ SubSeq(k, 1, Len(k)) = k
  BY <1>1
<1>3. \A n \in 1..Len(k) : SubSeq(k, 1, n) \in V!Prefixes
  BY DEF V!Prefixes
<1>4. Len(k) = 2 => Len(SubSeq(k, 1, 1)) = 1
  BY <1>1
<1>5. 1 \in 1..Len(k) /\ Len(k) \in 1..Len(k)
  BY <1>2
<1>6. SubSeq(k, 1, 1) \in V!Prefixes /\ SubSeq(k, 1, Len(k)) \in V!Prefixes
  BY <1>3, <1>5
<1>7. k \in V!Prefixes
  BY <1>2, <1>6
<1> QED
  BY <1>2, <1>3, <1>4, <1>6, <1>7

LEMMA NothingAsked ==
    ASSUME NEW f \in V!Files, NEW r
    PROVE  /\ LoadOK(f, r, "idle", {}, None, V!NoFiles, V!NoFiles)
           /\ Upto(f, r, V!NoFiles)
BY SessionsFacts DEF LoadOK, States, Upto, WalkOK

LEMMA SessionsInit == V!Init => SessionsInv
<1> SUFFICES ASSUME V!Init PROVE SessionsInv
  OBVIOUS
<1>1. msgs \in V!Files /\ torn = {} /\ removed = {}
  BY SessionsFacts DEF V!Init, V!Files
<1>2. FilesOK
  BY <1>1 DEF FilesOK
<1>3. LoadsOK
  BY <1>1, NothingAsked, SessionsFacts DEF V!Init, LoadsOK, States
<1>4. ViewOK(msgs, removed, V!NoView)
  BY SessionsFacts DEF ViewOK
<1>5. PageOK
  BY <1>4 DEF V!Init, PageOK, ListOK, V!TranscriptFollows
<1> QED
  BY <1>2, <1>3, <1>5 DEF SessionsInv

-----------------------------------------------------------------------------

\* The files grow, or go away for good: what was said of them is still true.
Grows(f, r, g, s) ==
    /\ f \in V!Files /\ g \in V!Files /\ r \subseteq s
    /\ \A k \in HeldIn(f, r) : k \in HeldIn(g, s) /\ (g[k] # None => f[k] # None /\ f[k] <= g[k])

LEMMA UptoGrows ==
    ASSUME NEW f, NEW r, NEW g, NEW s, Grows(f, r, g, s), NEW file \in V!Files, Upto(f, r, file)
    PROVE  Upto(g, s, file)
<1> SUFFICES ASSUME NEW k \in Dirs, file[k] # None
             PROVE  k \in HeldIn(g, s) /\ (g[k] # None => file[k] <= g[k])
  BY DEF Upto
<1>1. k \in HeldIn(f, r) /\ (f[k] # None => file[k] <= f[k])
  BY DEF Upto
<1>2. k \in HeldIn(g, s) /\ (g[k] # None => f[k] # None /\ f[k] <= g[k])
  BY <1>1 DEF Grows
<1>3. file[k] \in Nat /\ (f[k] # None => f[k] \in Nat) /\ (g[k] # None => g[k] \in Nat)
  BY SessionsFacts DEF Grows, V!Files
<1> QED
  BY <1>1, <1>2, <1>3

LEMMA LoadGrows ==
    ASSUME NEW f, NEW r, NEW g, NEW s, Grows(f, r, g, s),
           NEW a, NEW b, NEW c, NEW d, NEW e, LoadOK(f, r, a, b, c, d, e)
    PROVE  LoadOK(g, s, a, b, c, d, e)
<1>1. Upto(g, s, d) /\ Upto(g, s, e)
  BY UptoGrows DEF LoadOK
<1>2. \A k \in HeldIn(f, r) : k \in HeldIn(g, s)
  BY DEF Grows
<1>3. WalkOK(g, a, b, c, d, e)
  <2>1. \A k \in Dirs : e[k] # None /\ g[k] # None => f[k] # None
    BY DEF LoadOK, Upto, Grows
  <2> QED
    BY <2>1 DEF LoadOK, WalkOK
<1>4. a \in {"failed", "hung"} => s # {}
  BY DEF LoadOK, Grows
<1> QED
  BY <1>1, <1>2, <1>3, <1>4 DEF LoadOK

LEMMA FileKeeps ==
    ASSUME SessionsInv, Grows(msgs, removed, msgs', removed'), FilesOK',
           UNCHANGED <<listing, todo, reading, out, began, list, failed, view, events>>
    PROVE  SessionsInv'
<1>1. LoadsOK'
  BY LoadGrows DEF SessionsInv, LoadsOK
<1>2. ListOK(msgs', removed', list)
  BY UptoGrows DEF SessionsInv, PageOK, ListOK
<1>3. ViewOK(msgs', removed', view)
  <2>1. ViewOK(msgs, removed, view) /\ msgs' \in V!Files /\ msgs \in V!Files
    BY DEF SessionsInv, PageOK, Grows
  <2> SUFFICES ASSUME view.file # None
               PROVE  /\ view.file \in HeldIn(msgs', removed')
                      /\ msgs'[view.file] # None => view.listed <= msgs'[view.file]
    BY <2>1 DEF ViewOK
  <2>2. /\ view.file \in HeldIn(msgs, removed) /\ (msgs[view.file] # None => view.listed <= msgs[view.file])
        /\ view.file \in Dirs /\ view.listed \in Nat
    BY <2>1, SessionsFacts DEF ViewOK
  <2>3. /\ msgs'[view.file] # None => msgs[view.file] # None /\ msgs[view.file] <= msgs'[view.file]
        /\ view.file \in HeldIn(msgs', removed')
    BY <2>2 DEF Grows
  <2>4. /\ msgs[view.file] # None => msgs[view.file] \in Nat
        /\ msgs'[view.file] # None => msgs'[view.file] \in Nat
    BY <2>1, <2>2, SessionsFacts DEF V!Files
  <2> QED
    BY <2>2, <2>3, <2>4
<1>4. PageOK'
  BY <1>2, <1>3 DEF SessionsInv, PageOK, V!TranscriptFollows
<1> QED
  BY <1>1, <1>4 DEF SessionsInv

LEMMA FilesStep ==
    ASSUME SessionsInv, NEW k \in Dirs,
           V!NewSession(k) \/ V!AppendBegins(k) \/ V!AppendEnds(k) \/ V!Remove(k)
    PROVE  SessionsInv'
<1>0. /\ msgs \in V!Files /\ torn \subseteq V!There /\ removed \subseteq Dirs \ V!There
      /\ \A j \in torn : msgs[j] < MaxMsgs
      /\ \A j \in Dirs : msgs[j] # None => msgs[j] \in Nat
      /\ \A j \in Dirs : j \in V!There <=> msgs[j] # None
  BY SessionsFacts DEF SessionsInv, FilesOK, V!Files, V!There
<1>1. CASE V!NewSession(k)
  <2>1. /\ msgs[k] = None /\ k \notin removed /\ msgs' = [msgs EXCEPT ![k] = 0]
        /\ UNCHANGED <<torn, removed, listing, todo, reading, out, began, list, failed, view, events>>
    BY <1>1 DEF V!NewSession, V!walkVars, V!pageVars
  <2>2. msgs' \in V!Files /\ msgs'[k] = 0 /\ \A j \in Dirs \ {k} : msgs'[j] = msgs[j]
    BY <1>0, <2>1, SessionsFacts DEF V!Files
  <2>3. FilesOK'
    BY <1>0, <2>1, <2>2 DEF FilesOK, V!There
  <2>4. Grows(msgs, removed, msgs', removed')
    BY <1>0, <2>1, <2>2 DEF Grows, HeldIn
  <2> QED
    BY <2>1, <2>3, <2>4, FileKeeps
<1>2. CASE V!AppendBegins(k)
  <2>1. /\ k \in V!There /\ msgs[k] < MaxMsgs /\ torn' = torn \cup {k}
        /\ UNCHANGED <<msgs, removed, listing, todo, reading, out, began, list, failed, view, events>>
    BY <1>2 DEF V!AppendBegins, V!walkVars, V!pageVars
  <2>3. FilesOK'
    BY <1>0, <2>1 DEF FilesOK, V!There
  <2>4. Grows(msgs, removed, msgs', removed')
    BY <1>0, <2>1 DEF Grows, HeldIn
  <2> QED
    BY <2>1, <2>3, <2>4, FileKeeps
<1>3. CASE V!AppendEnds(k)
  <2>1. /\ k \in torn /\ torn' = torn \ {k} /\ msgs' = [msgs EXCEPT ![k] = @ + 1]
        /\ UNCHANGED <<removed, listing, todo, reading, out, began, list, failed, view, events>>
    BY <1>3 DEF V!AppendEnds, V!walkVars, V!pageVars
  <2>2. msgs[k] \in Nat /\ msgs[k] + 1 \in V!Counts /\ msgs[k] + 1 # None
    BY <1>0, <2>1, SessionsFacts
  <2>3. msgs' \in V!Files /\ msgs'[k] = msgs[k] + 1 /\ \A j \in Dirs \ {k} : msgs'[j] = msgs[j]
    BY <1>0, <2>1, <2>2 DEF V!Files
  <2>4. FilesOK'
    BY <1>0, <2>1, <2>2, <2>3 DEF FilesOK, V!There
  <2>5. Grows(msgs, removed, msgs', removed')
    BY <1>0, <2>1, <2>2, <2>3 DEF Grows, HeldIn
  <2> QED
    BY <2>1, <2>4, <2>5, FileKeeps
<1>4. CASE V!Remove(k)
  <2>1. /\ k \in V!There /\ removed' = removed \cup {k} /\ msgs' = [msgs EXCEPT ![k] = None]
        /\ torn' = torn \ {k}
        /\ UNCHANGED <<listing, todo, reading, out, began, list, failed, view, events>>
    BY <1>4 DEF V!Remove, V!walkVars, V!pageVars
  <2>2. msgs' \in V!Files /\ msgs'[k] = None /\ \A j \in Dirs \ {k} : msgs'[j] = msgs[j]
    BY <1>0, <2>1 DEF V!Files
  <2>3. FilesOK'
    BY <1>0, <2>1, <2>2 DEF FilesOK, V!There
  <2>4. Grows(msgs, removed, msgs', removed')
    BY <1>0, <2>1, <2>2 DEF Grows, HeldIn
  <2> QED
    BY <2>1, <2>3, <2>4, FileKeeps
<1> QED
  BY <1>1, <1>2, <1>3, <1>4

-----------------------------------------------------------------------------

\* A function that changes at one request alone.
Moves(v, w, l) == w = [v EXCEPT ![l] = w[l]]

\* A step of one request for the list.
LEMMA LoadMoves ==
    ASSUME SessionsInv, NEW l \in Walks,
           LoadOK(msgs, removed, listing'[l], todo'[l], reading'[l], out'[l], began'[l]),
           Moves(listing, listing', l), Moves(todo, todo', l), Moves(reading, reading', l),
           Moves(out, out', l), Moves(began, began', l),
           UNCHANGED <<msgs, torn, removed, view, events>>,
           ListOK(msgs, removed, list'), failed' \in BOOLEAN
    PROVE  SessionsInv'
<1>1. /\ listing \in [Walks -> States] /\ todo \in [Walks -> SUBSET WalkItems]
      /\ reading \in [Walks -> Dirs \cup {None}]
      /\ out \in [Walks -> V!Files] /\ began \in [Walks -> V!Files]
      /\ listing'[l] \in States /\ todo'[l] \in SUBSET WalkItems /\ reading'[l] \in Dirs \cup {None}
      /\ out'[l] \in V!Files /\ began'[l] \in V!Files
  BY DEF SessionsInv, LoadsOK, LoadOK
<1>2. /\ listing' \in [Walks -> States] /\ \A m \in Walks : m # l => listing'[m] = listing[m]
      /\ todo' \in [Walks -> SUBSET WalkItems] /\ \A m \in Walks : m # l => todo'[m] = todo[m]
      /\ reading' \in [Walks -> Dirs \cup {None}] /\ \A m \in Walks : m # l => reading'[m] = reading[m]
      /\ out' \in [Walks -> V!Files] /\ \A m \in Walks : m # l => out'[m] = out[m]
      /\ began' \in [Walks -> V!Files] /\ \A m \in Walks : m # l => began'[m] = began[m]
  BY <1>1 DEF Moves
<1>3. ASSUME NEW m \in Walks
      PROVE  LoadOK(msgs, removed, listing'[m], todo'[m], reading'[m], out'[m], began'[m])
  <2>1. CASE m = l
    BY <2>1
  <2>2. CASE m # l
    BY <1>2, <2>2 DEF SessionsInv, LoadsOK
  <2> QED
    BY <2>1, <2>2
<1>4. LoadsOK'
  BY <1>2, <1>3 DEF LoadsOK
<1>5. FilesOK' /\ PageOK'
  BY DEF SessionsInv, FilesOK, PageOK, V!There, V!TranscriptFollows
<1> QED
  BY <1>4, <1>5 DEF SessionsInv

LEMMA LoadIsOK ==
    ASSUME SessionsInv, NEW l \in Walks
    PROVE  /\ LoadOK(msgs, removed, listing[l], todo[l], reading[l], out[l], began[l])
           /\ ListOK(msgs, removed, list) /\ failed \in BOOLEAN
           /\ \A k \in Dirs : k \in V!There <=> msgs[k] # None
           /\ V!There \subseteq HeldIn(msgs, removed)
BY DEF SessionsInv, LoadsOK, PageOK, V!There, HeldIn

\* What a request's step leaves, and what it sets.
LEMMA LoadSets ==
    ASSUME SessionsInv, NEW l \in Walks
    PROVE  /\ listing' = listing => Moves(listing, listing', l) /\ listing'[l] = listing[l]
           /\ \A x : listing' = [listing EXCEPT ![l] = x] => Moves(listing, listing', l) /\ listing'[l] = x
           /\ todo' = todo => Moves(todo, todo', l) /\ todo'[l] = todo[l]
           /\ \A x : todo' = [todo EXCEPT ![l] = x] => Moves(todo, todo', l) /\ todo'[l] = x
           /\ reading' = reading => Moves(reading, reading', l) /\ reading'[l] = reading[l]
           /\ \A x : reading' = [reading EXCEPT ![l] = x] => Moves(reading, reading', l) /\ reading'[l] = x
           /\ out' = out => Moves(out, out', l) /\ out'[l] = out[l]
           /\ \A x : out' = [out EXCEPT ![l] = x] => Moves(out, out', l) /\ out'[l] = x
           /\ began' = began => Moves(began, began', l) /\ began'[l] = began[l]
           /\ \A x : began' = [began EXCEPT ![l] = x] => Moves(began, began', l) /\ began'[l] = x
<1>1. /\ listing \in [Walks -> States] /\ todo \in [Walks -> SUBSET WalkItems]
      /\ reading \in [Walks -> Dirs \cup {None}]
      /\ out \in [Walks -> V!Files] /\ began \in [Walks -> V!Files]
  BY DEF SessionsInv, LoadsOK
<1>2. /\ listing' = listing => Moves(listing, listing', l) /\ listing'[l] = listing[l]
      /\ \A x : listing' = [listing EXCEPT ![l] = x] => Moves(listing, listing', l) /\ listing'[l] = x
  BY <1>1 DEF Moves
<1>3. /\ todo' = todo => Moves(todo, todo', l) /\ todo'[l] = todo[l]
      /\ \A x : todo' = [todo EXCEPT ![l] = x] => Moves(todo, todo', l) /\ todo'[l] = x
  BY <1>1 DEF Moves
<1>4. /\ reading' = reading => Moves(reading, reading', l) /\ reading'[l] = reading[l]
      /\ \A x : reading' = [reading EXCEPT ![l] = x] => Moves(reading, reading', l) /\ reading'[l] = x
  BY <1>1 DEF Moves
<1>5. /\ out' = out => Moves(out, out', l) /\ out'[l] = out[l]
      /\ \A x : out' = [out EXCEPT ![l] = x] => Moves(out, out', l) /\ out'[l] = x
  BY <1>1 DEF Moves
<1>6. /\ began' = began => Moves(began, began', l) /\ began'[l] = began[l]
      /\ \A x : began' = [began EXCEPT ![l] = x] => Moves(began, began', l) /\ began'[l] = x
  BY <1>1 DEF Moves
<1> QED
  BY <1>2, <1>3, <1>4, <1>5, <1>6

\* GET /api/sessions begins.
LEMMA AskListKeeps ==
    ASSUME SessionsInv, NEW l \in Walks, V!Ask(l)
    PROVE  SessionsInv'
<1> DEFINE b == {V!Item("call", SubSeq(k, 1, 1), FALSE) : k \in V!There}
<1>1. /\ listing' = [listing EXCEPT ![l] = "walking"] /\ todo' = [todo EXCEPT ![l] = b]
      /\ began' = [began EXCEPT ![l] = msgs] /\ out' = [out EXCEPT ![l] = V!NoFiles]
      /\ UNCHANGED <<msgs, torn, removed, reading, list, failed, view, events>>
  BY DEF V!Ask, V!fileVars, V!pageVars
<1>2. reading' = [reading EXCEPT ![l] = reading[l]]
  BY <1>1 DEF SessionsInv, LoadsOK
<1>3. \A k \in Dirs : V!Item("call", SubSeq(k, 1, 1), FALSE)
                        \in [kind: {"call"}, path: {SubSeq(k, 1, 1)}, chat: {FALSE}]
  BY DEF V!Item
<1>4. b \in SUBSET WalkItems
  <2> SUFFICES ASSUME NEW k \in Dirs PROVE V!Item("call", SubSeq(k, 1, 1), FALSE) \in WalkItems
    BY DEF V!There
  <2>1. SubSeq(k, 1, 1) \in V!Prefixes
    BY DirsAre
  <2> QED
    BY <1>3, <2>1 DEF WalkItems
<1>5. \A i \in b : i.kind = "call"
  BY <1>3 DEF V!There
<1>6. \A k \in Dirs : msgs[k] # None
        => \E i \in b : i.kind = "call" /\ ~i.chat /\ i.path = SubSeq(k, 1, 1)
  BY <1>3 DEF V!There
<1> HIDE DEF b
<1>7. WalkOK(msgs, "walking", b, reading[l], V!NoFiles, msgs)
  BY <1>6 DEF WalkOK, PendingIn
<1>8. msgs \in V!Files /\ Upto(msgs, removed, msgs)
  BY SessionsFacts DEF SessionsInv, FilesOK, V!Files, Upto, HeldIn
<1>9. reading[l] \in Dirs \cup {None} /\ (reading[l] # None => reading[l] \in HeldIn(msgs, removed))
  BY DEF SessionsInv, LoadsOK, LoadOK
<1>10. LoadOK(msgs, removed, "walking", b, reading[l], V!NoFiles, msgs)
  BY <1>4, <1>5, <1>7, <1>8, <1>9, NothingAsked, SessionsFacts DEF LoadOK, States
<1>11. ListOK(msgs, removed, list') /\ failed' \in BOOLEAN
  BY <1>1 DEF SessionsInv, PageOK
<1>12. /\ Moves(listing, listing', l) /\ Moves(todo, todo', l) /\ Moves(reading, reading', l)
       /\ Moves(out, out', l) /\ Moves(began, began', l)
       /\ listing'[l] = "walking" /\ todo'[l] = b /\ reading'[l] = reading[l]
       /\ out'[l] = V!NoFiles /\ began'[l] = msgs
  BY <1>1, LoadSets
<1> QED
  BY <1>1, <1>10, <1>11, <1>12, LoadIsOK, LoadMoves

\* What a directory gives a walk.
LEMMA ItemIs ==
    ASSUME NEW kind, NEW p, NEW flag
    PROVE  V!Item(kind, p, flag) \in [kind: {kind}, path: {p}, chat: {flag}]
BY DEF V!Item

LEMMA SubDirsAre ==
    ASSUME NEW p \in V!Prefixes, NEW sub \in V!SubDirs(p)
    PROVE  sub \in V!Prefixes
<1>1. PICK d \in Dirs : Len(d) > Len(p) /\ SubSeq(d, 1, Len(p)) = p /\ sub = SubSeq(d, 1, Len(p) + 1)
  BY DEF V!SubDirs, V!There
<1>2. PICK k \in Dirs : \E n \in 1..Len(k) : p = SubSeq(k, 1, n)
  BY DEF V!Prefixes
<1>3. k \in Seq(STRING) /\ d \in Seq(STRING)
  BY PartsAssumption DEF V!SessionsAssumption
<1>4. Len(p) \in Nat /\ Len(d) \in Nat
  BY <1>2, <1>3
<1>5. Len(p) + 1 \in 1..Len(d)
  BY <1>1, <1>4
<1> QED
  BY <1>1, <1>5, DirsAre

LEMMA EntriesAre ==
    ASSUME SessionsInv, NEW i \in WalkItems, i.kind \in {"call", "dir"}
    PROVE  /\ V!Entries(i) \subseteq WalkItems
           /\ \A j \in V!Entries(i) : j.kind \in {"file", "found"} => j.path \in V!There
           /\ \A k \in V!There : Len(k) <= 2 /\ ~i.chat =>
                 /\ i.kind = "call" /\ i.path = SubSeq(k, 1, 1) =>
                       \E j \in V!Entries(i) : \/ j.kind = "file" /\ j.path = k
                                               \/ j.kind = "dir" /\ ~j.chat /\ j.path = k
                 /\ i.kind = "dir" /\ i.path = k =>
                       \E j \in V!Entries(i) : j.kind = "found" /\ j.path = k
<1> DEFINE files == {V!Item("file", k, i.chat) : k \in {i.path} \cap V!There}
           dirs == {V!Item("dir", p, i.chat) : p \in V!SubDirs(i.path)}
           calls == {V!Item("call", p, TRUE) : p \in V!SubDirs(i.path)}
           found == {V!Item("found", k, TRUE) : k \in {i.path} \cap V!There}
<1>1. /\ i.kind = "call" => V!Entries(i) = files \cup dirs
      /\ i.kind = "dir" => V!Entries(i) = calls \/ V!Entries(i) = found
      /\ i.kind = "dir" /\ ~i.chat => V!Entries(i) = found
  BY DEF V!Entries
<1>2. i.path \in V!Prefixes /\ i.chat \in BOOLEAN
  BY DEF WalkItems
<1>3. ASSUME NEW kind \in {"call", "dir", "file", "found"}, NEW p \in V!Prefixes, NEW flag \in BOOLEAN
      PROVE  /\ V!Item(kind, p, flag) \in WalkItems /\ V!Item(kind, p, flag).kind = kind
             /\ V!Item(kind, p, flag).path = p /\ V!Item(kind, p, flag).chat = flag
  BY ItemIs DEF WalkItems
<1>4. \A p \in V!SubDirs(i.path) : p \in V!Prefixes
  BY <1>2, SubDirsAre
<1>5. /\ files \cup dirs \cup calls \cup found \subseteq WalkItems
      /\ \A j \in files \cup found : j.path \in V!There
      /\ \A j \in dirs : j.kind = "dir"
      /\ \A j \in calls : j.kind = "call"
  <2>0. /\ \A p \in V!Prefixes : /\ V!Item("file", p, i.chat) \in WalkItems
                                /\ V!Item("file", p, i.chat).path = p
                                /\ V!Item("found", p, TRUE) \in WalkItems
                                /\ V!Item("found", p, TRUE).path = p
        /\ \A p \in V!Prefixes : /\ V!Item("call", p, TRUE) \in WalkItems
                                /\ V!Item("call", p, TRUE).kind = "call"
    <3>1. \A p \in V!Prefixes : V!Item("file", p, i.chat) \in WalkItems /\ V!Item("file", p, i.chat).path = p
      BY <1>2, <1>3
    <3>2. \A p \in V!Prefixes : V!Item("found", p, TRUE) \in WalkItems /\ V!Item("found", p, TRUE).path = p
      BY DEF V!Item, WalkItems
    <3>3. \A p \in V!Prefixes : V!Item("call", p, TRUE) \in WalkItems /\ V!Item("call", p, TRUE).kind = "call"
      BY DEF V!Item, WalkItems
    <3> QED
      BY <3>1, <3>2, <3>3
  <2>1. \A j \in files \cup found : j \in WalkItems /\ j.path \in V!There
    <3>1. ASSUME NEW j \in files PROVE j \in WalkItems /\ j.path \in V!There
      <4>1. PICK k \in {i.path} \cap V!There : j = V!Item("file", k, i.chat)
        BY <3>1
      <4>2. k \in V!Prefixes /\ k \in V!There
        BY <1>2
      <4> HIDE DEF files, found
      <4> QED
        BY <4>1, <4>2, <2>0
    <3>2. ASSUME NEW j \in found PROVE j \in WalkItems /\ j.path \in V!There
      <4>1. PICK k \in {i.path} \cap V!There : j = V!Item("found", k, TRUE)
        BY <3>2
      <4>2. k \in V!Prefixes /\ k \in V!There
        BY <1>2
      <4> HIDE DEF files, found
      <4> QED
        BY <4>1, <4>2, <2>0
    <3> QED
      BY <3>1, <3>2
  <2>2. \A j \in dirs : j \in WalkItems /\ j.kind = "dir"
    BY <1>2, <1>3, <1>4
  <2>3. \A j \in calls : j \in WalkItems /\ j.kind = "call"
    BY <1>4, <2>0
  <2> HIDE DEF files, dirs, calls, found
  <2> QED
    BY <2>1, <2>2, <2>3
<1>6. ASSUME NEW k \in V!There, Len(k) <= 2, ~i.chat
      PROVE  /\ i.path = SubSeq(k, 1, 1) =>
                   \E j \in files \cup dirs : \/ j.kind = "file" /\ j.path = k
                                              \/ j.kind = "dir" /\ ~j.chat /\ j.path = k
             /\ i.path = k => \E j \in found : j.kind = "found" /\ j.path = k
  <2>0. k \in Dirs
    BY DEF V!There
  <2>1. ASSUME i.path = k PROVE \E j \in found : j.kind = "found" /\ j.path = k
    <3>1. V!Item("found", k, TRUE) \in found
      BY <2>1
    <3> QED
      BY <3>1, <2>1, <1>2, <1>3
  <2>2. ASSUME i.path = SubSeq(k, 1, 1), Len(k) = 1
        PROVE  \E j \in files : j.kind = "file" /\ j.path = k
    <3>1. i.path = k
      BY <2>0, <2>2, DirsAre
    <3>2. V!Item("file", k, i.chat) \in files
      BY <3>1
    <3> QED
      BY <3>1, <3>2, <1>2, <1>3
  <2>3. ASSUME i.path = SubSeq(k, 1, 1), Len(k) = 2
        PROVE  \E j \in dirs : j.kind = "dir" /\ ~j.chat /\ j.path = k
    <3>1. Len(i.path) = 1 /\ SubSeq(k, 1, 2) = k
      BY <2>0, <2>3, DirsAre
    <3>2. k \in V!SubDirs(i.path)
      BY <2>3, <3>1 DEF V!SubDirs
    <3>3. V!Item("dir", k, i.chat) \in dirs
      BY <3>2
    <3> QED
      BY <3>2, <3>3, <1>2, <1>3, <1>4, <1>6
  <2>4. Len(k) = 1 \/ Len(k) = 2
    <3>1. Len(k) \in Nat /\ Len(k) >= 1
      BY <2>0, DirsAre
    <3>2. \A n \in Nat : n >= 1 /\ n <= 2 => n = 1 \/ n = 2
      OBVIOUS
    <3>3. Len(k) <= 2
      BY <1>6
    <3> QED
      BY <3>1, <3>2, <3>3
  <2> QED
    BY <2>1, <2>2, <2>3, <2>4
<1> HIDE DEF files, dirs, calls, found
<1>7. V!Entries(i) \subseteq WalkItems
  BY <1>1, <1>5
<1>8. \A j \in V!Entries(i) : j.kind \in {"file", "found"} => j.path \in V!There
  BY <1>1, <1>5
<1> QED
  BY <1>1, <1>6, <1>7, <1>8

LEMMA CollectKeeps ==
    ASSUME SessionsInv, NEW l \in Walks, NEW i \in todo[l], V!Collect(l, i)
    PROVE  SessionsInv'
<1> DEFINE b == (todo[l] \ {i}) \cup V!Entries(i)
<1>1. /\ listing[l] = "walking" /\ reading[l] = None /\ i.kind \in {"call", "dir"}
      /\ todo' = [todo EXCEPT ![l] = b]
      /\ UNCHANGED <<msgs, torn, removed, listing, reading, out, began, list, failed, view, events>>
  BY DEF V!Collect, V!fileVars, V!pageVars
<1>2. LoadOK(msgs, removed, "walking", todo[l], None, out[l], began[l])
  BY <1>1, LoadIsOK
<1>3. i \in WalkItems /\ todo[l] \subseteq WalkItems
  BY <1>2 DEF LoadOK
<1>4. b \in SUBSET WalkItems /\ \A j \in b : j.kind \in {"file", "found"} => j.path \in HeldIn(msgs, removed)
  BY <1>1, <1>2, <1>3, EntriesAre, LoadIsOK DEF LoadOK
<1>5. ASSUME NEW k \in V!There, Len(k) <= 2, PendingIn(todo[l], None, k) PROVE PendingIn(b, None, k)
  <2>1. None # k
    BY SessionsFacts DEF V!There
  <2>2. PICK j \in todo[l] : \/ j.kind \in {"file", "found"} /\ j.path = k
                             \/ j.kind = "call" /\ ~j.chat /\ j.path = SubSeq(k, 1, 1)
                             \/ j.kind = "dir" /\ ~j.chat /\ j.path = k
    BY <1>5, <2>1 DEF PendingIn
  <2>3. CASE j # i
    BY <2>2, <2>3 DEF PendingIn
  <2>4. CASE j = i
    <3>1. \E x \in V!Entries(i) : \/ x.kind \in {"file", "found"} /\ x.path = k
                                  \/ x.kind = "dir" /\ ~x.chat /\ x.path = k
      BY <1>1, <1>3, <1>5, <2>2, <2>4, EntriesAre
    <3> QED
      BY <3>1 DEF PendingIn
  <2> QED
    BY <2>3, <2>4
<1> HIDE DEF b
<1>6. WalkOK(msgs, "walking", b, None, out[l], began[l])
  BY <1>2, <1>5, LoadIsOK DEF LoadOK, WalkOK
<1>7. LoadOK(msgs, removed, listing[l], b, reading[l], out[l], began[l])
  BY <1>1, <1>2, <1>4, <1>6 DEF LoadOK
<1>8. /\ Moves(listing, listing', l) /\ Moves(todo, todo', l) /\ Moves(reading, reading', l)
      /\ Moves(out, out', l) /\ Moves(began, began', l)
      /\ listing'[l] = listing[l] /\ todo'[l] = b /\ reading'[l] = reading[l]
      /\ out'[l] = out[l] /\ began'[l] = began[l]
  BY <1>1, LoadSets
<1> QED
  BY <1>1, <1>7, <1>8, LoadIsOK, LoadMoves

\* An item that has been looked at, with what it gives.
LEMMA LstatKeeps ==
    ASSUME SessionsInv, NEW l \in Walks, NEW i \in todo[l], V!Lstat(l, i)
    PROVE  SessionsInv'
<1> DEFINE new == {V!Item("found", k, i.chat) : k \in {i.path} \cap V!There}
           b == (todo[l] \ {i}) \cup new
<1>1. /\ listing[l] = "walking" /\ reading[l] = None /\ i.kind = "file"
      /\ todo' = [todo EXCEPT ![l] = b]
      /\ UNCHANGED <<msgs, torn, removed, listing, reading, out, began, list, failed, view, events>>
  BY DEF V!Lstat, V!fileVars, V!pageVars
<1>2. LoadOK(msgs, removed, "walking", todo[l], None, out[l], began[l])
  BY <1>1, LoadIsOK
<1>3. i \in WalkItems /\ i.path \in V!Prefixes /\ i.chat \in BOOLEAN
  BY <1>2 DEF LoadOK, WalkItems
<1>4. V!Item("found", i.path, i.chat) \in [kind: {"found"}, path: {i.path}, chat: {i.chat}]
  BY ItemIs
<1>5. \A j \in new : j \in WalkItems /\ j.kind = "found" /\ j.path \in V!There
  BY <1>3, <1>4 DEF WalkItems
<1>6. i.path \in V!There => \E j \in new : j.kind = "found" /\ j.path = i.path
  BY <1>4
<1> HIDE DEF new
<1>7. b \in SUBSET WalkItems /\ \A j \in b : j.kind \in {"file", "found"} => j.path \in HeldIn(msgs, removed)
  BY <1>2, <1>5, LoadIsOK DEF LoadOK
<1>8. ASSUME NEW k \in V!There, PendingIn(todo[l], None, k) PROVE PendingIn(b, None, k)
  <2>1. None # k
    BY SessionsFacts DEF V!There
  <2>2. PICK j \in todo[l] : \/ j.kind \in {"file", "found"} /\ j.path = k
                             \/ j.kind = "call" /\ ~j.chat /\ j.path = SubSeq(k, 1, 1)
                             \/ j.kind = "dir" /\ ~j.chat /\ j.path = k
    BY <1>8, <2>1 DEF PendingIn
  <2>3. CASE j # i
    BY <2>2, <2>3 DEF PendingIn
  <2>4. CASE j = i
    BY <1>1, <1>6, <1>8, <2>2, <2>4 DEF PendingIn
  <2> QED
    BY <2>3, <2>4
<1> HIDE DEF b
<1>9. WalkOK(msgs, "walking", b, None, out[l], began[l])
  BY <1>2, <1>8, LoadIsOK DEF LoadOK, WalkOK
<1>10. LoadOK(msgs, removed, listing[l], b, reading[l], out[l], began[l])
  BY <1>1, <1>2, <1>7, <1>9 DEF LoadOK
<1>11. /\ Moves(listing, listing', l) /\ Moves(todo, todo', l) /\ Moves(reading, reading', l)
       /\ Moves(out, out', l) /\ Moves(began, began', l)
       /\ listing'[l] = listing[l] /\ todo'[l] = b /\ reading'[l] = reading[l]
       /\ out'[l] = out[l] /\ began'[l] = began[l]
  BY <1>1, LoadSets
<1> QED
  BY <1>1, <1>10, <1>11, LoadIsOK, LoadMoves

\* A request that is over without a list: somebody has deleted a file.
LEMMA AnswerOK ==
    ASSUME SessionsInv, NEW l \in Walks, NEW a \in {"failed", "hung"}, removed # {}
    PROVE  LoadOK(msgs, removed, a, {}, None, out[l], began[l])
BY LoadIsOK DEF LoadOK, WalkOK, States

LEMMA StatKeeps ==
    ASSUME SessionsInv, NEW l \in Walks, NEW i \in todo[l], V!Stat(l, i)
    PROVE  SessionsInv'
<1>1. /\ listing[l] = "walking" /\ reading[l] = None /\ i.kind = "found"
      /\ UNCHANGED <<msgs, torn, removed, out, began, list, failed, view, events>>
  BY DEF V!Stat, V!fileVars, V!pageVars
<1>2. LoadOK(msgs, removed, "walking", todo[l], None, out[l], began[l])
  BY <1>1, LoadIsOK
<1>3. i.path \in HeldIn(msgs, removed)
  BY <1>1, <1>2 DEF LoadOK
<1>4. CASE i.path \in V!There
  <2> DEFINE b == todo[l] \ {i}
             c == i.path
  <2>1. todo' = [todo EXCEPT ![l] = b] /\ reading' = [reading EXCEPT ![l] = c] /\ listing' = listing
    BY <1>4 DEF V!Stat
  <2>2. c \in Dirs /\ c # None
    BY <1>4, SessionsFacts DEF V!There
  <2>3. ASSUME NEW k \in V!There, PendingIn(todo[l], None, k) PROVE PendingIn(b, c, k)
    <3>1. None # k
      BY SessionsFacts DEF V!There
    <3>2. PICK j \in todo[l] : \/ j.kind \in {"file", "found"} /\ j.path = k
                               \/ j.kind = "call" /\ ~j.chat /\ j.path = SubSeq(k, 1, 1)
                               \/ j.kind = "dir" /\ ~j.chat /\ j.path = k
      BY <2>3, <3>1 DEF PendingIn
    <3> QED
      BY <3>2, <1>1 DEF PendingIn
  <2> HIDE DEF b, c
  <2>4. WalkOK(msgs, "walking", b, c, out[l], began[l])
    BY <1>2, <2>3, LoadIsOK DEF LoadOK, WalkOK
  <2>5. LoadOK(msgs, removed, listing[l], b, c, out[l], began[l])
    BY <1>1, <1>2, <1>3, <2>2, <2>4 DEF LoadOK, b, c
  <2>6. /\ Moves(listing, listing', l) /\ Moves(todo, todo', l) /\ Moves(reading, reading', l)
        /\ Moves(out, out', l) /\ Moves(began, began', l)
        /\ listing'[l] = listing[l] /\ todo'[l] = b /\ reading'[l] = c
        /\ out'[l] = out[l] /\ began'[l] = began[l]
    BY <1>1, <2>1, LoadSets
  <2> QED
    BY <1>1, <2>5, <2>6, LoadIsOK, LoadMoves
<1>5. CASE i.path \notin V!There
  <2>1. /\ listing' = [listing EXCEPT ![l] = "failed"] /\ todo' = [todo EXCEPT ![l] = {}]
        /\ reading' = [reading EXCEPT ![l] = None]
    BY <1>5 DEF V!Stat, V!Answer
  <2>2. removed # {}
    BY <1>3, <1>5 DEF HeldIn, V!There
  <2>3. LoadOK(msgs, removed, "failed", {}, None, out[l], began[l])
    BY <2>2, AnswerOK
  <2>4. /\ Moves(listing, listing', l) /\ Moves(todo, todo', l) /\ Moves(reading, reading', l)
        /\ Moves(out, out', l) /\ Moves(began, began', l)
        /\ listing'[l] = "failed" /\ todo'[l] = {} /\ reading'[l] = None
        /\ out'[l] = out[l] /\ began'[l] = began[l]
    BY <1>1, <2>1, LoadSets
  <2> QED
    BY <1>1, <2>3, <2>4, LoadIsOK, LoadMoves
<1> QED
  BY <1>4, <1>5

LEMMA CountKeeps ==
    ASSUME SessionsInv, NEW l \in Walks, V!Count(l)
    PROVE  SessionsInv'
<1> DEFINE r == reading[l]
           n == msgs[r]
           d == [out[l] EXCEPT ![r] = n]
<1>1. /\ listing[l] = "walking" /\ r # None
      /\ UNCHANGED <<msgs, torn, removed, began, list, failed, view, events>>
  BY DEF V!Count, V!fileVars, V!pageVars
<1>2. LoadOK(msgs, removed, "walking", todo[l], r, out[l], began[l])
  BY <1>1, LoadIsOK
<1>3. r \in HeldIn(msgs, removed) /\ r \in Dirs /\ out[l] \in V!Files /\ began[l] \in V!Files
  BY <1>1, <1>2 DEF LoadOK
<1>4. CASE r \in V!There
  <2>1. /\ out' = [out EXCEPT ![l] = d] /\ reading' = [reading EXCEPT ![l] = None]
        /\ UNCHANGED <<listing, todo>>
    <3>1. out' = [out EXCEPT ![l][r] = msgs[r]]
      BY <1>4 DEF V!Count
    <3> QED
      BY <3>1, <1>4 DEF V!Count
  <2>2. n \in V!Counts /\ n # None /\ n \in Nat
    BY <1>3, <1>4, SessionsFacts DEF SessionsInv, FilesOK, V!Files, V!There
  <2>3. d \in V!Files /\ d[r] = n /\ \A k \in Dirs \ {r} : d[k] = out[l][k]
    BY <1>3, <2>2 DEF V!Files
  <2> HIDE DEF d
  <2>4. Upto(msgs, removed, d)
    <3> SUFFICES ASSUME NEW k \in Dirs, d[k] # None
                 PROVE  k \in HeldIn(msgs, removed) /\ (msgs[k] # None => d[k] <= msgs[k])
      BY DEF Upto
    <3>1. CASE k = r
      BY <3>1, <1>3, <2>2, <2>3
    <3>2. CASE k # r
      BY <3>2, <1>2, <2>3 DEF LoadOK, Upto
    <3> QED
      BY <3>1, <3>2
  <2>5. WalkOK(msgs, "walking", todo[l], None, d, began[l])
    <3> SUFFICES ASSUME NEW k \in Dirs, Len(k) <= 2, began[l][k] # None, msgs[k] # None
                 PROVE  PendingIn(todo[l], None, k) \/ (d[k] # None /\ began[l][k] <= d[k])
      BY DEF WalkOK
    <3>1. PendingIn(todo[l], r, k) \/ (out[l][k] # None /\ began[l][k] <= out[l][k])
      BY <1>2 DEF LoadOK, WalkOK
    <3>2. CASE k = r
      BY <3>2, <1>2, <2>2, <2>3 DEF LoadOK, Upto
    <3>3. CASE k # r
      BY <3>1, <3>3, <2>3 DEF PendingIn
    <3> QED
      BY <3>2, <3>3
  <2>6. LoadOK(msgs, removed, listing[l], todo[l], None, d, began[l])
    BY <1>1, <1>2, <2>3, <2>4, <2>5 DEF LoadOK
  <2>7. /\ Moves(listing, listing', l) /\ Moves(todo, todo', l) /\ Moves(reading, reading', l)
        /\ Moves(out, out', l) /\ Moves(began, began', l)
        /\ listing'[l] = listing[l] /\ todo'[l] = todo[l] /\ reading'[l] = None
        /\ out'[l] = d /\ began'[l] = began[l]
    BY <1>1, <2>1, LoadSets
  <2> QED
    BY <1>1, <2>6, <2>7, LoadIsOK, LoadMoves
<1>5. CASE r \notin V!There
  <2>1. /\ listing' = [listing EXCEPT ![l] = "hung"] /\ todo' = [todo EXCEPT ![l] = {}]
        /\ reading' = [reading EXCEPT ![l] = None] /\ out' = out
    BY <1>5 DEF V!Count, V!Answer
  <2>2. removed # {}
    BY <1>3, <1>5 DEF HeldIn, V!There
  <2>3. LoadOK(msgs, removed, "hung", {}, None, out[l], began[l])
    BY <2>2, AnswerOK
  <2>4. /\ Moves(listing, listing', l) /\ Moves(todo, todo', l) /\ Moves(reading, reading', l)
        /\ Moves(out, out', l) /\ Moves(began, began', l)
        /\ listing'[l] = "hung" /\ todo'[l] = {} /\ reading'[l] = None
        /\ out'[l] = out[l] /\ began'[l] = began[l]
    BY <1>1, <2>1, LoadSets
  <2> QED
    BY <1>1, <2>3, <2>4, LoadIsOK, LoadMoves
<1> QED
  BY <1>4, <1>5

\* The walk is over, and its answer comes.
LEMMA ListedKeeps ==
    ASSUME SessionsInv, NEW l \in Walks, V!Listed(l)
    PROVE  SessionsInv'
<1>1. /\ listing[l] = "walking" /\ reading[l] = None /\ todo[l] = {}
      /\ listing' = [listing EXCEPT ![l] = "listed"] /\ todo' = [todo EXCEPT ![l] = {}]
      /\ reading' = [reading EXCEPT ![l] = None]
      /\ UNCHANGED <<msgs, torn, removed, out, began, list, failed, view, events>>
  BY DEF V!Listed, V!Answer, V!fileVars, V!pageVars
<1>2. LoadOK(msgs, removed, "walking", {}, None, out[l], began[l])
  BY <1>1, LoadIsOK
<1>3. \A k \in Dirs : ~PendingIn({}, None, k)
  BY SessionsFacts DEF PendingIn
<1>4. WalkOK(msgs, "listed", {}, None, out[l], began[l])
  BY <1>2, <1>3 DEF LoadOK, WalkOK
<1>5. LoadOK(msgs, removed, "listed", {}, None, out[l], began[l])
  BY <1>2, <1>4 DEF LoadOK, States
<1>6. /\ Moves(listing, listing', l) /\ Moves(todo, todo', l) /\ Moves(reading, reading', l)
      /\ Moves(out, out', l) /\ Moves(began, began', l)
      /\ listing'[l] = "listed" /\ todo'[l] = {} /\ reading'[l] = None
      /\ out'[l] = out[l] /\ began'[l] = began[l]
  BY <1>1, LoadSets
<1> QED
  BY <1>1, <1>5, <1>6, LoadIsOK, LoadMoves

LEMMA LoadedKeeps ==
    ASSUME SessionsInv, NEW l \in Walks, V!Loaded(l)
    PROVE  SessionsInv'
<1>1. /\ listing' = [listing EXCEPT ![l] = "idle"]
      /\ out' = [out EXCEPT ![l] = V!NoFiles] /\ began' = [began EXCEPT ![l] = V!NoFiles]
      /\ list' = out[l] \/ list' = list
      /\ UNCHANGED <<msgs, torn, removed, todo, reading, view, events>>
  BY DEF V!Loaded, V!fileVars, SessionsInv, PageOK
<1>2. LoadOK(msgs, removed, listing[l], todo[l], reading[l], out[l], began[l])
  BY LoadIsOK
<1>3. LoadOK(msgs, removed, "idle", todo[l], reading[l], V!NoFiles, V!NoFiles)
  <2>1. Upto(msgs, removed, V!NoFiles)
    BY NothingAsked DEF SessionsInv, FilesOK
  <2>2. WalkOK(msgs, "idle", todo[l], reading[l], V!NoFiles, V!NoFiles)
    BY DEF WalkOK
  <2> QED
    BY <1>2, <2>1, <2>2, SessionsFacts DEF LoadOK, States
<1>4. ListOK(msgs, removed, list')
  BY <1>1, <1>2 DEF LoadOK, ListOK, SessionsInv, PageOK
<1>5. failed' \in BOOLEAN
  BY DEF V!Loaded, SessionsInv, PageOK
<1>6. /\ Moves(listing, listing', l) /\ Moves(todo, todo', l) /\ Moves(reading, reading', l)
      /\ Moves(out, out', l) /\ Moves(began, began', l)
      /\ listing'[l] = "idle" /\ todo'[l] = todo[l] /\ reading'[l] = reading[l]
      /\ out'[l] = V!NoFiles /\ began'[l] = V!NoFiles
  BY <1>1, LoadSets
<1> QED
  BY <1>1, <1>3, <1>4, <1>5, <1>6, LoadIsOK, LoadMoves

-----------------------------------------------------------------------------

\* The transcript page.
LEMMA OpenTranscriptKeeps ==
    ASSUME SessionsInv, NEW k \in Dirs, V!Open(k)
    PROVE  SessionsInv'
<1>1. /\ view = V!NoView /\ list # None /\ list[k] # None
      /\ view' = [file |-> k, listed |-> list[k]]
      /\ listing' = [l \in Walks |-> "idle"] /\ todo' = [l \in Walks |-> {}]
      /\ reading' = [l \in Walks |-> None]
      /\ out' = [l \in Walks |-> V!NoFiles] /\ began' = [l \in Walks |-> V!NoFiles]
      /\ UNCHANGED <<msgs, torn, removed, list, failed, events>>
  BY DEF V!Open, V!OnSessionsPage, V!fileVars
<1>2. LoadsOK'
  <2>1. \A l \in Walks : LoadOK(msgs', removed', listing'[l], todo'[l], reading'[l], out'[l], began'[l])
    BY <1>1, NothingAsked DEF SessionsInv, FilesOK
  <2> QED
    BY <1>1, <2>1, SessionsFacts DEF LoadsOK, States
<1>3. Upto(msgs, removed, list) /\ list \in V!Files /\ events = None
  BY <1>1 DEF SessionsInv, PageOK, ListOK
<1>4. /\ k \in HeldIn(msgs, removed) /\ (msgs[k] # None => list[k] <= msgs[k]) /\ list[k] \in V!Counts
      /\ k # None
  BY <1>1, <1>3, SessionsFacts DEF Upto, V!Files
<1>5. view' \in [file: {k}, listed: {list[k]}]
  BY <1>1
<1>6. ViewOK(msgs, removed, view')
  BY <1>4, <1>5 DEF ViewOK
<1>7. view' # V!NoView
  BY <1>4, <1>5, SessionsFacts
<1>8. PageOK'
  BY <1>1, <1>3, <1>6, <1>7 DEF SessionsInv, PageOK, V!TranscriptFollows
<1>9. FilesOK'
  BY <1>1 DEF SessionsInv, FilesOK, V!There
<1> QED
  BY <1>2, <1>8, <1>9 DEF SessionsInv

LEMMA TranscriptKeeps ==
    ASSUME SessionsInv, V!ReadTranscript \/ V!Back
    PROVE  SessionsInv'
<1>0. /\ UNCHANGED <<msgs, torn, removed, listing, todo, reading, out, began>>
      /\ FilesOK' /\ LoadsOK'
  BY DEF V!ReadTranscript, V!Back, V!fileVars, V!walkVars, SessionsInv, FilesOK, LoadsOK, V!There
<1>1. CASE V!ReadTranscript
  <2>1. /\ view.file \in V!There /\ UNCHANGED <<list, failed, view>>
        /\ \/ events' = msgs[view.file]
           \/ view.file \in torn /\ events' = msgs[view.file] + 1
    BY <1>1 DEF V!ReadTranscript
  <2>2. /\ msgs[view.file] \in V!Counts /\ msgs[view.file] \in Nat /\ msgs[view.file] <= MaxMsgs
        /\ view.file # None /\ view.listed \in Nat /\ view.listed <= msgs[view.file]
    BY <2>1, SessionsFacts DEF SessionsInv, FilesOK, PageOK, ViewOK, V!Files, V!There
  <2>3. events' \in 0..MaxMsgs + 1 /\ events' >= view.listed
    BY <2>1, <2>2, SessionsFacts
  <2>4. view # V!NoView
    BY <2>2, SessionsFacts
  <2> QED
    BY <1>0, <2>1, <2>3, <2>4 DEF SessionsInv, PageOK, V!TranscriptFollows
<1>2. CASE V!Back
  <2>1. view' = V!NoView /\ events' = None /\ list' = None /\ failed' = FALSE
    BY <1>2 DEF V!Back
  <2>2. ViewOK(msgs, removed, V!NoView)
    BY SessionsFacts DEF ViewOK
  <2> QED
    BY <1>0, <2>1, <2>2 DEF SessionsInv, PageOK, ListOK, V!TranscriptFollows
<1> QED
  BY <1>1, <1>2

LEMMA SessionsStay ==
    ASSUME SessionsInv, [V!Next]_(V!vars)
    PROVE  SessionsInv'
<1>1. CASE UNCHANGED V!vars
  BY <1>1
  DEF V!vars, V!fileVars, V!walkVars, V!pageVars, SessionsInv, FilesOK, LoadsOK, PageOK,
      V!There,
     V!TranscriptFollows
<1> QED
  BY <1>1, FilesStep, AskListKeeps, CollectKeeps, LstatKeeps, StatKeeps, CountKeeps, ListedKeeps,
     LoadedKeeps, OpenTranscriptKeeps, TranscriptKeeps DEF V!Next

LEMMA SessionsHold ==
    ASSUME SessionsInv
    PROVE  V!TypeOK /\ V!ListsSessions /\ V!TranscriptFollows
<1>1. /\ FilesOK /\ LoadsOK /\ PageOK
      /\ \A l \in Walks : LoadOK(msgs, removed, listing[l], todo[l], reading[l], out[l], began[l])
  BY DEF SessionsInv, LoadsOK
<1>2. V!TypeOK
  <2>1. \A l \in Walks : \A i \in todo[l] :
           i.kind \in {"call", "dir", "file", "found"} /\ i.path \in V!Prefixes /\ i.chat \in BOOLEAN
    BY <1>1 DEF LoadOK, WalkItems
  <2> QED
    BY <1>1, <2>1 DEF V!TypeOK, FilesOK, LoadsOK, States, PageOK, ListOK, ViewOK
<1>3. ASSUME NEW l \in Walks, NEW k \in Dirs, Len(k) <= 2 PROVE V!Counted(l, k)
  <2> SUFFICES ASSUME listing[l] = "listed", began[l][k] # None, k \in V!There
               PROVE  out[l][k] # None /\ out[l][k] \in began[l][k]..msgs[k]
    BY DEF V!Counted
  <2>1. /\ out[l][k] # None /\ began[l][k] <= out[l][k] /\ out[l][k] <= msgs[k]
        /\ out[l] \in V!Files /\ began[l] \in V!Files /\ msgs[k] # None /\ msgs \in V!Files
    BY <1>1, <1>3 DEF LoadOK, WalkOK, Upto, FilesOK, V!There
  <2>2. out[l][k] \in Nat /\ began[l][k] \in Nat /\ msgs[k] \in Nat
    BY <2>1, SessionsFacts DEF V!Files
  <2> QED
    BY <2>1, <2>2
<1>4. (\E l \in Walks : listing[l] \in {"failed", "hung"}) => removed # {}
  BY <1>1 DEF LoadOK
<1> QED
  BY <1>1, <1>2, <1>3, <1>4 DEF PageOK, V!ListsSessions

\* PagesKept: the text that a user types in a form is lost by nothing but what the code is known to
\* do, and the form stays usable, whatever lists, changes and saves of others come in between; a
\* walk over the transcripts lists what was there throughout, and an open one shows no less.
THEOREM PagesAreKept == AllSpec => []PagesKept
<1> DEFINE Inv == (part = "pages" => PagesInv) /\ (part = "view" => SessionsInv)
<1>1. AllInit => Inv
  BY PagesInit, SessionsInit DEF AllInit
<1>2. Inv /\ [AllNext]_allVars => Inv'
  BY PartSteps, PagesStay, SessionsStay
<1>3. ASSUME PagesInv PROVE G!TypeOK /\ G!TextKept /\ G!BusyBacked
  <2>1. saving.text # 0 => saving # G!NoSave
    BY NoSaveIs
  <2> QED
    BY <1>3, <2>1 DEF PagesInv, FormInv, G!TextKept, G!BusyBacked
<1>4. Inv => PagesKept
  BY <1>3, SessionsHold DEF PagesKept
<1> HIDE DEF Inv
<1> QED
  BY <1>1, <1>2, <1>4, PTL DEF AllSpec

-----------------------------------------------------------------------------
(* Delivery *)

\* The chunks so far hold all that is not blank up to where the rest begins.
ChunksInv ==
    /\ \A i \in DOMAIN chunks :
          /\ chunks[i].from <= chunks[i].to /\ chunks[i].to <= rest
          /\ chunks[i].to < chunks[i].from + MaxSize + (IF text[chunks[i].to] = "." THEN 1 ELSE 0)
    /\ \A i \in 1..Len(chunks) - 1 : chunks[i].to < chunks[i + 1].from
    /\ \A p \in S!Solid : p <= rest => \E i \in DOMAIN chunks : p \in chunks[i].from..chunks[i].to

\* Nothing is sent while the text is split; then the chat shows the chunks before the next one,
\* and that one already if a send of it failed after it had arrived.
ChatInv ==
    /\ rest < Len(text) => at = 1 /\ tries = 0 /\ ended = "no" /\ chat = <<>> /\ unsure = {}
    /\ chat = <<>> => at = 1
    /\ chat # <<>> =>
          /\ chat[1] = 1
          /\ chat[Len(chat)] = at - 1 \/ (chat[Len(chat)] = at /\ at \in unsure)
    /\ \A i \in 1..Len(chat) - 1 :
          chat[i + 1] = chat[i] + 1 \/ (chat[i + 1] = chat[i] /\ chat[i] \in unsure)
    /\ \A k \in 1..at - 1 : \E i \in DOMAIN chat : chat[i] = k
    /\ ended = "resolved" => rest = Len(text) /\ at = Len(chunks) + 1

SendInv == S!TypeOK /\ ChunksInv /\ ChatInv

\* A nonempty set of natural numbers has a least element, and one that is bounded a greatest;
\* they are what Min and Max choose.
LEMMA LeastOf ==
    ASSUME NEW T, T \subseteq Nat, T # {}
    PROVE  S!Min(T) \in T /\ \A y \in T : S!Min(T) <= y
<1>1. PICK x \in T : \A y \in T : <<y, x>> \notin OpToRel(<, Nat)
  <2>1. IsWellFoundedOn(OpToRel(<, Nat), Nat)
    BY NatLessThanWellFounded
  <2> QED
    BY <2>1, WFMin, Zenon
<1>2. \A y \in T : ~(y < x)
  BY <1>1 DEF OpToRel
<1>3. \A y \in T : x <= y
  BY <1>2
<1> QED
  BY <1>3 DEF S!Min

LEMMA GreatestOf ==
    ASSUME NEW n \in Nat, NEW T, T \subseteq 0..n, T # {}
    PROVE  S!Max(T) \in T /\ \A y \in T : y <= S!Max(T)
<1> DEFINE U == {n - y : y \in T}
<1>1. PICK y \in T : TRUE
  OBVIOUS
<1>2. n - y \in U
  OBVIOUS
<1>3. U \subseteq Nat
  OBVIOUS
<1>4. S!Min(U) \in U /\ \A z \in U : S!Min(U) <= z
  <2> HIDE DEF U
  <2> QED
    BY <1>2, <1>3, LeastOf
<1>5. PICK x \in T : S!Min(U) = n - x
  BY <1>4
<1>6. \A z \in T : n - x <= n - z
  BY <1>4, <1>5
<1>7. \A z \in T : z <= x
  BY <1>6
<1> QED
  BY <1>7 DEF S!Max

\* lastIndexOf finds no more than what stands within the limit.
LEMMA BeforeFits ==
    ASSUME NEW s, NEW p
    PROVE  /\ S!Before(s, p) \in 0..MaxSize
           /\ S!Before(s, p) > 0 =>
                 /\ S!Before(s, p) + Len(p) <= Len(s)
                 /\ SubSeq(s, S!Before(s, p) + 1, S!Before(s, p) + Len(p)) = p
<1> DEFINE T == {0} \cup {k \in 1..MaxSize : k + Len(p) <= Len(s) /\ SubSeq(s, k + 1, k + Len(p)) = p}
<1>1. MaxSize \in Nat
  BY PartsAssumption DEF S!DeliveryAssumption
<1>2. T \subseteq 0..MaxSize /\ T # {}
  BY <1>1
<1>3. S!Max(T) \in T
  <2> HIDE DEF T
  <2> QED
    BY <1>1, <1>2, GreatestOf
<1>4. S!Before(s, p) \in T
  BY <1>3 DEF S!Before
<1>5. ASSUME NEW k \in T
      PROVE  /\ k \in 0..MaxSize
             /\ k > 0 => k + Len(p) <= Len(s) /\ SubSeq(s, k + 1, k + Len(p)) = p
  <2>1. CASE k = 0
    BY <1>1, <2>1
  <2>2. CASE k # 0
    <3>1. k \in {l \in 1..MaxSize : l + Len(p) <= Len(s) /\ SubSeq(s, l + 1, l + Len(p)) = p}
      BY <1>5, <2>2
    <3>2. k \in 0..MaxSize
      BY <3>1, <1>1
    <3> QED
      BY <3>1, <3>2, Zenon
  <2> QED
    BY <2>1, <2>2
<1> HIDE DEF T
<1> QED
  BY <1>4, <1>5, Zenon

\* A cut leaves something before it, and lies within the limit or right after a full stop.
LEMMA SplitFits ==
    ASSUME NEW s \in Seq(S!Characters), Len(s) > MaxSize
    PROVE  /\ S!SplitAt(s) \in 1..MaxSize + 1 /\ S!SplitAt(s) <= Len(s)
           /\ S!SplitAt(s) = MaxSize + 1 => s[MaxSize + 1] = "."
<1>1. MaxSize \in Nat /\ MaxSize > 0 /\ Len(s) \in Nat
  BY PartsAssumption DEF S!DeliveryAssumption
<1> DEFINE x == S!Before(s, <<"n", "n">>)
           y == S!Before(s, <<"n">>)
<1>2. x \in 0..MaxSize /\ y \in 0..MaxSize
  BY BeforeFits
<1> DEFINE b == S!Before(s, <<".", " ">>)
<1>3. b \in 0..MaxSize /\ (b > 0 => b + 2 <= Len(s) /\ s[b + 1] = ".")
  <2>1. b \in 0..MaxSize
    BY BeforeFits
  <2>2. ASSUME b > 0 PROVE b + 2 <= Len(s) /\ s[b + 1] = "."
    <3>1. b + Len(<<".", " ">>) <= Len(s) /\ SubSeq(s, b + 1, b + Len(<<".", " ">>)) = <<".", " ">>
      BY <2>2, BeforeFits
    <3>2. b + 2 <= Len(s) /\ SubSeq(s, b + 1, b + 2) = <<".", " ">>
      BY <3>1
    <3> HIDE DEF b
    <3>3. SubSeq(s, b + 1, b + 2)[1] = s[b + 1]
      <4>1. /\ b + 1 \in Int /\ b + 2 \in Int /\ 1 \in 1..(b + 2) - (b + 1) + 1
            /\ (b + 1) + 1 - 1 = b + 1
        BY <2>1, <1>1
      <4>2. \A i \in b + 1..b + 2 : s[i] \in S!Characters
        <5>1. b + 2 <= Len(s)
          BY <3>2
        <5>2. b + 1..b + 2 \subseteq 1..Len(s)
          BY <2>1, <1>1, <5>1
        <5>3. \A i \in 1..Len(s) : s[i] \in S!Characters
          OBVIOUS
        <5> QED
          BY <5>2, <5>3, Zenon
      <4> QED
        BY <4>1, <4>2, SubSeqProperties
    <3>4. <<".", " ">>[1] = "."
      OBVIOUS
    <3> QED
      BY <3>2, <3>3, <3>4
  <2> QED
    BY <2>1, <2>2
<1>4. S!SplitAt(s) = CASE x > 0 -> x
                       [] x = 0 /\ y > 0 -> y
                       [] x = 0 /\ y = 0 /\ b > 0 -> b + 1
                       [] OTHER -> MaxSize
  BY DEF S!SplitAt
<1>5. (x > 0 => S!SplitAt(s) = x) /\ (x = 0 /\ y > 0 => S!SplitAt(s) = y)
  <2> HIDE DEF x, y, b
  <2> QED
    BY <1>4, <1>2
<1>6. x = 0 /\ y = 0 => S!SplitAt(s) = (IF b > 0 THEN b + 1 ELSE MaxSize)
  <2> HIDE DEF x, y, b
  <2> QED
    BY <1>4
<1> HIDE DEF x, y, b
<1> QED
  BY <1>1, <1>2, <1>3, <1>5, <1>6

\* Trimming leaves out what is blank.
LEMMA TrimsEnd ==
    ASSUME text \in Seq(S!Characters), rest \in 0..Len(text), NEW cut \in rest..Len(text)
    PROVE  /\ S!TrimmedEnd(cut) \in rest..cut
           /\ \A p \in S!Solid : rest < p /\ p <= cut => p <= S!TrimmedEnd(cut)
<1> DEFINE T == {rest} \cup {p \in S!Solid : rest < p /\ p <= cut}
<1>1. S!Solid \subseteq 1..Len(text) /\ Len(text) \in Nat
  BY DEF S!Solid
<1>2. cut \in Nat /\ rest \in 0..cut
  BY <1>1
<1>5. T \subseteq 0..cut /\ T # {}
  <2>1. ASSUME NEW p \in S!Solid, p <= cut PROVE p \in 0..cut
    BY <1>1, <1>2, <2>1
  <2> QED
    BY <1>2, <2>1
<1>3. S!Max(T) \in T /\ \A y \in T : y <= S!Max(T)
  <2> HIDE DEF T
  <2> QED
    BY <1>2, <1>5, GreatestOf
<1>4. S!TrimmedEnd(cut) = S!Max(T)
  BY DEF S!TrimmedEnd
<1>6. S!Max(T) \in rest..cut
  <2>1. S!Max(T) \in 0..cut /\ rest <= S!Max(T)
    BY <1>3, <1>5
  <2> QED
    BY <1>2, <2>1
<1>7. \A p \in S!Solid : rest < p /\ p <= cut => p <= S!Max(T)
  BY <1>3
<1> HIDE DEF T
<1> QED
  BY <1>4, <1>6, <1>7

LEMMA TrimsStart ==
    ASSUME text \in Seq(S!Characters), NEW cut \in 0..Len(text)
    PROVE  /\ S!TrimmedStart(cut) \in cut..Len(text)
           /\ \A p \in S!Solid : cut < p => S!TrimmedStart(cut) < p
<1> DEFINE T == {Len(text)} \cup {p - 1 : p \in {q \in S!Solid : q > cut}}
<1>1. S!Solid \subseteq 1..Len(text) /\ Len(text) \in Nat
  BY DEF S!Solid
<1>2. T \subseteq cut..Len(text) /\ T # {}
  <2>1. ASSUME NEW p \in S!Solid, p > cut PROVE p - 1 \in cut..Len(text)
    BY <1>1, <2>1
  <2> QED
    BY <1>1, <2>1
<1>3. S!Min(T) \in T /\ \A y \in T : S!Min(T) <= y
  <2>1. T \subseteq Nat
    BY <1>1, <1>2
  <2> HIDE DEF T
  <2> QED
    BY <1>2, <2>1, LeastOf
<1>4. S!TrimmedStart(cut) = S!Min(T)
  BY DEF S!TrimmedStart
<1>5. \A p \in S!Solid : cut < p => S!Min(T) <= p - 1
  BY <1>3
<1>6. S!Min(T) \in cut..Len(text)
  BY <1>2, <1>3
<1> HIDE DEF T
<1> QED
  BY <1>1, <1>4, <1>5, <1>6

\* A round of the loop that goes on past what is blank keeps the chunks a split of the text.
LEMMA PushKeeps ==
    ASSUME S!TypeOK, ChunksInv, NEW to \in rest..Len(text), NEW next \in to..Len(text),
           S!Push(to), text' = text, rest' = next,
           to > rest => to < rest + 1 + MaxSize + (IF text[to] = "." THEN 1 ELSE 0),
           \A p \in S!Solid : rest < p /\ p <= next => p <= to
    PROVE  chunks' \in Seq(S!Section) /\ ChunksInv'
<1> DEFINE c == [from |-> rest + 1, to |-> to]
           Fits(d) == d.to < d.from + MaxSize + (IF text[d.to] = "." THEN 1 ELSE 0)
           Ordered(d) == d.from <= d.to /\ d.to <= rest
<1>1. /\ rest \in Nat /\ Len(text) \in Nat /\ MaxSize \in Nat /\ DOMAIN text = 1..Len(text)
      /\ chunks \in Seq(S!Section) /\ Len(chunks) \in Nat /\ DOMAIN chunks = 1..Len(chunks)
  BY PartsAssumption DEF S!TypeOK, S!DeliveryAssumption
<1>2. \A i \in DOMAIN chunks : chunks[i].from \in Nat /\ chunks[i].to \in Nat
  <2>1. \A i \in DOMAIN chunks : chunks[i] \in S!Section
    BY <1>1
  <2> QED
    BY <1>1, <2>1 DEF S!Section
<1>3. \A i \in DOMAIN chunks : Ordered(chunks[i]) /\ Fits(chunks[i])
  BY DEF ChunksInv
<1>4. S!Solid' = S!Solid /\ S!Solid \subseteq 1..Len(text)
  BY <1>1 DEF S!Solid, S!Blank
<1>5. CASE to = rest
  <2>1. chunks' = chunks
    BY <1>5 DEF S!Push
  <2>2. \A i \in DOMAIN chunks : chunks[i].to <= next
    BY <1>1, <1>2, <1>3
  <2>3. \A p \in S!Solid : p <= next => p <= rest
    BY <1>1, <1>4, <1>5
  <2> QED
    BY <1>1, <1>4, <2>1, <2>2, <2>3 DEF ChunksInv
<1>6. CASE to # rest
  <2>1. chunks' = Append(chunks, c)
    BY <1>6 DEF S!Push
  <2>2. c \in S!Section /\ c.from = rest + 1 /\ c.to = to
    BY <1>1, <1>6 DEF S!Section
  <2>3. /\ chunks' \in Seq(S!Section) /\ Len(chunks') = Len(chunks) + 1
        /\ \A i \in 1..Len(chunks) : chunks'[i] = chunks[i]
        /\ chunks'[Len(chunks) + 1] = c
    <3> HIDE DEF c
    <3> QED
      BY <1>1, <2>1, <2>2, AppendProperties
  <2>4. DOMAIN chunks' = 1..Len(chunks) + 1
    BY <1>1, <2>3
  <2>5. Fits(c) /\ c.from <= c.to /\ c.to <= next
    BY <1>1, <1>6, <2>2
  <2> HIDE DEF c
  <2>6. ASSUME NEW i \in DOMAIN chunks'
        PROVE  chunks'[i].from <= chunks'[i].to /\ chunks'[i].to <= next /\ Fits(chunks'[i])
    <3>1. CASE i \in 1..Len(chunks)
      <4>1. chunks[i].to <= next
        BY <1>1, <1>2, <1>3, <3>1
      <4> QED
        BY <1>1, <1>3, <2>3, <3>1, <4>1
    <3>2. CASE i = Len(chunks) + 1
      BY <2>3, <2>5, <3>2
    <3> QED
      BY <1>1, <2>4, <2>6, <3>1, <3>2
  <2>7. ASSUME NEW i \in 1..Len(chunks') - 1 PROVE chunks'[i].to < chunks'[i + 1].from
    <3>1. i \in 1..Len(chunks)
      BY <1>1, <2>3
    <3>2. CASE i = Len(chunks)
      BY <1>1, <1>2, <1>3, <2>2, <2>3, <3>1, <3>2
    <3>3. CASE i # Len(chunks)
      <4>1. i \in 1..Len(chunks) - 1 /\ i + 1 \in 1..Len(chunks)
        <5>1. Len(chunks) \in Nat
          BY <1>1
        <5> QED
          BY <3>1, <3>3, <5>1
      <4>2. chunks[i].to < chunks[i + 1].from
        BY <4>1 DEF ChunksInv
      <4> QED
        BY <2>3, <3>1, <4>1, <4>2
    <3> QED
      BY <3>2, <3>3
  <2>8. ASSUME NEW p \in S!Solid, p <= next
        PROVE  \E i \in DOMAIN chunks' : p \in chunks'[i].from..chunks'[i].to
    <3>1. CASE p <= rest
      <4>1. PICK i \in DOMAIN chunks : p \in chunks[i].from..chunks[i].to
        BY <3>1 DEF ChunksInv
      <4> QED
        BY <1>1, <2>3, <2>4, <4>1
    <3>2. CASE ~(p <= rest)
      <4>1. p \in rest + 1..to
        BY <1>1, <1>4, <2>8, <3>2
      <4> QED
        BY <1>1, <2>2, <2>3, <2>4, <4>1
    <3> QED
      BY <3>1, <3>2
  <2> QED
    BY <1>4, <2>3, <2>6, <2>7, <2>8 DEF ChunksInv
<1> QED
  BY <1>5, <1>6

LEMMA SplitKeeps == SendInv /\ S!Split => SendInv'
<1> SUFFICES ASSUME SendInv, S!Split PROVE SendInv'
  OBVIOUS
<1> DEFINE r == S!Remaining
<1>1. /\ text \in Seq(S!Characters) /\ Len(text) \in Nat /\ rest \in Nat /\ rest < Len(text)
      /\ MaxSize \in Nat /\ MaxSize > 0 /\ S!TypeOK /\ ChunksInv /\ ChatInv
      /\ UNCHANGED <<text, at, tries, ended, chat, unsure>>
  BY PartsAssumption DEF SendInv, S!TypeOK, S!DeliveryAssumption, S!Split
<1>2. /\ r \in Seq(S!Characters) /\ Len(r) = Len(text) - rest
      /\ \A i \in 1..Len(text) - rest : r[i] = text[rest + i]
  <2>1. \A i \in rest + 1..Len(text) : text[i] \in S!Characters
    BY <1>1
  <2>2. /\ r \in Seq(S!Characters)
        /\ Len(r) = IF rest + 1 <= Len(text) THEN Len(text) - (rest + 1) + 1 ELSE 0
        /\ \A i \in 1..Len(text) - (rest + 1) + 1 : r[i] = text[(rest + 1) + i - 1]
    BY <1>1, <2>1, SubSeqProperties DEF S!Remaining
  <2> HIDE DEF r
  <2>3. /\ rest + 1 <= Len(text) /\ Len(text) - (rest + 1) + 1 = Len(text) - rest
        /\ \A i \in 1..Len(text) - rest : (rest + 1) + i - 1 = rest + i
    BY <1>1
  <2> QED
    BY <2>2, <2>3
<1>3. chunks' \in Seq(S!Section) /\ ChunksInv' /\ rest' \in 0..Len(text)
  <2>1. CASE Len(r) <= MaxSize
    <3>1. S!Push(Len(text)) /\ rest' = Len(text)
      BY <2>1 DEF S!Split
    <3>2. Len(text) < rest + 1 + MaxSize + (IF text[Len(text)] = "." THEN 1 ELSE 0)
      BY <1>1, <1>2, <2>1
    <3> QED
      BY <1>1, <3>1, <3>2, PushKeeps
  <2>2. CASE ~(Len(r) <= MaxSize)
    <3> DEFINE k == S!SplitAt(r)
               cut == rest + k
               to == S!TrimmedEnd(cut)
               next == S!TrimmedStart(cut)
    <3>1. S!Push(to) /\ rest' = next
      BY <2>2 DEF S!Split
    <3>2. k \in 1..MaxSize + 1 /\ k <= Len(r) /\ (k = MaxSize + 1 => r[MaxSize + 1] = ".")
      <4> HIDE DEF r
      <4> QED
        BY <1>1, <1>2, <2>2, SplitFits
    <3> HIDE DEF k, r
    <3>3. cut \in rest..Len(text) /\ cut \in 0..Len(text) /\ rest \in 0..Len(text)
      BY <1>1, <1>2, <3>2
    <3>4. k = MaxSize + 1 => text[cut] = "."
      BY <1>1, <1>2, <3>2
    <3>5. cut < rest + 1 + MaxSize \/ (cut = rest + 1 + MaxSize /\ text[cut] = ".")
      BY <1>1, <3>2, <3>4
    <3> HIDE DEF cut
    <3>6. to \in rest..cut /\ \A p \in S!Solid : rest < p /\ p <= cut => p <= to
      BY <1>1, <3>3, TrimsEnd
    <3>7. next \in cut..Len(text) /\ \A p \in S!Solid : cut < p => next < p
      BY <1>1, <3>3, TrimsStart
    <3> HIDE DEF to, next
    <3>8. to \in rest..Len(text) /\ next \in to..Len(text) /\ next \in 0..Len(text)
      BY <1>1, <3>3, <3>6, <3>7
    <3>9. to < rest + 1 + MaxSize + (IF text[to] = "." THEN 1 ELSE 0)
      BY <1>1, <3>3, <3>5, <3>6
    <3>10. \A p \in S!Solid : rest < p /\ p <= next => p <= to
      <4>1. S!Solid \subseteq Nat
        BY <1>1 DEF S!Solid
      <4> QED
        BY <1>1, <3>3, <3>6, <3>7, <3>8, <4>1
    <3> QED
      BY <1>1, <3>1, <3>8, <3>9, <3>10, PushKeeps
  <2> QED
    BY <2>1, <2>2
<1>4. /\ at = 1 /\ tries = 0 /\ ended = "no" /\ chat = <<>> /\ unsure = {}
      /\ text' = text /\ at' = at /\ tries' = tries /\ ended' = ended /\ chat' = chat /\ unsure' = unsure
  BY <1>1 DEF ChatInv
<1>5. S!TypeOK'
  <2>1. S!Section' = S!Section
    BY <1>4 DEF S!Section
  <2>2. Len(chunks') \in Nat
    BY <1>3
  <2>3. text' \in SentTexts /\ rest' \in 0..Len(text')
    BY <1>1, <1>3, <1>4 DEF S!TypeOK
  <2>4. at' \in 1..Len(chunks') + 1 /\ tries' \in 0..MaxRetries /\ ended' \in {"no", "resolved", "rejected"}
    BY <1>1, <1>4, <2>2 DEF S!TypeOK
  <2>5. chat' \in Seq(1..Len(chunks')) /\ unsure' \subseteq {chat'[i] : i \in DOMAIN chat'}
    BY <1>4
  <2> QED
    BY <1>3, <2>1, <2>3, <2>4, <2>5 DEF S!TypeOK
<1>6. ChatInv'
  <2>1. Len(chat') = 0
    BY <1>4
  <2> QED
    BY <1>4, <2>1 DEF ChatInv
<1> QED
  BY <1>3, <1>5, <1>6 DEF SendInv

LEMMA ChunksStay ==
    ASSUME ChunksInv, UNCHANGED <<text, rest, chunks>>
    PROVE  ChunksInv' /\ S!Section' = S!Section
BY DEF ChunksInv, S!Solid, S!Blank, S!Section

\* The chat shows one more chunk: the next one, or that one again.
LEMMA Shows ==
    ASSUME S!TypeOK, ChatInv, S!More, UNCHANGED chunks, chat' = Append(chat, at),
           unsure \subseteq unsure'
    PROVE  /\ chat' \in Seq(1..Len(chunks)) /\ DOMAIN chat' = 1..Len(chat) + 1
           /\ Len(chat') = Len(chat) + 1 /\ Len(chat) \in Nat
           /\ chat' # <<>> /\ chat'[1] = 1 /\ chat'[Len(chat')] = at
           /\ \A i \in 1..Len(chat) : chat'[i] = chat[i]
           /\ \A i \in 1..Len(chat') - 1 :
                 \/ chat'[i + 1] = chat'[i] + 1
                 \/ chat'[i + 1] = chat'[i] /\ chat'[i] \in unsure'
           /\ \A k \in 1..at : \E i \in DOMAIN chat' : chat'[i] = k
<1>1. at \in 1..Len(chunks) /\ Len(chunks) \in Nat /\ chat \in Seq(1..Len(chunks))
  BY DEF S!TypeOK, S!More
<1>2. /\ chat' \in Seq(1..Len(chunks)) /\ Len(chat') = Len(chat) + 1 /\ chat' # <<>>
      /\ chat'[Len(chat) + 1] = at /\ \A i \in 1..Len(chat) : chat'[i] = chat[i]
  BY <1>1, AppendProperties
<1>3. Len(chat) \in Nat /\ DOMAIN chat' = 1..Len(chat) + 1 /\ DOMAIN chat = 1..Len(chat)
  BY <1>1, <1>2
<1>4. chat'[1] = 1
  <2>1. CASE chat = <<>>
    <3>1. at = 1 /\ Len(chat) = 0
      BY <2>1 DEF ChatInv
    <3> QED
      BY <1>2, <3>1
  <2>2. CASE chat # <<>>
    <3>1. 1 \in 1..Len(chat) /\ chat[1] = 1
      BY <1>1, <1>3, <2>2 DEF ChatInv
    <3> QED
      BY <1>2, <3>1
  <2> QED
    BY <2>1, <2>2
<1>5. ASSUME NEW i \in 1..Len(chat') - 1
      PROVE  \/ chat'[i + 1] = chat'[i] + 1
             \/ chat'[i + 1] = chat'[i] /\ chat'[i] \in unsure'
  <2>1. i \in 1..Len(chat)
    BY <1>2, <1>3
  <2>2. CASE i = Len(chat)
    <3>1. chat # <<>>
      BY <2>1, <2>2
    <3>2. chat[i] = at - 1 \/ (chat[i] = at /\ at \in unsure)
      BY <2>2, <3>1 DEF ChatInv
    <3>3. chat'[i + 1] = at /\ chat'[i] = chat[i]
      BY <1>2, <2>1, <2>2
    <3> QED
      BY <1>1, <3>2, <3>3
  <2>3. CASE i # Len(chat)
    <3>1. i \in 1..Len(chat) - 1 /\ i + 1 \in 1..Len(chat)
      <4>1. Len(chat) \in Nat
        BY <1>3
      <4> QED
        BY <2>1, <2>3, <4>1
    <3>2. chat[i + 1] = chat[i] + 1 \/ (chat[i + 1] = chat[i] /\ chat[i] \in unsure)
      BY <3>1 DEF ChatInv
    <3> QED
      BY <1>2, <2>1, <3>1, <3>2
  <2> QED
    BY <2>2, <2>3
<1>6. ASSUME NEW k \in 1..at PROVE \E i \in DOMAIN chat' : chat'[i] = k
  <2>1. CASE k = at
    BY <1>2, <1>3, <2>1
  <2>2. CASE k # at
    <3>1. k \in 1..at - 1
      BY <1>1, <2>2
    <3>2. PICK i \in DOMAIN chat : chat[i] = k
      BY <3>1 DEF ChatInv
    <3> QED
      BY <1>2, <1>3, <3>2
  <2> QED
    BY <2>1, <2>2
<1> QED
  BY <1>2, <1>3, <1>4, <1>5, <1>6

LEMMA SentKeeps == SendInv /\ S!Sent => SendInv'
<1> SUFFICES ASSUME SendInv, S!Sent PROVE SendInv'
  OBVIOUS
<1>1. /\ S!TypeOK /\ ChunksInv /\ ChatInv /\ S!More
      /\ chat' = Append(chat, at) /\ at' = at + 1 /\ tries' = 0
      /\ text' = text /\ rest' = rest /\ chunks' = chunks /\ ended' = ended /\ unsure' = unsure
  BY DEF SendInv, S!Sent
<1>2. /\ at \in 1..Len(chunks) /\ Len(chunks) \in Nat /\ chat \in Seq(1..Len(chunks))
      /\ rest = Len(text) /\ ended = "no" /\ Len(text) \in Nat /\ MaxRetries \in Nat
  BY <1>1, PartsAssumption DEF S!TypeOK, S!More, S!DeliveryAssumption
<1>3. /\ chat' \in Seq(1..Len(chunks)) /\ DOMAIN chat' = 1..Len(chat) + 1
      /\ Len(chat') = Len(chat) + 1 /\ Len(chat) \in Nat
      /\ chat' # <<>> /\ chat'[1] = 1 /\ chat'[Len(chat')] = at
      /\ \A i \in 1..Len(chat) : chat'[i] = chat[i]
      /\ \A i \in 1..Len(chat') - 1 :
            \/ chat'[i + 1] = chat'[i] + 1
            \/ chat'[i + 1] = chat'[i] /\ chat'[i] \in unsure'
      /\ \A k \in 1..at : \E i \in DOMAIN chat' : chat'[i] = k
  BY <1>1, Shows
<1>4. ChunksInv' /\ S!Section' = S!Section
  BY <1>1, ChunksStay
<1>5. S!TypeOK'
  <2>1. unsure' \subseteq {chat'[i] : i \in DOMAIN chat'}
    <3>1. DOMAIN chat = 1..Len(chat) /\ unsure \subseteq {chat[i] : i \in DOMAIN chat}
      BY <1>1, <1>2 DEF S!TypeOK
    <3> QED
      BY <1>1, <1>3, <3>1
  <2>2. at' \in 1..Len(chunks') + 1 /\ tries' \in 0..MaxRetries
    BY <1>1, <1>2
  <2> QED
    BY <1>1, <1>3, <1>4, <2>1, <2>2 DEF S!TypeOK
<1>6. ChatInv'
  <2>1. at' - 1 = at /\ ended' # "resolved" /\ rest' = Len(text')
    BY <1>1, <1>2
  <2> QED
    BY <1>2, <1>3, <2>1 DEF ChatInv
<1> QED
  BY <1>4, <1>5, <1>6 DEF SendInv

LEMMA FailsKeeps == SendInv /\ S!SendFails => SendInv'
<1> SUFFICES ASSUME SendInv, S!SendFails PROVE SendInv'
  OBVIOUS
<1>1. /\ S!TypeOK /\ ChunksInv /\ ChatInv /\ S!More /\ S!MayHaveArrived
      /\ text' = text /\ rest' = rest /\ chunks' = chunks /\ at' = at
  BY DEF SendInv, S!SendFails
<1>2. /\ at \in 1..Len(chunks) /\ Len(chunks) \in Nat /\ chat \in Seq(1..Len(chunks))
      /\ rest = Len(text) /\ ended = "no" /\ Len(text) \in Nat /\ MaxRetries \in Nat
  BY <1>1, PartsAssumption DEF S!TypeOK, S!More, S!DeliveryAssumption
<1>3. tries' \in 0..MaxRetries /\ ended' \in {"no", "rejected"}
  BY <1>1, <1>2 DEF S!SendFails, S!TypeOK
<1>4. ChunksInv' /\ S!Section' = S!Section
  BY <1>1, ChunksStay
<1>5. CASE UNCHANGED <<chat, unsure>>
  <2>1. chat' = chat /\ unsure' = unsure
    BY <1>5
  <2>2. S!TypeOK'
    BY <1>1, <1>3, <1>4, <2>1 DEF S!TypeOK
  <2>3. ChatInv'
    <3>1. rest' = Len(text') /\ ended' # "resolved"
      BY <1>1, <1>2, <1>3
    <3> QED
      BY <1>1, <1>2, <2>1, <3>1 DEF ChatInv
  <2> QED
    BY <1>4, <2>2, <2>3 DEF SendInv
<1>6. CASE chat' = Append(chat, at) /\ unsure' = unsure \cup {at}
  <2>1. /\ chat' \in Seq(1..Len(chunks)) /\ DOMAIN chat' = 1..Len(chat) + 1
        /\ Len(chat') = Len(chat) + 1 /\ Len(chat) \in Nat
        /\ chat' # <<>> /\ chat'[1] = 1 /\ chat'[Len(chat')] = at
        /\ \A i \in 1..Len(chat) : chat'[i] = chat[i]
        /\ \A i \in 1..Len(chat') - 1 :
              \/ chat'[i + 1] = chat'[i] + 1
              \/ chat'[i + 1] = chat'[i] /\ chat'[i] \in unsure'
        /\ \A k \in 1..at : \E i \in DOMAIN chat' : chat'[i] = k
    BY <1>1, <1>6, Shows
  <2>2. unsure' \subseteq {chat'[i] : i \in DOMAIN chat'}
    <3>1. DOMAIN chat = 1..Len(chat) /\ unsure \subseteq {chat[i] : i \in DOMAIN chat}
      BY <1>1, <1>2 DEF S!TypeOK
    <3>2. at \in {chat'[i] : i \in DOMAIN chat'}
      BY <2>1
    <3>3. unsure \subseteq {chat'[i] : i \in DOMAIN chat'}
      BY <2>1, <3>1
    <3> QED
      BY <1>6, <3>2, <3>3
  <2>3. S!TypeOK'
    BY <1>1, <1>3, <1>4, <2>1, <2>2 DEF S!TypeOK
  <2>4. ChatInv'
    <3>1. rest' = Len(text') /\ ended' # "resolved" /\ at' \in unsure' /\ at' = at
      BY <1>1, <1>2, <1>3, <1>6
    <3>2. \A k \in 1..at' - 1 : \E i \in DOMAIN chat' : chat'[i] = k
      BY <1>2, <2>1, <3>1
    <3> QED
      BY <1>2, <2>1, <3>1, <3>2 DEF ChatInv
  <2> QED
    BY <1>4, <2>3, <2>4 DEF SendInv
<1> QED
  BY <1>1, <1>5, <1>6 DEF S!MayHaveArrived

LEMMA ReturnsKeeps == SendInv /\ S!Returns => SendInv'
<1> SUFFICES ASSUME SendInv, S!Returns PROVE SendInv'
  OBVIOUS
<1>1. /\ S!TypeOK /\ ChunksInv /\ ChatInv /\ rest = Len(text) /\ at > Len(chunks)
      /\ ended' = "resolved" /\ text' = text /\ rest' = rest /\ chunks' = chunks
      /\ at' = at /\ tries' = tries /\ chat' = chat /\ unsure' = unsure
  BY DEF SendInv, S!Returns
<1>2. ChunksInv' /\ S!Section' = S!Section
  BY <1>1, ChunksStay
<1>3. S!TypeOK'
  BY <1>1, <1>2 DEF S!TypeOK
<1>4. ChatInv'
  <2>1. at = Len(chunks) + 1 /\ Len(text) \in Nat
    BY <1>1, PartsAssumption DEF S!TypeOK, S!DeliveryAssumption
  <2> QED
    BY <1>1, <2>1 DEF ChatInv
<1> QED
  BY <1>2, <1>3, <1>4 DEF SendInv

LEMMA SendInit == S!Init => SendInv
<1> SUFFICES ASSUME S!Init PROVE SendInv
  OBVIOUS
<1>1. /\ text \in SentTexts /\ rest = 0 /\ chunks = <<>> /\ at = 1 /\ tries = 0 /\ ended = "no"
      /\ chat = <<>> /\ unsure = {}
  BY DEF S!Init
<1>2. text \in Seq(S!Characters) /\ Len(text) \in Nat /\ MaxRetries \in Nat
  BY <1>1, PartsAssumption DEF S!DeliveryAssumption
<1>3. Len(chunks) = 0 /\ DOMAIN chunks = {} /\ Len(chat) = 0 /\ DOMAIN chat = {}
  BY <1>1
<1>4. S!Solid \subseteq 1..Len(text)
  BY <1>2 DEF S!Solid
<1>5. S!TypeOK
  BY <1>1, <1>2, <1>3 DEF S!TypeOK
<1>6. ChunksInv
  BY <1>1, <1>2, <1>3, <1>4 DEF ChunksInv
<1>7. ChatInv
  BY <1>1, <1>2, <1>3 DEF ChatInv
<1> QED
  BY <1>5, <1>6, <1>7 DEF SendInv

LEMMA SendStays == SendInv /\ [S!Next]_(S!vars) => SendInv'
<1> SUFFICES ASSUME SendInv, [S!Next]_(S!vars) PROVE SendInv'
  OBVIOUS
<1>1. CASE S!Next
  BY <1>1, SplitKeeps, SentKeeps, FailsKeeps, ReturnsKeeps DEF S!Next
<1>2. CASE UNCHANGED S!vars
  <2>1. /\ text' = text /\ rest' = rest /\ chunks' = chunks /\ at' = at /\ tries' = tries
        /\ ended' = ended /\ chat' = chat /\ unsure' = unsure
    BY <1>2 DEF S!vars
  <2>2. ChunksInv' /\ S!Section' = S!Section
    BY <2>1, ChunksStay DEF SendInv
  <2>3. S!TypeOK' /\ ChatInv'
    BY <2>1, <2>2 DEF SendInv, S!TypeOK, ChatInv
  <2> QED
    BY <2>2, <2>3 DEF SendInv
<1> QED
  BY <1>1, <1>2

LEMMA SendInvDelivers == SendInv => S!TypeOK /\ S!DeliversText
<1> SUFFICES ASSUME SendInv PROVE S!DeliversText
  BY DEF SendInv
<1>1. S!TypeOK /\ ChunksInv /\ ChatInv
  BY DEF SendInv
<1>2. S!Solid \subseteq 1..Len(text) /\ Len(text) \in Nat
  BY <1>1, PartsAssumption DEF S!TypeOK, S!DeliveryAssumption, S!Solid
<1>3. S!ChunksHoldText
  BY <1>1, <1>2 DEF ChunksInv, S!ChunksHoldText
<1>4. ended = "resolved" => {chat[i] : i \in DOMAIN chat} = 1..Len(chunks)
  <2>1. SUFFICES ASSUME ended = "resolved"
                 PROVE  {chat[i] : i \in DOMAIN chat} = 1..Len(chunks)
    OBVIOUS
  <2>2. at - 1 = Len(chunks)
    BY <1>1, <2>1 DEF ChatInv, S!TypeOK
  <2>3. \A k \in 1..Len(chunks) : \E i \in DOMAIN chat : chat[i] = k
    BY <1>1, <2>2 DEF ChatInv
  <2>4. \A i \in DOMAIN chat : chat[i] \in 1..Len(chunks)
    BY <1>1 DEF S!TypeOK
  <2> QED
    BY <2>3, <2>4, Zenon
<1> QED
  BY <1>1, <1>3, <1>4 DEF ChatInv, S!DeliversText

\* Whatever the text, the limit and the number of retries: the chunks hold in order all of the
\* text that is not blank, none longer than the limit and a full stop; however sends fail, the
\* chat shows a beginning of them in order, one twice only if a send of it failed after it had
\* arrived; and all of them once deliverReply has resolved.
THEOREM TextsAreDelivered == AllSpec => []DeliversText
<1>1. AllInit => (part = "send" => SendInv)
  BY SendInit DEF AllInit
<1>2. (part = "send" => SendInv) /\ [AllNext]_allVars => (part = "send" => SendInv)'
  BY PartSteps, SendStays
<1>3. (part = "send" => SendInv) => DeliversText
  BY SendInvDelivers DEF DeliversText
<1> QED
  BY <1>1, <1>2, <1>3, PTL DEF AllSpec
=============================================================================
