----------------------------- MODULE ConfigStore -----------------------------
(***************************************************************************)
(* The four files of the configuration and everybody who rewrites them:    *)
(* services/config (config.get merges the files, config.set splits a whole *)
(* object over them), the channel service, the forms of the web console,   *)
(* the agent's retry settings, and the CLI's own writers in a second       *)
(* process.  A value is a version; 0 means that the key is absent.         *)
(*                                                                         *)
(* A readFileSync or writeFileSync and what follows it in the same turn of *)
(* the event loop is one step; only a crash is seen in the middle of it.   *)
(***************************************************************************)
EXTENDS Naturals

CONSTANTS Ids,       \* channels
          Provs,     \* model providers
          Versions,  \* the bound on edits: versions are used in order
          Tasks,     \* requests that may be under way at once
          None       \* a file that is missing or does not parse

VARIABLES
    config,     \* config.json: channel -> version
    models,     \* agent/models.json: provider -> version
    auth,       \* agent/auth.json: provider -> version
    settings,   \* agent/settings.json: the default model and the retry settings
    adapters,   \* ChannelService.adapters
    up,         \* the daemon is running
    task,       \* the requests under way
    used,       \* the last version that was given out
    wanted,     \* history: what the acknowledged saves asked for
    interfered  \* history: two rewrites overlapped, or a write was cut short

files == <<config, models, auth, settings>>
vars == <<files, adapters, up, task, used, wanted, interfered>>

Values == {0} \cup Versions
Channels == [Ids -> Values]
Keys == [Provs -> Values]
Settings == [model: Values, retry: BOOLEAN]
ConfigAssumption == Versions \subseteq Nat \ {0} /\ \A S \in {Channels, Keys, Settings} : None \notin S
Idle == [kind |-> "none", at |-> "idle", key |-> None, value |-> 0, cfg |-> None]
Kinds == {"register", "unregister", "channelForm", "modelForm", "retry", "provider"}

TypeOK ==
    /\ config \in Channels \cup {None}
    /\ {models, auth} \subseteq Keys \cup {None}
    /\ settings \in Settings \cup {None}
    /\ adapters \subseteq Ids
    /\ {up, interfered} \subseteq BOOLEAN
    /\ used \in Values
    /\ \A t \in Tasks : /\ task[t].kind \in Kinds \cup {"none"}
                        /\ task[t].key \in Ids \cup Provs \cup {None}
                        /\ task[t].value \in Values
    /\ wanted \in [channels: Channels, providers: Keys, auth: Keys, model: Values]

Empty(S) == [k \in S |-> 0]

Init ==
    /\ config = Empty(Ids)
    /\ models = None /\ auth = None /\ settings = None
    /\ adapters = {} /\ up = FALSE
    /\ task = [t \in Tasks |-> Idle]
    /\ used = 0
    /\ wanted = [channels |-> Empty(Ids), providers |-> Empty(Provs), auth |-> Empty(Provs), model |-> 0]
    /\ interfered = FALSE

-----------------------------------------------------------------------------
(* services/config *)

(* loadConfig: throws without a readable config.json; the other files are   *)
(* left out when they cannot be read.                                       *)
LoadConfig == [channels |-> config, providers |-> models, auth |-> auth, agent |-> settings]

(* What set() makes of each file.  Fields that the object does not mention  *)
(* stay; of the providers those on the disk win over the object's.          *)
Over(new, old) == IF old = None THEN new
                  ELSE [k \in DOMAIN new |-> IF new[k] = 0 THEN old[k] ELSE new[k]]
NextSettings(new) ==
    IF new = None THEN settings
    ELSE IF settings = None THEN new
    ELSE [model |-> IF new.model = 0 THEN settings.model ELSE new.model,
          retry |-> new.retry \/ settings.retry]
NextAuth(new) == IF new = None THEN auth ELSE Over(new, auth)
NextModels(new) == IF new = None \/ models # None THEN models ELSE new

(* config.set.                                                              *)
Set(cfg) ==
    /\ config' = cfg.channels
    /\ models' = NextModels(cfg.providers)
    /\ settings' = NextSettings(cfg.agent)
    /\ auth' = NextAuth(cfg.auth)

(* The process dies in the middle: some of the files are new, one may be    *)
(* cut short, the rest is old.                                              *)
SetCutShort(cfg) ==
    \/ config' = None /\ UNCHANGED <<models, settings, auth>>
    \/ config' = cfg.channels /\ models' \in {models, None} /\ UNCHANGED <<settings, auth>>
    \/ config' = cfg.channels /\ models' = NextModels(cfg.providers)
       /\ settings' \in {settings, None} /\ UNCHANGED auth
    \/ config' = cfg.channels /\ models' = NextModels(cfg.providers)
       /\ settings' = NextSettings(cfg.agent) /\ auth' = None

-----------------------------------------------------------------------------
(* Requests to the daemon: read the configuration, wait, write it back *)

Holding == {t \in Tasks : task[t].at = "set"}

Fresh(t, kind, key) ==
    /\ task[t] = Idle /\ used + 1 \in Versions
    /\ used' = used + 1
    /\ task' = [task EXCEPT ![t] = [Idle EXCEPT !.kind = kind, !.at = "read", !.key = key,
                                                !.value = used + 1]]

(* registerChannel up to `await startChannel`; an adapter that is there     *)
(* already ends it.                                                         *)
Register(t, i) ==
    /\ up /\ i \notin adapters
    /\ Fresh(t, "register", i)
    /\ UNCHANGED <<files, adapters, up, wanted, interfered>>

(* unregisterChannel up to config.get: the adapter is stopped.              *)
Unregister(t, i) ==
    /\ up /\ task[t] = Idle
    /\ adapters' = adapters \ {i}
    /\ task' = [task EXCEPT ![t] = [Idle EXCEPT !.kind = "unregister", !.at = "read", !.key = i]]
    /\ UNCHANGED <<files, up, used, wanted, interfered>>

(* submit() of the console's forms, for a channel or a provider.            *)
ChannelForm(t, i) ==
    /\ up /\ config # None /\ config[i] # 0
    /\ Fresh(t, "channelForm", i)
    /\ UNCHANGED <<files, adapters, up, wanted, interfered>>

ModelForm(t, p) ==
    /\ up
    /\ Fresh(t, "modelForm", p)
    /\ UNCHANGED <<files, adapters, up, wanted, interfered>>

(* What the request makes of the configuration it has read, None if it      *)
(* leaves it alone.                                                         *)
Edited(t) ==
    LET r == task[t]  cfg == LoadConfig
        Put(i, v) == [cfg EXCEPT !.channels[i] = v]
    IN  CASE r.kind = "register" -> IF config[r.key] = 0 THEN Put(r.key, r.value) ELSE None
          [] r.kind = "unregister" -> IF config[r.key] # 0 THEN Put(r.key, 0) ELSE None
          [] r.kind = "channelForm" -> IF config[r.key] # 0 THEN Put(r.key, r.value) ELSE cfg
          [] OTHER -> [cfg EXCEPT !.providers =
                         [(IF models = None THEN Empty(Provs) ELSE models) EXCEPT ![r.key] = r.value]]

(* config.get.  A channel whose adapter has come up joins the map first.    *)
Read(t) ==
    LET r == task[t]
    IN  /\ up /\ r.at = "read" /\ r.kind # "provider"
        /\ adapters' = IF r.kind = "register" THEN adapters \cup {r.key} ELSE adapters
        /\ IF r.kind = "retry" \/ (config # None /\ Edited(t) # None)
           THEN /\ task' = [task EXCEPT ![t].at = "set",
                                        ![t].cfg = IF r.kind = "retry" THEN settings ELSE Edited(t)]
                /\ interfered' = (interfered \/ Holding # {})
           ELSE task' = [task EXCEPT ![t] = Idle] /\ UNCHANGED interfered
        /\ UNCHANGED <<files, up, used, wanted>>

(* The acknowledgement of config.set.                                       *)
Noted(r) ==
    CASE r.kind = "modelForm" -> [wanted EXCEPT !.providers[r.key] = r.value]
      [] r.kind = "channelForm" /\ r.cfg.channels[r.key] = 0 -> wanted
      [] OTHER -> [wanted EXCEPT !.channels[r.key] = r.value]

Save(t) ==
    LET r == task[t]
    IN  /\ up /\ r.at = "set" /\ r.kind # "retry"
        /\ Set(r.cfg)
        /\ wanted' = Noted(r)
        /\ task' = [task EXCEPT ![t] = Idle]
        /\ UNCHANGED <<adapters, up, used, interfered>>

(* Fault: what the file held before is dropped.                             *)
PersistOnlyRetry(t) ==
    LET r == task[t]
    IN  /\ up /\ r.at = "set" /\ r.kind = "retry"
        /\ settings' = [model |-> 0, retry |-> TRUE]
        /\ task' = [task EXCEPT ![t] = Idle]
        /\ UNCHANGED <<config, models, auth, adapters, up, used, wanted, interfered>>

(* persistRetrySettings: settings.json, read and written with a wait        *)
(* between.                                                                 *)
PersistRetrySettings(t) ==
    LET r == task[t]
    IN  /\ up /\ r.at = "set" /\ r.kind = "retry"
        /\ settings' = [r.cfg EXCEPT !.retry = TRUE]
        /\ task' = [task EXCEPT ![t] = Idle]
        /\ UNCHANGED <<config, models, auth, adapters, up, used, wanted, interfered>>

-----------------------------------------------------------------------------
(* The daemon's life: with a provider to use, boot starts the configured    *)
(* channels, and the agent service persists its retry settings.             *)
ProviderReady == config # None /\ settings # None /\ settings.model # 0

Boot(t) ==
    /\ ~up /\ ProviderReady
    /\ task[t] = Idle
    /\ up' = TRUE
    /\ adapters' = {i \in Ids : config[i] # 0}
    /\ task' = [task EXCEPT ![t] = [Idle EXCEPT !.kind = "retry", !.at = "read"]]
    /\ UNCHANGED <<files, used, wanted, interfered>>

DiesWith == [t \in Tasks |-> IF task[t].kind = "provider" THEN task[t] ELSE Idle]

Crash ==
    /\ up
    /\ up' = FALSE /\ adapters' = {}
    /\ task' = DiesWith
    /\ \/ UNCHANGED <<files, interfered>>
       \/ \E t \in Tasks : /\ task[t].at = "set" /\ task[t].kind \notin {"retry", "provider"}
                           /\ SetCutShort(task[t].cfg)
                           /\ interfered' = TRUE
    /\ UNCHANGED <<used, wanted>>

-----------------------------------------------------------------------------
(* The CLI, a process of its own, whether or not the daemon runs *)

(* cli/channels registerChannel: an entry that is there gets the new token. *)
(* A config.json that cannot be read counts as empty.                       *)
CliRegisterChannel(i) ==
    /\ used + 1 \in Versions
    /\ used' = used + 1
    /\ config' = [(IF config = None THEN Empty(Ids) ELSE config) EXCEPT ![i] = used + 1]
    /\ wanted' = [wanted EXCEPT !.channels[i] = used + 1]
    /\ interfered' = (interfered \/ Holding # {})
    /\ UNCHANGED <<models, auth, settings, adapters, up, task>>

(* configureProvider: models.json, auth.json (a local provider needs no     *)
(* key) and settings.json, each read and rewritten.                         *)
ConfigureProvider(t, p) ==
    /\ Fresh(t, "provider", p)
    /\ UNCHANGED <<files, adapters, up, wanted, interfered>>

WriteModels(t) ==
    LET r == task[t]
        Written(file) == [(IF file = None THEN Empty(Provs) ELSE file) EXCEPT ![r.key] = r.value]
    IN  /\ r.kind = "provider" /\ r.at = "read"
        /\ models' = Written(models)
        /\ \/ /\ auth' = Written(auth)
              /\ wanted' = [wanted EXCEPT !.providers[r.key] = r.value, !.auth[r.key] = r.value]
           \/ wanted' = [wanted EXCEPT !.providers[r.key] = r.value] /\ UNCHANGED auth
        /\ task' = [task EXCEPT ![t].at = "settings"]
        /\ interfered' = (interfered \/ Holding # {})
        /\ UNCHANGED <<config, settings, adapters, up, used>>

WriteSettings(t) ==
    LET r == task[t]
    IN  /\ r.kind = "provider" /\ r.at = "settings"
        /\ settings' = IF settings = None THEN [model |-> r.value, retry |-> FALSE]
                       ELSE [settings EXCEPT !.model = r.value]
        /\ wanted' = [wanted EXCEPT !.model = r.value]
        /\ task' = [task EXCEPT ![t] = Idle]
        /\ interfered' = (interfered \/ Holding # {})
        /\ UNCHANGED <<config, models, auth, adapters, up, used>>

Next ==
    \/ \E t \in Tasks :
         \/ \E i \in Ids : Register(t, i) \/ Unregister(t, i) \/ ChannelForm(t, i)
         \/ \E p \in Provs : ModelForm(t, p) \/ ConfigureProvider(t, p)
         \/ Read(t) \/ Save(t) \/ PersistRetrySettings(t) \/ Boot(t)
         \/ WriteModels(t) \/ WriteSettings(t)
    \/ \E i \in Ids : CliRegisterChannel(i)
    \/ Crash

Spec == Init /\ [][Next]_vars

-----------------------------------------------------------------------------
(* Properties *)

Content(file, S) == IF file = None THEN Empty(S) ELSE file

(* What was saved stays saved: as long as no two rewrites overlap and no    *)
(* write is cut short, config.json, auth.json and the default model are     *)
(* what the acknowledged requests made of them - one writer's whole-object  *)
(* save disturbs no other writer's key, whichever process, file or crash    *)
(* lies between.                                                            *)
SavesStay ==
    ~interfered =>
        /\ config = wanted.channels
        /\ Content(auth, Provs) = wanted.auth
        /\ wanted.model # 0 => settings # None /\ settings.model = wanted.model

(* What services/config/index.ts:118 says of config.set: it "Routes to the  *)
(* correct file (config.json, agent/models.json, ...)".  An object with new *)
(* providers is acknowledged, and models.json keeps the old ones.           *)
ProvidersSaved == ~interfered => Content(models, Provs) = wanted.providers
=============================================================================
