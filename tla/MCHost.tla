------------------------------- MODULE MCHost -------------------------------
(***************************************************************************)
(* Parts of the daemon and its console that share no state, those that     *)
(* keep files among them, in one run: a behaviour is a behaviour of one of *)
(* them, chosen at the start, with the others in an initial state.         *)
(***************************************************************************)
EXTENDS Host

CONSTANTS Callers, Pipes, MaxLines, Starts, Asks, Posts, Hooks, HookTargets, MaxMs,
          SentTexts, MaxSize, MaxRetries, BreakAfter, MaxFollowed, MaxUpdates, MaxStarts,
          Items, PageLists, MaxText, Dirs, Walks, MaxMsgs,
          ChannelIds, Provs, Edits, Tasks, MediaFiles, Calls

VARIABLES part,
    up, client, asked, partial, fin, wire, sock, pending, written, back, got,
    mount, shown, start, home, poll, polls, done, closing, cancels, asking, told, session,
    crossed, early, late,
    now, server, req, key, alone, sent, active, fired,
    text, rest, chunks, at, tries, ended, chat, unsure,
    waiting, run, compacting, burst, nudges, notices,
    reset, cli, adapter, dir, login, qrShown, connected, restarts, saves, updates, starts,
    kicked, later, blind, touched, more,
    page, store, texts, load, answer, due, jobs, error, formOpen, editing, origin, fields,
    typed, busy, saving, lost, rejected,
    msgs, torn, removed, listing, todo, reading, out, began, list, failed, view, events,
    config, models, auth, settings, adapters, inService, task, used, wanted, interfered,
    cached, processing, call, full

R == INSTANCE Rpc
P == INSTANCE PairDialog WITH asked <- asking, got <- told
W == INSTANCE Webhooks WITH Targets <- HookTargets
S == INSTANCE Delivery WITH Texts <- SentTexts
O == INSTANCE Overflow
L == INSTANCE CliPairing WITH shown <- qrShown, MaxRestarts <- MaxFollowed
G == INSTANCE Pages WITH Loads <- PageLists
V == INSTANCE Sessions WITH Keys <- Dirs, Loads <- Walks, load <- listing, error <- failed
C == INSTANCE ConfigStore WITH Ids <- ChannelIds, Versions <- Edits, up <- inService
B == INSTANCE Media WITH Files <- MediaFiles, Nil <- None

ASSUME PartsAssumption ==
    /\ O!OverflowAssumption /\ R!RpcAssumption /\ W!WebhooksAssumption /\ L!PairingAssumption
    /\ B!MediaAssumption /\ C!ConfigAssumption /\ P!StartsAssumption
    /\ G!PagesAssumption /\ V!SessionsAssumption /\ S!DeliveryAssumption

rpcVars == <<up, client, asked, partial, fin, wire, sock, pending, written, back, got>>
pairVars == <<mount, shown, start, home, poll, polls, done, closing, cancels, asking, told,
              session, crossed, early, late>>
hookVars == <<now, server, req, key, alone, sent, active, fired>>
sendVars == <<text, rest, chunks, at, tries, ended, chat, unsure>>
overflowVars == <<waiting, run, compacting, burst, nudges, notices>>
cliVars == <<reset, cli, adapter, dir, login, qrShown, connected, restarts, saves, updates, starts,
             kicked, later, blind, touched, more>>
pageVars == <<page, store, texts, load, answer, due, jobs, error, formOpen, editing, origin,
              fields, typed, busy, saving, lost, rejected>>
viewVars == <<msgs, torn, removed, listing, todo, reading, out, began, list, failed, view, events>>
configVars ==
    <<config, models, auth, settings, adapters, inService, task, used, wanted, interfered>>
mediaVars == <<cached, processing, call, full>>
storeVars == <<configVars, mediaVars>>
otherVars == <<rpcVars, pairVars, hookVars, sendVars, overflowVars, cliVars, pageVars, viewVars>>
partVars == <<otherVars, storeVars>>
allVars == <<part, vars, partVars>>

AllInit ==
    /\ part \in {"host", "rpc", "pair", "hooks", "send", "overflow", "cli", "pages", "view",
                "config", "media"}
    /\ part # "send" => text = <<>>
    /\ part # "cli" => reset = FALSE /\ adapter = "down" /\ dir = "none"
    /\ part # "pages" => page = "cron" /\ store = [i \in Items |-> 0]
    /\ part # "view" => msgs = V!NoFiles
    /\ Init /\ R!Init /\ P!Init /\ W!Init /\ S!Init /\ O!Init /\ L!Init /\ G!Init /\ V!Init
    /\ C!Init /\ B!Init

HostStep == part = "host" /\ Next /\ UNCHANGED <<part, partVars>>
RpcStep ==
    /\ part = "rpc" /\ R!Next
    /\ UNCHANGED <<part, vars, pairVars, hookVars, sendVars, overflowVars, cliVars,
                   pageVars, viewVars, storeVars>>
PairStep ==
    /\ part = "pair" /\ P!Next
    /\ UNCHANGED <<part, vars, rpcVars, hookVars, sendVars, overflowVars, cliVars,
                   pageVars, viewVars, storeVars>>
HookStep ==
    /\ part = "hooks" /\ W!Next
    /\ UNCHANGED <<part, vars, rpcVars, pairVars, sendVars, overflowVars, cliVars,
                   pageVars, viewVars, storeVars>>
SendStep ==
    /\ part = "send" /\ S!Next
    /\ UNCHANGED <<part, vars, rpcVars, pairVars, hookVars, overflowVars, cliVars,
                   pageVars, viewVars, storeVars>>
OverflowStep ==
    /\ part = "overflow" /\ O!Next
    /\ UNCHANGED <<part, vars, rpcVars, pairVars, hookVars, sendVars, cliVars,
                   pageVars, viewVars, storeVars>>
CliStep ==
    /\ part = "cli" /\ L!Next
    /\ UNCHANGED <<part, vars, rpcVars, pairVars, hookVars, sendVars, overflowVars,
                   pageVars, viewVars, storeVars>>
PagesStep ==
    /\ part = "pages" /\ G!Next
    /\ UNCHANGED <<part, vars, rpcVars, pairVars, hookVars, sendVars, overflowVars,
                   cliVars, viewVars, storeVars>>
ViewStep ==
    /\ part = "view" /\ V!Next
    /\ UNCHANGED <<part, vars, rpcVars, pairVars, hookVars, sendVars, overflowVars,
                   cliVars, pageVars, storeVars>>

ConfigStep ==
    part = "config" /\ C!Next /\ UNCHANGED <<part, vars, otherVars, mediaVars>>
MediaStep ==
    part = "media" /\ B!Next /\ UNCHANGED <<part, vars, otherVars, configVars>>

AllNext ==
    \/ HostStep \/ RpcStep \/ PairStep \/ HookStep \/ SendStep \/ OverflowStep \/ CliStep
    \/ PagesStep \/ ViewStep \/ ConfigStep \/ MediaStep

AllSpec == AllInit /\ [][AllNext]_allVars

(* Each property holds of the part that it is about, with its types.        *)

(* Rpc: the only reply is on the way before the server ends the socket.     *)
EndsAfterReply == part = "rpc" => R!TypeOK /\ R!EndsAfterReply

(* PairDialog: an open dialog polls the session that it has started.        *)
DialogFollows == part = "pair" => P!TypeOK /\ P!DialogFollows

(* Webhooks: a run has its session, and with it its response, for itself.   *)
RunsAlone == part = "hooks" => W!TypeOK /\ W!RunsAlone

(* Delivery: the chat gets the chunks of a text in order, and all of them.  *)
DeliversText == part = "send" => S!TypeOK /\ S!DeliversText

(* Overflow: an over-long history is nudged and announced a bounded number  *)
(* of times.                                                                *)
NudgesBounded == part = "overflow" => O!TypeOK /\ O!NudgesBounded

(* CliPairing: the command keeps off a running session, and tells the truth.*)
PairsTruly == part = "cli" => L!TypeOK /\ L!KicksOnlyLater /\ L!DoneMeansPaired

(* Pages: what the user types is kept, and the form stays usable.           *)
(* Sessions: the list has what was there, and a transcript what was listed. *)
PagesKept ==
    /\ part = "pages" => G!TypeOK /\ G!TextKept /\ G!BusyBacked
    /\ part = "view" => V!TypeOK /\ V!ListsSessions /\ V!TranscriptFollows

(* ConfigStore: an acknowledged save is not undone by anybody else's.       *)
ConfigKept == part = "config" => C!TypeOK /\ C!SavesStay

(* Media: a fetch in flight is a real one, and its text is bounded.         *)
CacheKept == part = "media" => B!TypeOK /\ B!EntryBacked /\ B!ContextBounded

(* A session of the command line, of a chat, and of that one's subagent.    *)
SessionDirs == {<<"cli">>, <<"wa", "chat">>, <<"wa", "chat", "subagent", "x">>}

AllTexts == UNION {[1..n -> {"w", ".", " ", "n", "t"}] : n \in 0..5}
=============================================================================
