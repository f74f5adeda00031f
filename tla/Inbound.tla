-------------------------------- MODULE Inbound --------------------------------
(***************************************************************************)
(* The way of a message from the Telegram Bot API to the pipeline: the     *)
(* poll loop of TelegramAdapter with its offset and its backoff, and the   *)
(* one inbound path of BaseChannelAdapter (dedupe, debounce, media), while *)
(* channel.restart stops and starts the adapter and the process crashes.   *)
(* What the pipeline does with a message it is handed is Conversation's    *)
(* Receive.                                                                *)
(*                                                                         *)
(* Updates are numbered from 1 by the server, as update_id does.  A step   *)
(* runs from one I/O completion to the next wait; the `for` loop over the  *)
(* updates of one answer is cut into one step per update, and no other     *)
(* action is enabled until it is through (inbox).                          *)
(***************************************************************************)
EXTENDS Integers, Sequences

CONSTANTS
  Chats,
  Kinds,        \* kinds of messages, "other" is what normalize() returns null for
  Loops,        \* pollLoop calls that may be alive at a time (bound)
  MaxMsgs,      \* bound on messages sent
  MaxBatch,     \* DebounceConfig.maxBatch
  MaxAttempts,  \* ReconnectConfig.maxAttempts
  MaxFaults,    \* bound on channel.restart calls and crashes together
  MaxExpiries   \* bound on messages that drop out of the dedupe cache

ASSUME InboundAssumption == /\ Kinds \subseteq {"text", "media", "other"}
                            /\ MaxMsgs \in Nat
                            /\ MaxBatch \in Nat \ {0, 1}
                            /\ MaxAttempts \in Nat
                            /\ MaxFaults \in Nat
                            /\ MaxExpiries \in Nat

VARIABLES
  \* the Bot API
  log,          \* the messages sent to the bot, by update_id
  confirmed,    \* the updates up to this one were confirmed and are never served again
  \* TelegramAdapter
  polling,      \* this.polling
  status,       \* this.status
  starts,       \* start() calls that wait for getMe
  loop,         \* Loops -> how far the pollLoop call is
  asked,        \* Loops -> the offset of its getUpdates request, until that is served
  answer,       \* Loops -> the updates of the server's answer to it
  abortable,    \* the loops whose request carries the signal of this.abortController
  offset,       \* this.offset
  attempts,     \* this.reconnector.attempt
  inbox,        \* the updates of the answer being handled that were not looked at yet
  \* BaseChannelAdapter
  seen,         \* the updates whose message is in this.dedupe
  pending,      \* Chats -> the messages in the debouncer's entry
  downloads,    \* updates -> how many receive() calls wait in mediaText for it
  handed,       \* Chats -> the messages handed to deps.onInbound, in order (history)
  \* bounds and history
  faults,       \* restarts and crashes so far
  expiries,     \* dedupe expiries so far
  lost,         \* messages whose download failed, or that a crash took after confirmation
  forgotten,    \* messages handled once and no longer in dedupe while they can come again
  overlapped    \* a restart met a loop asleep or another start() under way

serverVars  == <<log, confirmed>>
loopVars    == <<loop, asked, answer, abortable>>
pollVars    == <<polling, status, starts, loopVars, offset, attempts, inbox>>
boundVars   == <<faults, expiries>>
batchVars   == <<seen, pending, downloads, handed>>
historyVars == <<lost, forgotten, overlapped>>
vars == <<serverVars, pollVars, batchVars, boundVars, historyVars>>

Updates == 1 .. MaxMsgs
Message == [chat : Chats, kind : Kinds]
LoopStates == {"off", "asking", "served", "handling", "asleep"}

Sent    == 1 .. Len(log)
Live    == {l \in Loops : loop[l] # "off"}
In(m, s) == \E i \in 1 .. Len(s) : s[i] = m

\* A batch that is full was flushed.
TypeOK == /\ log \in Seq(Message) /\ Len(log) <= MaxMsgs
          /\ confirmed \in 0 .. Len(log)
          /\ polling \in BOOLEAN
          /\ status \in {"disconnected", "connected", "error"}
          /\ starts \in Nat
          /\ loop \in [Loops -> LoopStates]
          /\ asked \in [Loops -> 0 .. Len(log) + 1]
          /\ answer \in [Loops -> SUBSET Sent]
          /\ abortable \subseteq {l \in Loops : loop[l] \in {"asking", "served"}}
          /\ offset \in 0 .. Len(log) + 1
          /\ attempts \in 0 .. MaxAttempts
          /\ inbox \subseteq Sent
          /\ seen \subseteq Sent
          /\ pending \in [Chats -> Seq(Updates)]
          /\ \A c \in Chats : Len(pending[c]) < MaxBatch
          /\ downloads \in [Updates -> Nat]
          /\ \A m \in Updates : downloads[m] > 0 => m \in Sent
          /\ handed \in [Chats -> Seq(Updates)]
          /\ faults \in 0 .. MaxFaults
          /\ expiries \in 0 .. MaxExpiries
          /\ lost \subseteq Sent
          /\ forgotten \subseteq Sent
          /\ overlapped \in BOOLEAN

\* A process starts its adapter.
Init == /\ log = <<>>
        /\ confirmed = 0
        /\ polling = FALSE
        /\ status = "disconnected"
        /\ starts = 1
        /\ loop = [l \in Loops |-> "off"]
        /\ asked = [l \in Loops |-> 0]
        /\ answer = [l \in Loops |-> {}]
        /\ abortable = {}
        /\ offset = 0
        /\ attempts = 0
        /\ inbox = {}
        /\ seen = {}
        /\ pending = [c \in Chats |-> <<>>]
        /\ downloads = [m \in Updates |-> 0]
        /\ handed = [c \in Chats |-> <<>>]
        /\ faults = 0
        /\ expiries = 0
        /\ lost = {}
        /\ forgotten = {}
        /\ overlapped = FALSE

Quiet == inbox = {}

----------------------------------------------------------------------------
(* The Bot API.                                                            *)

Send(c, k) == /\ Quiet /\ Len(log) < MaxMsgs
              /\ log' = Append(log, [chat |-> c, kind |-> k])
              /\ UNCHANGED <<confirmed, pollVars, batchVars, boundVars, historyVars>>

\* getUpdates: the updates below the offset are dropped, what there is above is the answer
\* (nothing, if the long poll times out).
Serve(l) ==
  /\ Quiet /\ loop[l] = "asking"
  /\ loop' = [loop EXCEPT ![l] = "served"]
  /\ confirmed' = IF asked[l] > confirmed + 1 THEN asked[l] - 1 ELSE confirmed
  /\ answer' = [answer EXCEPT ![l] = confirmed' + 1 .. Len(log)]
  /\ asked' = [asked EXCEPT ![l] = 0]
  /\ UNCHANGED <<log, polling, status, starts, abortable, offset, attempts, inbox,
                 batchVars, boundVars, historyVars>>

----------------------------------------------------------------------------
(* The poll loop.                                                          *)

\* Loop l leaves its request for another place.
Leave(l, place) == /\ loop' = [loop EXCEPT ![l] = place]
                   /\ asked' = [asked EXCEPT ![l] = 0]
                   /\ answer' = [answer EXCEPT ![l] = {}]

\* The loop's condition and the next getUpdates, which carries the offset and the signal
\* there are by then.
Resume(l) ==
  IF polling'
    THEN /\ loop' = [loop EXCEPT ![l] = "asking"]
         /\ asked' = [asked EXCEPT ![l] = offset']
         /\ answer' = [answer EXCEPT ![l] = {}]
         /\ abortable' = abortable \cup {l}
    ELSE /\ Leave(l, "off")
         /\ abortable' = abortable \ {l}

\* getMe answers: the adapter polls, under a controller of its own.
StartOk(l) ==
  /\ Quiet /\ starts > 0
  /\ loop[l] = "off"
  /\ starts' = starts - 1
  /\ polling' = TRUE
  /\ status' = "connected"
  /\ loop' = [loop EXCEPT ![l] = "asking"]
  /\ asked' = [asked EXCEPT ![l] = offset]
  /\ abortable' = {l}
  /\ UNCHANGED <<serverVars, answer, offset, attempts, inbox, batchVars, boundVars, historyVars>>

StartFails ==
  /\ Quiet /\ starts > 0
  /\ starts' = starts - 1
  /\ UNCHANGED <<serverVars, polling, status, loopVars, offset, attempts, inbox, batchVars,
                 boundVars, historyVars>>

Answered(l) ==
  /\ Quiet /\ loop[l] = "served"
  /\ attempts' = 0
  /\ inbox' = answer[l]
  /\ UNCHANGED <<polling, offset>>
  /\ IF inbox' = {} THEN Resume(l)
                    ELSE Leave(l, "handling") /\ abortable' = abortable \ {l}
  /\ UNCHANGED <<serverVars, status, starts, batchVars, boundVars, historyVars>>

\* Fault: next() counts the attempt before it compares.
PollFailsEarly(l) ==
  /\ Quiet /\ loop[l] \in {"asking", "served"}
  /\ \/ ~polling /\ Leave(l, "off") /\ UNCHANGED <<attempts, status>>
     \/ /\ polling /\ attempts + 1 < MaxAttempts
        /\ Leave(l, "asleep")
        /\ attempts' = attempts + 1 /\ UNCHANGED status
     \/ /\ polling /\ attempts + 1 >= MaxAttempts
        /\ Leave(l, "off")
        /\ status' = "error" /\ UNCHANGED attempts
  /\ abortable' = abortable \ {l}
  /\ UNCHANGED <<serverVars, polling, starts, offset, inbox, batchVars, boundVars, historyVars>>

\* The request or its answer gets lost: backoff, unless the adapter was stopped or the
\* attempts are used up.
PollFails(l) ==
  /\ Quiet /\ loop[l] \in {"asking", "served"}
  /\ \/ ~polling /\ Leave(l, "off") /\ UNCHANGED <<attempts, status>>
     \/ /\ polling /\ attempts < MaxAttempts
        /\ Leave(l, "asleep")
        /\ attempts' = attempts + 1 /\ UNCHANGED status
     \/ /\ polling /\ attempts = MaxAttempts
        /\ Leave(l, "off")
        /\ status' = "error" /\ UNCHANGED attempts
  /\ abortable' = abortable \ {l}
  /\ UNCHANGED <<serverVars, polling, starts, offset, inbox, batchVars, boundVars, historyVars>>

\* Fault: a poll that fails ends the loop after its backoff.
SleepEndsLoop(l) ==
  /\ Quiet /\ loop[l] = "asleep"
  /\ Leave(l, "off")
  /\ UNCHANGED <<serverVars, polling, status, starts, abortable, offset, attempts, inbox,
                 batchVars, boundVars, historyVars>>

SleepEnds(l) ==
  /\ Quiet /\ loop[l] = "asleep"
  /\ UNCHANGED <<polling, offset>>
  /\ Resume(l)
  /\ UNCHANGED <<serverVars, status, starts, attempts, inbox, batchVars, boundVars, historyVars>>

----------------------------------------------------------------------------
(* receive(): the one inbound path.                                        *)

HandOn(c, batch) == handed' = [handed EXCEPT ![c] = @ \o batch]

\* The debouncer's flush of one chat.
Flush(c) == /\ pending' = [pending EXCEPT ![c] = <<>>]
            /\ HandOn(c, pending[c])

\* Fault: the batch may be full without being flushed.
PushOneMore(c, m) == LET batch == Append(pending[c], m) IN
                     IF Len(batch) > MaxBatch
                       THEN pending' = [pending EXCEPT ![c] = <<>>] /\ HandOn(c, batch)
                       ELSE pending' = [pending EXCEPT ![c] = batch] /\ UNCHANGED handed

\* Fault: an entry for the chat is replaced, as its metadata is.
PushReplaces(c, m) == /\ pending' = [pending EXCEPT ![c] = <<m>>]
                      /\ UNCHANGED handed

\* The debouncer's push: a batch that gets full is flushed at once.
Push(c, m) == LET batch == Append(pending[c], m) IN
              IF Len(batch) >= MaxBatch
                THEN pending' = [pending EXCEPT ![c] = <<>>] /\ HandOn(c, batch)
                ELSE pending' = [pending EXCEPT ![c] = batch] /\ UNCHANGED handed

\* Fault: nothing is remembered.
NeverDuplicate(m) == FALSE

\* dedupe.add finds the message.
Duplicate(m) == m \in seen

\* Fault: media does not flush what is buffered.
ReceiveUnflushed(m) ==
  \/ /\ log[m].kind = "other" \/ Duplicate(m)
     /\ UNCHANGED batchVars
  \/ /\ log[m].kind = "text" /\ ~Duplicate(m)
     /\ seen' = seen \cup {m}
     /\ Push(log[m].chat, m)
     /\ UNCHANGED downloads
  \/ /\ log[m].kind = "media" /\ ~Duplicate(m)
     /\ seen' = seen \cup {m}
     /\ downloads' = [downloads EXCEPT ![m] = @ + 1]
     /\ UNCHANGED <<pending, handed>>

\* Text is buffered; media flushes what its chat has buffered and is fetched first.
Receive(m) ==
  \/ /\ log[m].kind = "other" \/ Duplicate(m)
     /\ UNCHANGED batchVars
  \/ /\ log[m].kind = "text" /\ ~Duplicate(m)
     /\ seen' = seen \cup {m}
     /\ Push(log[m].chat, m)
     /\ UNCHANGED downloads
  \/ /\ log[m].kind = "media" /\ ~Duplicate(m)
     /\ seen' = seen \cup {m}
     /\ Flush(log[m].chat)
     /\ downloads' = [downloads EXCEPT ![m] = @ + 1]

\* One round of the `for` over an answer's updates, and the next request after the last.
Handle(l, m) ==
  /\ loop[l] = "handling"
  /\ m \in inbox /\ \A n \in inbox : m <= n
  /\ inbox' = inbox \ {m}
  /\ offset' = m + 1
  /\ Receive(m)
  /\ UNCHANGED polling
  /\ IF inbox' = {} THEN Resume(l) ELSE UNCHANGED loopVars
  /\ UNCHANGED <<serverVars, status, starts, attempts, boundVars, historyVars>>

FlushTimer(c) ==
  /\ Quiet /\ pending[c] # <<>>
  /\ Flush(c)
  /\ UNCHANGED <<serverVars, pollVars, seen, downloads, boundVars, historyVars>>

\* mediaText returns; an enrichment that failed falls back to the path.
MediaReady(m) ==
  /\ Quiet /\ downloads[m] > 0
  /\ downloads' = [downloads EXCEPT ![m] = @ - 1]
  /\ HandOn(log[m].chat, <<m>>)
  /\ UNCHANGED <<serverVars, pollVars, seen, pending, boundVars, historyVars>>

\* The download or saving it throws; receive logs it.
MediaFails(m) ==
  /\ Quiet /\ downloads[m] > 0
  /\ downloads' = [downloads EXCEPT ![m] = @ - 1]
  /\ lost' = lost \cup {m}
  /\ UNCHANGED <<serverVars, pollVars, seen, pending, handed, boundVars, forgotten, overlapped>>

\* The dedupe entry is past its time to live or makes room for a newer one.
Expire(m) ==
  /\ Quiet /\ expiries < MaxExpiries
  /\ m \in seen
  /\ expiries' = expiries + 1
  /\ seen' = seen \ {m}
  /\ forgotten' = IF overlapped THEN forgotten \cup {m} ELSE forgotten
  /\ UNCHANGED <<serverVars, pollVars, pending, downloads, handed, faults, lost, overlapped>>

----------------------------------------------------------------------------
(* channel.restart and crashes.                                            *)

\* Fault: stop() aborts nothing.
AbortedNone == {}

\* The loops whose request stop() aborts: they find ~polling and end.
Aborted == abortable

\* stop(), and start() up to getMe.  Downloads that are still on the wire fail with the
\* loop's request, those past it go on.
Restart ==
  /\ Quiet /\ faults < MaxFaults
  /\ faults' = faults + 1
  /\ polling' = FALSE
  /\ status' = "disconnected"
  /\ starts' = starts + 1
  /\ pending' = [c \in Chats |-> <<>>]
  /\ handed' = [c \in Chats |-> handed[c] \o pending[c]]
  /\ loop' = [l \in Loops |-> IF l \in Aborted THEN "off" ELSE loop[l]]
  /\ asked' = [l \in Loops |-> IF l \in Aborted THEN 0 ELSE asked[l]]
  /\ answer' = [l \in Loops |-> IF l \in Aborted THEN {} ELSE answer[l]]
  /\ abortable' = {}
  /\ \E failed \in SUBSET {m \in Updates : downloads[m] > 0} :
       /\ downloads' = [m \in Updates |-> IF m \in failed THEN 0 ELSE downloads[m]]
       /\ lost' = lost \cup failed
  /\ overlapped' = (overlapped \/ starts > 0 \/ \E l \in Loops : loop[l] = "asleep")
  /\ UNCHANGED <<serverVars, offset, attempts, inbox, seen, expiries, forgotten>>

\* The process dies and the next one starts the adapter.
Crash ==
  /\ Quiet /\ faults < MaxFaults
  /\ faults' = faults + 1
  /\ polling' = FALSE
  /\ status' = "disconnected"
  /\ starts' = 1
  /\ loop' = [l \in Loops |-> "off"]
  /\ asked' = [l \in Loops |-> 0]
  /\ answer' = [l \in Loops |-> {}]
  /\ abortable' = {}
  /\ offset' = 0
  /\ attempts' = 0
  /\ seen' = {}
  /\ pending' = [c \in Chats |-> <<>>]
  /\ downloads' = [m \in Updates |-> 0]
  /\ lost' = lost \cup {m \in 1 .. confirmed : downloads[m] > 0 \/ In(m, pending[log[m].chat])}
  /\ forgotten' = forgotten \cup {m \in Sent : m > confirmed /\ (m < offset \/ m \in seen)}
  /\ overlapped' = FALSE
  /\ UNCHANGED <<serverVars, inbox, handed, expiries>>

Next == \/ \E c \in Chats, k \in Kinds : Send(c, k)
        \/ \E l \in Loops : \/ Serve(l) \/ StartOk(l) \/ Answered(l) \/ PollFails(l)
                            \/ SleepEnds(l)
                            \/ \E m \in Updates : Handle(l, m)
        \/ StartFails
        \/ \E c \in Chats : FlushTimer(c)
        \/ \E m \in Updates : MediaReady(m) \/ MediaFails(m) \/ Expire(m)
        \/ Restart
        \/ Crash

\* Timers fire, the thread goes through an answer it got, and every request to the Bot API
\* ends: the server ends a long poll after POLL_TIMEOUT_S.  (A connection that hangs for
\* good is outside: request() puts no timeout of its own on it.)
Fairness == /\ \A l \in Loops : /\ WF_vars(Serve(l) \/ Answered(l) \/ PollFails(l))
                                /\ WF_vars(SleepEnds(l))
                                /\ WF_vars(\E m \in Updates : Handle(l, m))
            /\ WF_vars((\E l \in Loops : StartOk(l)) \/ StartFails)
            /\ \A c \in Chats : WF_vars(FlushTimer(c))
            /\ \A m \in Updates : WF_vars(MediaReady(m) \/ MediaFails(m))

Spec == Init /\ [][Next]_vars /\ Fairness

----------------------------------------------------------------------------
(* Properties.                                                             *)

HandedOn(m) == In(m, handed[log[m].chat])

\* A message is handed on once, whatever the loops fetch again, unless the process died
\* before its update was confirmed, or it dropped out of the dedupe cache while two loops
\* were fetching.
HandedOnce ==
  \A c \in Chats : \A i, j \in 1 .. Len(handed[c]) :
    (i < j /\ handed[c][i] = handed[c][j]) => handed[c][i] \in forgotten

\* Of two messages of a chat the later is handed on first only if the earlier is media,
\* which it overtakes during the download.
InOrder ==
  \A c \in Chats : \A i, j \in 1 .. Len(handed[c]) :
    (i < j /\ handed[c][i] > handed[c][j]) =>
      \/ \E k \in 1 .. i : handed[c][k] = handed[c][j]
      \/ log[handed[c][j]].kind = "media"

\* A message is handed to the agent once, and in the order of its chat, however updates are
\* served and served again.
HandedInOrder == HandedOnce /\ InOrder

\* m was handed on, is on its way, or is known to be lost.
Accounted(m) == \/ log[m].kind = "other"
                \/ HandedOn(m)
                \/ In(m, pending[log[m].chat])
                \/ downloads[m] > 0
                \/ m \in lost

\* No message falls through: what the offset has passed or the server has dropped was
\* handed on, is on its way, or is accounted for as lost.
Conserved == \A m \in Sent : (m < offset \/ m <= confirmed) => Accounted(m)

\* stop() and start() leave one poll loop: two compete only after a restart during a
\* backoff sleep or during another restart.
OneLoop == ~overlapped => \A k, l \in Live : k = l

\* An adapter that polls no more although nobody stopped it used up its attempts and says so.
DeafIsReported == (polling /\ Live = {}) => (status = "error" /\ attempts = MaxAttempts)

\* A message sent to the bot is handed on, or lost as accounted for, unless the adapter
\* stays disconnected or failed from some point on.
EventuallyHandled ==
  \A m \in Updates :
    (m \in Sent /\ log[m].kind # "other")
      ~> ((m \in Sent /\ HandedOn(m)) \/ m \in lost \/ [](status # "connected"))

================================================================================
