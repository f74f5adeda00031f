----------------------------- MODULE Console_proofs -----------------------------
(***************************************************************************)
(* That a page of the console that does not show what is on disk has an    *)
(* update on its way, and that no Next child outlives its service, for any *)
(* number of instances, restarts, loads, polls and changes; and, for the   *)
(* other part of that run, that the index follows the files.               *)
(***************************************************************************)
EXTENDS MCConsole, SequenceTheorems, TLAPS

-----------------------------------------------------------------------------
(* The inductive invariant *)

Instance == [at: {"new", "init", "up"}, stops: BOOLEAN, wss: BOOLEAN, watch: BOOLEAN,
             child: {"none", "up", "dying"}, delay: BOOLEAN, restarts: 0..MaxRestarts,
             debounce: BOOLEAN, polls: 0..MaxPolls, told: BOOLEAN]
Page == [on: BOOLEAN, sock: {"none", "connecting", "open"}, to: {0} \cup Insts, wire: BOOLEAN,
         retry: BOOLEAN, refresh: BOOLEAN, shown: 0..file, failed: BOOLEAN]
Loading == [at: {"asked", "failed", "read"}, got: 0..file, late: BOOLEAN]

\* What holds of an instance w; e: it was disposed before its init had ended.  Whoever accepts
\* clients watches the files, and has yet to end a poll if it has not told anybody its status.
Good(w, e) ==
    /\ w.wss => w.at = "up" /\ w.watch
    /\ w.at = "up" /\ ~w.told => w.polls > 0
    /\ w.at = "new" => ~w.stops
    /\ w.at = "init" /\ w.stops => e
    /\ w.stops /\ ~e => w.child # "up"

InstInv ==
    /\ \A i \in Insts : Good(inst[i], i \in early)
    /\ cur # 0 => inst[cur].at # "new"
    /\ page.sock = "open" => page.to \in Insts /\ inst[page.to].at = "up"

\* An update that no load of the page holds yet is on its way.
Coming ==
    \/ page.refresh \/ page.wire \/ page.sock # "open"
    \/ inst[page.to].debounce \/ (~inst[page.to].told /\ inst[page.to].polls > 0)
    \/ Orphaned

\* Load k will show, or has read, what is on disk, and nothing has overtaken it.
Current(k) == ~loads[k].late /\ (loads[k].at = "read" => loads[k].got = file)

\* A load that has read an older version, and would still be shown, is not the last word.
LoadsInv ==
    \A k \in DOMAIN loads :
        loads[k].at = "read" /\ ~loads[k].late /\ loads[k].got # file =>
            Coming \/ \E j \in DOMAIN loads : j > k /\ Current(j)

TInv == TypeOK /\ InstInv
News == LoadsInv /\ NothingMissed
IInv == TInv /\ News

-----------------------------------------------------------------------------
(* Types *)

LEMMA Typed ==
  TypeOK <=> /\ cur \in {0} \cup Insts /\ file \in 1..MaxChanges + 1
             /\ inst \in [Insts -> Instance]
             /\ call \in [Callers -> {"idle", "dispose", "load"}]
             /\ page \in Page /\ loads \in Seq(Loading) /\ Len(loads) <= MaxLoads
             /\ early \subseteq Insts /\ stale \in BOOLEAN
             /\ \A i, j \in Insts : inst[i].wss /\ inst[j].wss => i = j
BY DEF TypeOK, Instance, Page, Loading

LEMMA PageEvents ==
  ASSUME page \in Page
  PROVE  /\ [page EXCEPT !.wire = TRUE] \in Page
         /\ [page EXCEPT !.wire = TRUE].wire = TRUE
         /\ \A f \in {"on", "sock", "to", "retry", "refresh", "shown", "failed"} :
              [page EXCEPT !.wire = TRUE][f] = page[f]
BY DEF Page

\* One instance moves on, and may tell the page.
LEMMA InstMoves ==
  ASSUME TInv, NEW i \in Insts, NEW w \in Instance, inst' = [inst EXCEPT ![i] = w],
         Good(w, i \in early'), early \subseteq early', early' \subseteq Insts,
         w.wss /\ ~inst[i].wss => \A j \in Insts : ~inst[j].wss,
         inst[i].at = "up" => w.at = "up",
         cur' \in {0} \cup Insts, cur' # 0 => inst'[cur'].at # "new",
         page' \in {page, [page EXCEPT !.wire = TRUE]},
         call' \in [Callers -> {"idle", "dispose", "load"}],
         UNCHANGED <<file, loads, stale>>
  PROVE  TInv'
<1>1. /\ cur \in {0} \cup Insts /\ file \in 1..MaxChanges + 1
      /\ inst \in [Insts -> Instance] /\ page \in Page
      /\ loads \in Seq(Loading) /\ Len(loads) <= MaxLoads /\ stale \in BOOLEAN
      /\ \A j, k \in Insts : inst[j].wss /\ inst[k].wss => j = k
  BY Typed DEF TInv
<1>2. /\ inst' \in [Insts -> Instance]
      /\ \A j \in Insts : inst'[j] = IF j = i THEN w ELSE inst[j]
  BY <1>1
<1>3. page' \in Page /\ page'.sock = page.sock /\ page'.to = page.to
  BY <1>1, PageEvents
<1>4. Page' = Page /\ Loading' = Loading /\ Instance' = Instance
  BY DEF Page, Loading, Instance
<1>5. \A j, k \in Insts : inst'[j].wss /\ inst'[k].wss => j = k
  BY <1>1, <1>2
<1>6. TypeOK'
  <2>1. /\ cur' \in {0} \cup Insts /\ file' \in 1..MaxChanges + 1
        /\ page' \in Page' /\ loads' \in Seq(Loading') /\ Len(loads') <= MaxLoads
        /\ stale' \in BOOLEAN /\ inst' \in [Insts -> Instance']
    BY <1>1, <1>2, <1>3, <1>4
  <2>2. QED
    BY <1>5, <2>1 DEF TypeOK, Page, Loading, Instance
<1>7. \A j \in Insts : Good(inst'[j], j \in early')
  BY <1>2 DEF TInv, InstInv, Good
<1>8. page'.sock = "open" => page'.to \in Insts /\ inst'[page'.to].at = "up"
  BY <1>2, <1>3 DEF TInv, InstInv
<1>9. InstInv'
  BY <1>7, <1>8 DEF InstInv, Good
<1>10. QED
  BY <1>6, <1>9 DEF TInv

\* Such a step leaves an update on its way, unless it takes the last reason away silently.
LEMMA InstKeeps ==
  ASSUME TInv, NEW i \in Insts, NEW w \in Instance, inst' = [inst EXCEPT ![i] = w],
         page' \in {page, [page EXCEPT !.wire = TRUE]},
         \/ page.sock # "open" \/ page.to # i \/ page'.wire
         \/ /\ inst[i].debounce => w.debounce \/ ~w.wss
            /\ ~inst[i].told => ~w.told /\ w.polls >= inst[i].polls
            /\ ~inst[i].wss => ~w.wss
  PROVE  Coming => Coming'
<1>1. page \in Page /\ inst \in [Insts -> Instance]
  BY Typed DEF TInv
<1>2. /\ page'.sock = page.sock /\ page'.to = page.to /\ page'.refresh = page.refresh
      /\ page.wire => page'.wire
  BY <1>1, PageEvents
<1>3. \A j \in Insts : inst'[j] = IF j = i THEN w ELSE inst[j]
  BY <1>1
<1>4. page.sock = "open" => page.to \in Insts
  BY DEF TInv, InstInv
<1>5. w.polls \in Nat /\ \A j \in Insts : inst[j].polls \in Nat
  BY <1>1, ConsoleAssumption DEF Instance
<1>6. QED
  BY <1>2, <1>3, <1>4, <1>5 DEF Coming, Orphaned

\* What the page shows and loads does not change, and what was on its way still is.
LEMMA NewsKept ==
  ASSUME TInv, News, Coming => Coming', UNCHANGED <<loads, file, stale>>,
         page'.on => page.on, page'.shown = page.shown, page'.failed <=> page.failed
  PROVE  News'
<1>1. \A k \in DOMAIN loads : Current(k)' <=> Current(k)
  BY DEF Current
<1>2. LoadsInv'
  BY <1>1 DEF News, LoadsInv
<1>3. NothingMissed'
  <2>1. SUFFICES ASSUME page'.on, page'.shown # file' PROVE NothingMissed'
    BY DEF NothingMissed
  <2>2. Coming \/ (\E k \in DOMAIN loads : Current(k)) \/ stale \/ page.failed
    BY <2>1 DEF News, NothingMissed, Coming, Current
  <2>3. Coming' \/ (\E k \in DOMAIN loads' : Current(k)') \/ stale' \/ page'.failed
    BY <1>1, <2>2
  <2>4. QED
    BY <2>3 DEF NothingMissed, Coming, Current
<1>4. QED
  BY <1>2, <1>3 DEF News

LEMMA NewsComing == Coming' => News'
BY DEF News, LoadsInv, NothingMissed, Coming

-----------------------------------------------------------------------------
(* The service *)

\* One instance moves on silently, or tells the page: both lemmas at once.
LEMMA InstStep ==
  ASSUME TInv, News, NEW i \in Insts, NEW w \in Instance, inst' = [inst EXCEPT ![i] = w],
         Good(w, i \in early'), early \subseteq early', early' \subseteq Insts,
         w.wss /\ ~inst[i].wss => \A j \in Insts : ~inst[j].wss,
         inst[i].at = "up" => w.at = "up",
         cur' \in {0} \cup Insts, cur' # 0 => inst'[cur'].at # "new",
         page' \in {page, [page EXCEPT !.wire = TRUE]},
         call' \in [Callers -> {"idle", "dispose", "load"}],
         UNCHANGED <<file, loads, stale>>,
         \/ page.sock # "open" \/ page.to # i \/ page'.wire
         \/ /\ inst[i].debounce => w.debounce \/ ~w.wss
            /\ ~inst[i].told => ~w.told /\ w.polls >= inst[i].polls
            /\ ~inst[i].wss => ~w.wss
  PROVE  TInv' /\ News'
<1>1. TInv'
  BY InstMoves
<1>2. Coming => Coming'
  BY InstKeeps
<1>3. page \in Page
  BY Typed DEF TInv
<1>4. page'.on = page.on /\ page'.shown = page.shown /\ page'.failed = page.failed
  BY <1>3, PageEvents
<1>5. News'
  BY <1>2, <1>4, NewsKept
<1>6. QED
  BY <1>1, <1>5

LEMMA Parts ==
  ASSUME TInv, NEW i \in Insts
  PROVE  /\ inst \in [Insts -> Instance] /\ inst[i] \in Instance
         /\ call \in [Callers -> {"idle", "dispose", "load"}]
         /\ page \in Page /\ page \in {page, [page EXCEPT !.wire = TRUE]}
         /\ early \subseteq Insts /\ Good(inst[i], i \in early)
         /\ cur \in {0} \cup Insts /\ (cur # 0 => inst[cur].at # "new")
         /\ page.sock = "open" => page.to \in Insts /\ inst[page.to].at = "up"
BY Typed DEF TInv, InstInv

LEMMA InitDoneKeeps ==
  ASSUME TInv, News, NEW i \in Insts, InitDone(i)
  PROVE  TInv' /\ News'
<1> DEFINE free == \A j \in Insts : ~inst[j].wss
           w == [inst[i] EXCEPT !.at = "up", !.watch = TRUE, !.polls = 1, !.child = "up",
                                !.wss = free]
<1>1. inst \in [Insts -> Instance] /\ inst[i] \in Instance /\ Good(inst[i], i \in early)
      /\ inst[i].at = "init"
  BY Parts DEF InitDone
<1>2. inst' = [inst EXCEPT ![i] = w]
  BY <1>1 DEF InitDone
<1>3. free \in BOOLEAN
  BY <1>1
<1>4. /\ w \in Instance /\ w.at = "up" /\ w.watch /\ w.polls = 1 /\ (w.wss <=> free)
      /\ w.stops = inst[i].stops
  <2> HIDE DEF free
  <2>1. 1 \in 0..MaxPolls
    BY ConsoleAssumption
  <2>2. QED
    BY <1>1, <1>3, <2>1 DEF Instance
<1> HIDE DEF free, w
<1>5. Good(w, i \in early')
  BY <1>1, <1>4 DEF Good, InitDone
<1>6. page.sock = "open" => page.to # i
  BY <1>1, Parts
<1>7. w.wss /\ ~inst[i].wss => \A j \in Insts : ~inst[j].wss
  BY <1>4 DEF free
<1>8. cur' = cur /\ (cur # 0 => inst'[cur].at # "new")
  BY <1>1, <1>2, <1>4, Parts DEF InitDone
<1>9. UNCHANGED <<cur, call, file, page, loads, early, stale>>
  BY DEF InitDone
<1>10. QED
  BY <1>1, <1>2, <1>4, <1>5, <1>6, <1>7, <1>8, <1>9, InstStep, Parts

LEMMA ChildExitsKeeps ==
  ASSUME TInv, News, NEW i \in Insts, ChildExits(i)
  PROVE  TInv' /\ News'
<1> DEFINE again == inst[i].child = "up" /\ ~inst[i].stops /\ inst[i].restarts < MaxRestarts
           n == IF again THEN inst[i].restarts + 1 ELSE inst[i].restarts
           w == [inst[i] EXCEPT !.child = "none", !.delay = again, !.restarts = n]
<1>1. inst \in [Insts -> Instance] /\ inst[i] \in Instance /\ Good(inst[i], i \in early)
  BY Parts
<1>2. inst' = [inst EXCEPT ![i] = w]
  BY <1>1 DEF ChildExits
<1>3. n \in 0..MaxRestarts
  BY <1>1, ConsoleAssumption DEF Instance
<1>4. again \in BOOLEAN
  BY <1>1
<1>5. /\ w \in Instance /\ w.child = "none" /\ w.at = inst[i].at /\ w.told = inst[i].told
      /\ w.polls = inst[i].polls /\ w.wss = inst[i].wss /\ w.watch = inst[i].watch
      /\ w.stops = inst[i].stops /\ w.debounce = inst[i].debounce
  <2> HIDE DEF again, n
  <2>1. QED
    BY <1>1, <1>3, <1>4 DEF Instance
<1> HIDE DEF again, n, w
<1>6. UNCHANGED <<cur, call, file, page, loads, early, stale>>
  BY DEF ChildExits
<1>7. Good(w, i \in early')
  BY <1>1, <1>5, <1>6 DEF Good
<1>8. cur # 0 => inst'[cur].at # "new"
  BY <1>1, <1>2, <1>5, Parts
<1>9. w.polls >= inst[i].polls
  BY <1>1, <1>5, ConsoleAssumption DEF Instance
<1>10. QED
  BY <1>1, <1>2, <1>5, <1>6, <1>7, <1>8, <1>9, InstStep, Parts

LEMMA RespawnKeeps ==
  ASSUME TInv, News, NEW i \in Insts, Respawn(i)
  PROVE  TInv' /\ News'
<1> DEFINE c == IF inst[i].stops THEN inst[i].child ELSE "up"
           w == [inst[i] EXCEPT !.delay = FALSE, !.child = c]
<1>1. inst \in [Insts -> Instance] /\ inst[i] \in Instance /\ Good(inst[i], i \in early)
  BY Parts
<1>2. inst' = [inst EXCEPT ![i] = w]
  BY <1>1 DEF Respawn
<1>3. c \in {"none", "up", "dying"} /\ (inst[i].stops => c = inst[i].child)
  BY <1>1 DEF Instance
<1>4. /\ w \in Instance /\ w.child = c /\ w.at = inst[i].at /\ w.told = inst[i].told
      /\ w.polls = inst[i].polls /\ w.wss = inst[i].wss /\ w.watch = inst[i].watch
      /\ w.stops = inst[i].stops /\ w.debounce = inst[i].debounce
  <2> HIDE DEF c
  <2>1. QED
    BY <1>1, <1>3 DEF Instance
<1> HIDE DEF c, w
<1>5. UNCHANGED <<cur, call, file, page, loads, early, stale>>
  BY DEF Respawn
<1>6. Good(w, i \in early')
  BY <1>1, <1>3, <1>4, <1>5 DEF Good
<1>7. cur # 0 => inst'[cur].at # "new"
  BY <1>1, <1>2, <1>4, Parts
<1>8. w.polls >= inst[i].polls
  BY <1>1, <1>4, ConsoleAssumption DEF Instance
<1>9. QED
  BY <1>1, <1>2, <1>4, <1>5, <1>6, <1>7, <1>8, InstStep, Parts

LEMMA PollKeeps ==
  ASSUME TInv, News, NEW i \in Insts, Poll(i)
  PROVE  TInv' /\ News'
<1> DEFINE n == inst[i].polls + 1
           w == [inst[i] EXCEPT !.polls = n]
<1>1. inst \in [Insts -> Instance] /\ inst[i] \in Instance /\ Good(inst[i], i \in early)
      /\ inst[i].polls < MaxPolls
  BY Parts DEF Poll
<1>2. inst' = [inst EXCEPT ![i] = w]
  BY <1>1 DEF Poll
<1>3. n \in 0..MaxPolls /\ n > 0 /\ n >= inst[i].polls
  BY <1>1, ConsoleAssumption DEF Instance
<1>4. /\ w \in Instance /\ w.child = inst[i].child /\ w.at = inst[i].at /\ w.told = inst[i].told
      /\ w.polls = n /\ w.wss = inst[i].wss /\ w.watch = inst[i].watch
      /\ w.stops = inst[i].stops /\ w.debounce = inst[i].debounce
  <2> HIDE DEF n
  <2>1. QED
    BY <1>1, <1>3 DEF Instance
<1> HIDE DEF n, w
<1>5. UNCHANGED <<cur, call, file, page, loads, early, stale>>
  BY DEF Poll
<1>6. Good(w, i \in early')
  BY <1>1, <1>3, <1>4, <1>5 DEF Good
<1>7. cur # 0 => inst'[cur].at # "new"
  BY <1>1, <1>2, <1>4, Parts
<1>8. QED
  BY <1>1, <1>2, <1>3, <1>4, <1>5, <1>6, <1>7, InstStep, Parts

\* What a broadcast does to the page.
LEMMA BroadcastTells ==
  ASSUME TInv, NEW i \in Insts, Broadcast(i)
  PROVE  /\ page' \in {page, [page EXCEPT !.wire = TRUE]}
         /\ page.sock # "open" \/ page.to # i \/ page'.wire
<1>1. page \in Page
  BY Typed DEF TInv
<1>2. QED
  BY <1>1, PageEvents DEF Broadcast, Listens

LEMMA PolledKeeps ==
  ASSUME TInv, News, NEW i \in Insts, Polled(i)
  PROVE  TInv' /\ News'
<1> DEFINE n == inst[i].polls - 1
           w == [inst[i] EXCEPT !.polls = n, !.told = TRUE]
<1>1. inst \in [Insts -> Instance] /\ inst[i] \in Instance /\ Good(inst[i], i \in early)
      /\ inst[i].polls > 0
  BY Parts DEF Polled
<1>2. inst' = [inst EXCEPT ![i] = w]
  BY <1>1 DEF Polled
<1>3. n \in 0..MaxPolls
  BY <1>1, ConsoleAssumption DEF Instance
<1>4. /\ w \in Instance /\ w.child = inst[i].child /\ w.at = inst[i].at /\ w.told
      /\ w.wss = inst[i].wss /\ w.watch = inst[i].watch
      /\ w.stops = inst[i].stops /\ w.debounce = inst[i].debounce
  <2> HIDE DEF n
  <2>1. QED
    BY <1>1, <1>3 DEF Instance
<1> HIDE DEF n, w
<1>5. UNCHANGED <<cur, call, file, loads, early, stale>>
  BY DEF Polled
<1>6. Good(w, i \in early')
  BY <1>1, <1>4, <1>5 DEF Good
<1>7. cur # 0 => inst'[cur].at # "new"
  BY <1>1, <1>2, <1>4, Parts
<1>8. /\ page' \in {page, [page EXCEPT !.wire = TRUE]}
      /\ page.sock # "open" \/ page.to # i \/ page'.wire \/ inst[i].told
  BY BroadcastTells DEF Polled
<1>9. QED
  BY <1>1, <1>2, <1>4, <1>5, <1>6, <1>7, <1>8, InstStep, Parts

LEMMA DebouncedKeeps ==
  ASSUME TInv, News, NEW i \in Insts, Debounced(i)
  PROVE  TInv' /\ News'
<1> DEFINE w == [inst[i] EXCEPT !.debounce = FALSE]
<1>1. inst \in [Insts -> Instance] /\ inst[i] \in Instance /\ Good(inst[i], i \in early)
  BY Parts
<1>2. inst' = [inst EXCEPT ![i] = w]
  BY <1>1 DEF Debounced
<1>3. /\ w \in Instance /\ w.child = inst[i].child /\ w.at = inst[i].at /\ w.told = inst[i].told
      /\ w.polls = inst[i].polls /\ w.wss = inst[i].wss /\ w.watch = inst[i].watch
      /\ w.stops = inst[i].stops
  BY <1>1 DEF Instance
<1> HIDE DEF w
<1>4. UNCHANGED <<cur, call, file, loads, early, stale>>
  BY DEF Debounced
<1>5. Good(w, i \in early')
  BY <1>1, <1>3, <1>4 DEF Good
<1>6. cur # 0 => inst'[cur].at # "new"
  BY <1>1, <1>2, <1>3, Parts
<1>7. /\ page' \in {page, [page EXCEPT !.wire = TRUE]}
      /\ page.sock # "open" \/ page.to # i \/ page'.wire
  BY BroadcastTells DEF Debounced
<1>8. QED
  BY <1>1, <1>2, <1>3, <1>4, <1>5, <1>6, <1>7, InstStep, Parts

LEMMA DisposedGood ==
  ASSUME NEW v \in Instance, NEW i, NEW E, Good(v, i \in E), v.at # "new"
  PROVE  /\ Disposed(v) \in Instance /\ Good(Disposed(v), i \in E \/ v.at = "init")
         /\ Disposed(v).at = v.at /\ ~Disposed(v).wss
         /\ Disposed(v).told = v.told /\ Disposed(v).polls = v.polls
<1>1. 0 \in 0..MaxRestarts
  BY ConsoleAssumption
<1> QED BY <1>1 DEF Disposed, Instance, Good

LEMMA RestartKeeps ==
  ASSUME TInv, News, NEW r \in Callers, Restart(r)
  PROVE  TInv' /\ News'
<1>1. /\ call' = [call EXCEPT ![r] = "dispose"]
      /\ UNCHANGED <<cur, file, page, loads, stale>>
  BY DEF Restart
<1>2. call' \in [Callers -> {"idle", "dispose", "load"}]
  BY <1>1, Typed DEF TInv
<1>3. CASE cur = 0
  <2>1. UNCHANGED <<inst, early>>
    BY <1>3 DEF Restart
  <2>2. TInv'
    BY <1>1, <1>2, <2>1 DEF TInv, TypeOK, InstInv
  <2>3. Coming => Coming'
    BY <1>1, <2>1 DEF Coming, Orphaned
  <2>4. QED
    BY <1>1, <2>2, <2>3, NewsKept
<1>4. CASE cur # 0
  <2> DEFINE w == Disposed(inst[cur])
  <2>1. cur \in Insts
    BY <1>4, Typed DEF TInv
  <2>2. /\ inst \in [Insts -> Instance] /\ inst[cur] \in Instance /\ Good(inst[cur], cur \in early)
        /\ inst[cur].at # "new" /\ early \subseteq Insts
    BY <1>4, <2>1, Parts
  <2>3. /\ inst' = [inst EXCEPT ![cur] = w]
        /\ early' = early \cup {i \in {cur} : inst[i].at = "init"}
    BY <1>4, <2>2 DEF Restart
  <2>4. /\ w \in Instance /\ Good(w, (cur \in early) \/ inst[cur].at = "init")
        /\ w.at = inst[cur].at /\ ~w.wss /\ w.told = inst[cur].told /\ w.polls = inst[cur].polls
    BY <2>2, DisposedGood
  <2> HIDE DEF w
  <2>5. cur \in early' <=> (cur \in early \/ inst[cur].at = "init")
    BY <2>3
  <2>6. Good(w, cur \in early')
    BY <2>4, <2>5 DEF Good
  <2>7. early \subseteq early' /\ early' \subseteq Insts
    BY <2>1, <2>2, <2>3
  <2>8. cur' \in {0} \cup Insts /\ (cur' # 0 => inst'[cur'].at # "new")
    BY <1>1, <2>1, <2>2, <2>3, <2>4
  <2>9. w.polls >= inst[cur].polls
    BY <2>2, <2>4, ConsoleAssumption DEF Instance
  <2>10. QED
    BY <1>1, <1>2, <2>1, <2>2, <2>3, <2>4, <2>6, <2>7, <2>8, <2>9, InstStep
<1>5. QED
  BY <1>3, <1>4

LEMMA UnloadedKeeps ==
  ASSUME TInv, News, NEW r \in Callers, Unloaded(r)
  PROVE  TInv' /\ News'
<1>1. /\ call' = [call EXCEPT ![r] = "load"] /\ cur' = 0
      /\ UNCHANGED <<inst, file, page, loads, early, stale>>
  BY DEF Unloaded
<1>2. call' \in [Callers -> {"idle", "dispose", "load"}]
  BY <1>1, Typed DEF TInv
<1>3. TInv'
  BY <1>1, <1>2 DEF TInv, TypeOK, InstInv
<1>4. Coming => Coming'
  BY <1>1 DEF Coming, Orphaned
<1>5. QED
  BY <1>1, <1>3, <1>4, NewsKept

LEMMA LoadKeeps ==
  ASSUME TInv, News, NEW r \in Callers, Load(r)
  PROVE  TInv' /\ News'
<1>1. PICK i \in Insts : /\ inst[i].at = "new" /\ cur' = i
                         /\ inst' = [inst EXCEPT ![i].at = "init"]
  BY DEF Load
<1>2. /\ call' = [call EXCEPT ![r] = "idle"]
      /\ UNCHANGED <<file, page, loads, early, stale>>
  BY DEF Load
<1>3. call' \in [Callers -> {"idle", "dispose", "load"}]
  BY <1>2, Typed DEF TInv
<1> DEFINE w == [inst[i] EXCEPT !.at = "init"]
<1>4. inst \in [Insts -> Instance] /\ inst[i] \in Instance /\ Good(inst[i], i \in early)
      /\ early \subseteq Insts
  BY Parts
<1>5. inst' = [inst EXCEPT ![i] = w]
  BY <1>1, <1>4
<1>6. /\ w \in Instance /\ w.at = "init" /\ w.stops = inst[i].stops /\ w.wss = inst[i].wss
      /\ w.child = inst[i].child
  BY <1>4 DEF Instance
<1> HIDE DEF w
<1>7. Good(w, i \in early')
  BY <1>1, <1>2, <1>4, <1>6 DEF Good
<1>8. page.sock = "open" => page.to # i
  BY <1>1, Parts
<1>9. inst'[cur'].at # "new" /\ cur' \in {0} \cup Insts
  BY <1>1, <1>4, <1>5, <1>6
<1>10. QED
  BY <1>1, <1>2, <1>3, <1>4, <1>5, <1>6, <1>7, <1>8, <1>9, InstStep

-----------------------------------------------------------------------------
(* The data directory and the page *)

LEMMA ChangeKeeps == TInv /\ News /\ Change => TInv' /\ News'
<1> SUFFICES ASSUME TInv, News, Change PROVE TInv' /\ News'
  OBVIOUS
<1>1. /\ file <= MaxChanges /\ file' = file + 1
      /\ UNCHANGED <<cur, call, page, loads, early, stale>>
      /\ inst' = [i \in Insts |-> IF inst[i].watch THEN [inst[i] EXCEPT !.debounce = TRUE]
                                  ELSE inst[i]]
  BY DEF Change
<1>2. /\ cur \in {0} \cup Insts /\ file \in 1..MaxChanges + 1
      /\ inst \in [Insts -> Instance]
      /\ call \in [Callers -> {"idle", "dispose", "load"}]
      /\ page \in Page /\ loads \in Seq(Loading) /\ Len(loads) <= MaxLoads
      /\ early \subseteq Insts /\ stale \in BOOLEAN
      /\ \A i, j \in Insts : inst[i].wss /\ inst[j].wss => i = j
  BY Typed DEF TInv
<1>3. \A v \in Instance : LET w == [v EXCEPT !.debounce = TRUE] IN
        /\ w \in Instance /\ w.debounce /\ w.at = v.at /\ w.stops = v.stops /\ w.wss = v.wss
        /\ w.watch = v.watch /\ w.child = v.child /\ w.polls = v.polls /\ w.told = v.told
  BY DEF Instance
<1>4. \A i \in Insts :
        /\ inst'[i] \in Instance
        /\ inst'[i].at = inst[i].at /\ inst'[i].stops = inst[i].stops /\ inst'[i].wss = inst[i].wss
        /\ inst'[i].watch = inst[i].watch /\ inst'[i].child = inst[i].child
        /\ inst'[i].polls = inst[i].polls /\ inst'[i].told = inst[i].told
        /\ inst[i].watch => inst'[i].debounce
  BY <1>1, <1>2, <1>3
<1>5. inst' \in [Insts -> Instance]
  BY <1>1, <1>4
<1>6. file \in Nat /\ file' \in 1..MaxChanges + 1 /\ 0..file \subseteq 0..file'
  BY <1>1, <1>2, ConsoleAssumption
<1>7. page' \in Page' /\ loads' \in Seq(Loading')
  <2>1. Page \subseteq Page' /\ Loading \subseteq Loading'
    BY <1>6 DEF Page, Loading
  <2>2. loads \in Seq(Loading')
    BY <1>2, <2>1
  <2>3. QED
    BY <1>1, <1>2, <2>1, <2>2
<1>8. TypeOK'
  <2>1. Instance' = Instance
    BY DEF Instance
  <2>2. \A i, j \in Insts : inst'[i].wss /\ inst'[j].wss => i = j
    BY <1>2, <1>4
  <2>3. QED
    BY <1>1, <1>2, <1>5, <1>6, <1>7, <2>1, <2>2 DEF TypeOK, Instance, Page, Loading
<1>9. InstInv'
  BY <1>1, <1>2, <1>4 DEF TInv, InstInv, Good
<1>10. Coming'
  <2>1. SUFFICES ASSUME page.sock = "open", inst'[page.to].wss PROVE inst'[page.to].debounce
    BY <1>1 DEF Coming, Orphaned
  <2>2. page.to \in Insts
    BY <2>1 DEF TInv, InstInv
  <2>3. inst[page.to].watch
    BY <1>4, <2>1, <2>2 DEF TInv, InstInv, Good
  <2>4. QED
    BY <1>4, <2>2, <2>3
<1>11. QED
  BY <1>8, <1>9, <1>10, NewsComing DEF TInv

\* The page's own state changes.
LEMMA PageMoves ==
  ASSUME TInv, page' \in Page, loads' \in Seq(Loading), Len(loads') <= MaxLoads,
         stale' \in BOOLEAN, page'.sock = "open" => page'.to \in Insts /\ inst[page'.to].at = "up",
         UNCHANGED <<cur, inst, call, file, early>>
  PROVE  TInv'
<1>1. Page' = Page /\ Loading' = Loading /\ Instance' = Instance
  BY DEF Page, Loading, Instance
<1>2. TypeOK'
  BY <1>1 DEF TInv, TypeOK, Page, Loading, Instance
<1>3. InstInv'
  BY DEF TInv, InstInv
<1>4. QED
  BY <1>2, <1>3 DEF TInv

LEMMA AskKeeps ==
  ASSUME TInv, Ask
  PROVE  /\ loads' \in Seq(Loading) /\ Len(loads') <= MaxLoads
         /\ DOMAIN loads = 1..Len(loads) /\ DOMAIN loads' = 1..Len(loads) + 1
         /\ \A k \in DOMAIN loads : loads'[k] = loads[k]
         /\ loads'[Len(loads) + 1] = Asked /\ Len(loads) + 1 \in DOMAIN loads'
         /\ \A k \in DOMAIN loads : k < Len(loads) + 1
<1>1. /\ loads \in Seq(Loading) /\ Len(loads) < MaxLoads /\ loads' = Append(loads, Asked)
      /\ file \in 1..MaxChanges + 1
  BY Typed DEF TInv, Ask
<1>2. Asked \in Loading
  BY <1>1, ConsoleAssumption DEF Asked, Loading
<1>3. QED
  BY <1>1, <1>2, ConsoleAssumption

LEMMA OpenKeeps == TInv /\ News /\ Open => TInv' /\ News'
<1> SUFFICES ASSUME TInv, News, Open PROVE TInv' /\ News'
  OBVIOUS
<1>1. page' = [Off EXCEPT !.on = TRUE, !.sock = "connecting"] /\ Ask
      /\ UNCHANGED <<cur, inst, call, file, early, stale>>
  BY DEF Open
<1>2. page' \in Page /\ page'.sock = "connecting"
  <2>1. file \in 1..MaxChanges + 1
    BY Typed DEF TInv
  <2>2. 0 \in 0..file
    BY <2>1, ConsoleAssumption
  <2>3. QED
    BY <1>1, <2>2 DEF Off, Page
<1>3. stale' \in BOOLEAN
  BY <1>1, Typed DEF TInv
<1>4. TInv'
  BY <1>1, <1>2, <1>3, AskKeeps, PageMoves
<1>5. Coming'
  BY <1>2 DEF Coming
<1>6. QED
  BY <1>4, <1>5, NewsComing

LEMMA CloseKeeps == TInv /\ News /\ Close => TInv' /\ News'
<1> SUFFICES ASSUME TInv, News, Close PROVE TInv' /\ News'
  OBVIOUS
<1>1. page' = Off /\ loads' = <<>> /\ stale' = FALSE /\ UNCHANGED <<cur, inst, call, file, early>>
  BY DEF Close
<1>2. page' \in Page /\ page'.sock = "none"
  <2>1. file \in 1..MaxChanges + 1
    BY Typed DEF TInv
  <2>2. 0 \in 0..file
    BY <2>1, ConsoleAssumption
  <2>3. QED
    BY <1>1, <2>2 DEF Off, Page
<1>3. loads' \in Seq(Loading) /\ Len(loads') <= MaxLoads
  BY <1>1, ConsoleAssumption
<1>4. TInv'
  BY <1>1, <1>2, <1>3, PageMoves
<1>5. Coming'
  BY <1>2 DEF Coming
<1>6. QED
  BY <1>4, <1>5, NewsComing

\* The page's socket and timers move; what it shows and loads does not.
LEMMA SocketStep ==
  ASSUME TInv, News, page' \in Page, UNCHANGED <<cur, inst, call, file, loads, early, stale>>,
         page'.sock = "open" => page'.to \in Insts /\ inst[page'.to].at = "up",
         page'.on = page.on, page'.shown = page.shown, page'.failed = page.failed,
         Coming => Coming'
  PROVE  TInv' /\ News'
<1>1. loads \in Seq(Loading) /\ Len(loads) <= MaxLoads /\ stale \in BOOLEAN
  BY Typed DEF TInv
<1>2. TInv'
  BY <1>1, PageMoves
<1>3. QED
  BY <1>2, NewsKept

LEMMA ConnectKeeps == TInv /\ News /\ Connect => TInv' /\ News'
<1> SUFFICES ASSUME TInv, News, Connect PROVE TInv' /\ News'
  OBVIOUS
<1>1. page \in Page /\ inst \in [Insts -> Instance]
      /\ UNCHANGED <<cur, inst, call, file, loads, early, stale>>
  BY Typed DEF TInv, Connect
<1>2. CASE page' = [page EXCEPT !.sock = "none", !.retry = TRUE]
  <2>1. page' \in Page /\ page'.sock = "none" /\ page'.on = page.on /\ page'.shown = page.shown
        /\ page'.failed = page.failed
    BY <1>1, <1>2 DEF Page
  <2>2. Coming'
    BY <2>1 DEF Coming
  <2>3. QED
    BY <1>1, <2>1, <2>2, SocketStep
<1>3. ASSUME NEW i \in Insts, inst[i].wss,
             page' = [page EXCEPT !.sock = "open", !.to = i, !.wire = inst[i].told]
      PROVE  TInv' /\ News'
  <2>1. inst[i].told \in BOOLEAN /\ inst[i].at = "up" /\ (~inst[i].told => inst[i].polls > 0)
    BY <1>1, <1>3 DEF Instance, TInv, InstInv, Good
  <2>2. /\ page' \in Page /\ page'.sock = "open" /\ page'.to = i /\ page'.wire = inst[i].told
        /\ page'.on = page.on /\ page'.shown = page.shown /\ page'.failed = page.failed
    BY <1>1, <1>3, <2>1 DEF Page
  <2>3. Coming'
    BY <1>1, <2>1, <2>2 DEF Coming
  <2>4. QED
    BY <1>1, <2>1, <2>2, <2>3, SocketStep
<1>4. QED
  BY <1>2, <1>3 DEF Connect

LEMMA DropKeeps == TInv /\ News /\ Drop => TInv' /\ News'
<1> SUFFICES ASSUME TInv, News, Drop PROVE TInv' /\ News'
  OBVIOUS
<1>1. page \in Page /\ UNCHANGED <<cur, inst, call, file, loads, early, stale>>
      /\ page' = [page EXCEPT !.sock = "none", !.to = 0, !.wire = FALSE, !.retry = TRUE]
  BY Typed DEF TInv, Drop
<1>2. page' \in Page /\ page'.sock = "none" /\ page'.on = page.on /\ page'.shown = page.shown
      /\ page'.failed = page.failed
  BY <1>1 DEF Page
<1>3. Coming'
  BY <1>2 DEF Coming
<1>4. QED
  BY <1>1, <1>2, <1>3, SocketStep

LEMMA ReconnectKeeps == TInv /\ News /\ Reconnect => TInv' /\ News'
<1> SUFFICES ASSUME TInv, News, Reconnect PROVE TInv' /\ News'
  OBVIOUS
<1>1. page \in Page /\ UNCHANGED <<cur, inst, call, file, loads, early, stale>>
      /\ page' = [page EXCEPT !.retry = FALSE, !.sock = "connecting"]
  BY Typed DEF TInv, Reconnect
<1>2. page' \in Page /\ page'.sock = "connecting" /\ page'.on = page.on
      /\ page'.shown = page.shown /\ page'.failed = page.failed
  BY <1>1 DEF Page
<1>3. Coming'
  BY <1>2 DEF Coming
<1>4. QED
  BY <1>1, <1>2, <1>3, SocketStep

LEMMA ReceiveKeeps == TInv /\ News /\ Receive => TInv' /\ News'
<1> SUFFICES ASSUME TInv, News, Receive PROVE TInv' /\ News'
  OBVIOUS
<1>1. page \in Page /\ UNCHANGED <<cur, inst, call, file, loads, early, stale>>
      /\ page' = [page EXCEPT !.wire = FALSE, !.refresh = TRUE]
  BY Typed DEF TInv, Receive
<1>2. /\ page' \in Page /\ page'.sock = page.sock /\ page'.to = page.to /\ page'.on = page.on
      /\ page'.shown = page.shown /\ page'.failed = page.failed /\ page'.refresh
  BY <1>1 DEF Page
<1>3. Coming' /\ (page'.sock = "open" => page'.to \in Insts /\ inst[page'.to].at = "up")
  BY <1>2 DEF Coming, TInv, InstInv
<1>4. QED
  BY <1>1, <1>2, <1>3, SocketStep

\* A load asked for now will read what is on disk.
LEMMA RefreshKeeps == TInv /\ News /\ Refresh => TInv' /\ News'
<1> SUFFICES ASSUME TInv, News, Refresh PROVE TInv' /\ News'
  OBVIOUS
<1>1. page \in Page /\ UNCHANGED <<cur, inst, call, file, early, stale>> /\ Ask
      /\ page' = [page EXCEPT !.refresh = FALSE]
  BY Typed DEF TInv, Refresh
<1>2. page' \in Page /\ page'.sock = page.sock /\ page'.to = page.to
  BY <1>1 DEF Page
<1>3. TInv'
  <2>1. stale' \in BOOLEAN
    BY <1>1, Typed DEF TInv
  <2>2. page'.sock = "open" => page'.to \in Insts /\ inst[page'.to].at = "up"
    BY <1>2 DEF TInv, InstInv
  <2>3. QED
    BY <1>1, <1>2, <2>1, <2>2, AskKeeps, PageMoves
<1>4. PICK n : n = Len(loads) + 1
  OBVIOUS
<1>5. /\ n \in DOMAIN loads' /\ loads'[n] = Asked /\ DOMAIN loads' = 1..n
      /\ DOMAIN loads = 1..Len(loads)
  BY <1>1, <1>4, AskKeeps
<1>6. Current(n)'
  BY <1>5 DEF Current, Asked
<1>7. NothingMissed'
  BY <1>5, <1>6 DEF NothingMissed, Current
<1>8. LoadsInv'
  <2>1. SUFFICES ASSUME NEW k \in DOMAIN loads', loads'[k].at = "read"
                 PROVE  \E j \in DOMAIN loads' : j > k /\ Current(j)'
    BY DEF LoadsInv
  <2>2. k # n
    BY <1>5, <2>1 DEF Asked
  <2>3. Len(loads) \in Nat
    BY Typed DEF TInv
  <2>4. k \in 1..n
    BY <1>5
  <2>5. n > k
    BY <1>4, <2>2, <2>3, <2>4
  <2>6. QED
    BY <1>5, <1>6, <2>5
<1>9. QED
  BY <1>3, <1>7, <1>8 DEF News

\* A load has been answered by the API route, or nobody was there to do so.
LEMMA ServeKeeps ==
  ASSUME TInv, News, NEW k \in DOMAIN loads, Serve(k)
  PROVE  TInv' /\ News'
<1>1. loads \in Seq(Loading) /\ Len(loads) <= MaxLoads /\ page \in Page /\ stale \in BOOLEAN
      /\ DOMAIN loads = 1..Len(loads) /\ file \in 0..file
  <2>1. file \in 1..MaxChanges + 1
    BY Typed DEF TInv
  <2>2. QED
    BY <2>1, Typed, ConsoleAssumption DEF TInv
<1>2. loads[k] \in Loading /\ loads[k].at = "asked"
      /\ UNCHANGED <<cur, inst, call, file, page, early, stale>>
  BY <1>1 DEF Serve
<1>3. PICK v \in {[loads[k] EXCEPT !.at = "read", !.got = file], [loads[k] EXCEPT !.at = "failed"]} :
        loads' = [loads EXCEPT ![k] = v]
  BY <1>1 DEF Serve
<1>4. v \in Loading /\ (v.late <=> loads[k].late) /\ v.at \in {"read", "failed"}
      /\ (v.at = "read" => v.got = file)
  BY <1>1, <1>2, <1>3 DEF Loading
<1>5. /\ loads' \in Seq(Loading) /\ Len(loads') = Len(loads) /\ DOMAIN loads' = DOMAIN loads
      /\ \A j \in DOMAIN loads : loads'[j] = IF j = k THEN v ELSE loads[j]
  BY <1>1, <1>3, <1>4
<1>6. TInv'
  <2>1. page.sock = "open" => page.to \in Insts /\ inst[page.to].at = "up"
    BY DEF TInv, InstInv
  <2>2. QED
    BY <1>1, <1>2, <1>5, <2>1, PageMoves
<1>7. \A j \in DOMAIN loads : Current(j) => Current(j)'
  BY <1>2, <1>4, <1>5 DEF Current
<1>8. Coming' <=> Coming
  BY <1>2 DEF Coming, Orphaned
<1>9. NothingMissed'
  <2>1. SUFFICES ASSUME page.on, page.shown # file PROVE NothingMissed'
    BY <1>2 DEF NothingMissed
  <2>2. Coming \/ (\E j \in DOMAIN loads : Current(j)) \/ stale \/ page.failed
    BY <2>1 DEF News, NothingMissed, Coming, Current
  <2>3. Coming' \/ (\E j \in DOMAIN loads' : Current(j)') \/ stale' \/ page'.failed
    BY <1>2, <1>5, <1>7, <1>8, <2>2
  <2>4. QED
    BY <2>3 DEF NothingMissed, Coming, Current
<1>10. LoadsInv'
  <2>1. SUFFICES ASSUME NEW j \in DOMAIN loads, loads'[j].at = "read", ~loads'[j].late,
                        loads'[j].got # file
                 PROVE  Coming \/ \E m \in DOMAIN loads : m > j /\ Current(m)
    BY <1>2, <1>5, <1>7, <1>8 DEF LoadsInv
  <2>2. j # k
    BY <1>4, <1>5, <2>1
  <2>3. QED
    BY <1>5, <2>1, <2>2 DEF News, LoadsInv
<1>11. QED
  BY <1>6, <1>9, <1>10 DEF News

\* What is left when one of the loads is taken out.
LEMMA RemovesOne ==
  ASSUME NEW S, NEW s \in Seq(S), NEW k \in 1..Len(s)
  PROVE  /\ RemoveAt(s, k) \in Seq(S) /\ Len(RemoveAt(s, k)) = Len(s) - 1
         /\ \A j \in 1..Len(s) - 1 : RemoveAt(s, k)[j] = IF j < k THEN s[j] ELSE s[j + 1]
<1> DEFINE a == SubSeq(s, 1, k - 1)
           b == SubSeq(s, k + 1, Len(s))
<1>1. Len(s) \in Nat /\ k \in Nat /\ 1 <= k /\ k <= Len(s)
  OBVIOUS
<1>2. a \in Seq(S) /\ Len(a) = k - 1 /\ \A j \in 1..k - 1 : a[j] = s[j]
  BY <1>1
<1>3. b \in Seq(S) /\ Len(b) = Len(s) - k /\ \A j \in 1..Len(s) - k : b[j] = s[j + k]
  BY <1>1
<1>4. RemoveAt(s, k) = a \o b
  BY DEF RemoveAt
<1> HIDE DEF a, b
<1>5. a \o b \in Seq(S) /\ Len(a \o b) = Len(s) - 1
  <2>1. a \o b \in Seq(S) /\ Len(a \o b) = Len(a) + Len(b)
    BY <1>2, <1>3, ConcatProperties
  <2>2. QED
    BY <1>1, <1>2, <1>3, <2>1
<1>6. ASSUME NEW j \in 1..Len(s) - 1
      PROVE  (a \o b)[j] = IF j < k THEN s[j] ELSE s[j + 1]
  <2>1. CASE j < k
    BY <1>1, <1>2, <1>3, <2>1
  <2>2. CASE ~(j < k)
    <3>1. (a \o b)[j] = b[j - (k - 1)] /\ j - (k - 1) \in 1..Len(s) - k
      BY <1>1, <1>2, <1>3, <2>2
    <3>2. b[j - (k - 1)] = s[j - (k - 1) + k] /\ j - (k - 1) + k = j + 1
      BY <1>1, <1>3, <3>1
    <3>3. QED
      BY <2>2, <3>1, <3>2
  <2>3. QED
    BY <2>1, <2>2
<1>7. QED
  BY <1>4, <1>5, <1>6

\* A response is shown: it is the last word, or something that will follow is on its way.
LEMMA AnsweredKeeps ==
  ASSUME TInv, News, NEW k \in DOMAIN loads, Answered(k)
  PROVE  TInv' /\ News'
<1>1. loads \in Seq(Loading) /\ Len(loads) <= MaxLoads /\ page \in Page /\ stale \in BOOLEAN
      /\ DOMAIN loads = 1..Len(loads) /\ Len(loads) \in Nat /\ k \in 1..Len(loads)
  BY Typed DEF TInv
<1>2. /\ loads[k] \in Loading /\ loads[k].at \in {"read", "failed"} /\ stale' = loads[k].late
      /\ UNCHANGED <<cur, inst, call, file, early>>
  BY <1>1 DEF Answered
<1>3. /\ page' = IF loads[k].at = "failed" THEN [page EXCEPT !.failed = TRUE]
                 ELSE [page EXCEPT !.failed = FALSE, !.shown = loads[k].got]
  BY DEF Answered
<1>4. /\ page' \in Page /\ page'.sock = page.sock /\ page'.to = page.to /\ page'.on = page.on
      /\ page'.refresh = page.refresh /\ page'.wire = page.wire
      /\ loads[k].at = "failed" => page'.failed
      /\ loads[k].at = "read" => page'.shown = loads[k].got
  BY <1>1, <1>2, <1>3 DEF Page, Loading
<1> DEFINE marked == [j \in DOMAIN loads |-> IF j < k THEN [loads[j] EXCEPT !.late = TRUE]
                                             ELSE loads[j]]
<1>5. /\ marked \in Seq(Loading) /\ Len(marked) = Len(loads)
      /\ \A j \in DOMAIN loads : /\ j < k => marked[j].late
                                 /\ j >= k => marked[j] = loads[j]
  <2>1. \A j \in DOMAIN loads : [loads[j] EXCEPT !.late = TRUE] \in Loading
                                /\ [loads[j] EXCEPT !.late = TRUE].late
    <3>1. \A v \in Loading : [v EXCEPT !.late = TRUE] \in Loading
                              /\ [v EXCEPT !.late = TRUE].late = TRUE
      BY DEF Loading
    <3>2. \A j \in DOMAIN loads : loads[j] \in Loading
      BY <1>1
    <3>3. QED
      BY <3>1, <3>2
  <2>2. \A j \in 1..Len(loads) : marked[j] \in Loading
    BY <1>1, <2>1
  <2>3. \A j \in DOMAIN loads : /\ j < k => marked[j].late
                                /\ j >= k => marked[j] = loads[j]
    BY <1>1, <2>1
  <2>4. marked \in [1..Len(loads) -> Loading]
    BY <1>1, <2>2
  <2>5. QED
    BY <1>1, <2>3, <2>4
<1>6. loads' = RemoveAt(marked, k)
  BY DEF Answered
<1> HIDE DEF marked
<1>7. /\ loads' \in Seq(Loading) /\ Len(loads') = Len(loads) - 1 /\ DOMAIN loads' = 1..Len(loads) - 1
      /\ \A j \in 1..Len(loads) - 1 : loads'[j] = IF j < k THEN marked[j] ELSE marked[j + 1]
  <2>1. k \in 1..Len(marked)
    BY <1>1, <1>5
  <2>2. /\ RemoveAt(marked, k) \in Seq(Loading) /\ Len(RemoveAt(marked, k)) = Len(marked) - 1
        /\ \A j \in 1..Len(marked) - 1 :
             RemoveAt(marked, k)[j] = IF j < k THEN marked[j] ELSE marked[j + 1]
    BY <1>5, <2>1, RemovesOne
  <2>3. QED
    BY <1>5, <1>6, <2>2
<1>8. TInv'
  <2>1. page'.sock = "open" => page'.to \in Insts /\ inst[page'.to].at = "up"
    BY <1>4 DEF TInv, InstInv
  <2>2. stale' \in BOOLEAN /\ Len(loads') <= MaxLoads
    BY <1>1, <1>2, <1>7, ConsoleAssumption DEF Loading
  <2>3. QED
    BY <1>2, <1>4, <1>7, <2>1, <2>2, PageMoves
<1>9. Coming' <=> Coming
  BY <1>2, <1>4 DEF Coming, Orphaned
<1>10. \A j \in DOMAIN loads : j > k /\ Current(j) => j - 1 \in DOMAIN loads' /\ Current(j - 1)'
  <2>1. SUFFICES ASSUME NEW j \in DOMAIN loads, j > k, Current(j)
                 PROVE  j - 1 \in DOMAIN loads' /\ loads'[j - 1] = loads[j]
    BY <1>2 DEF Current
  <2>2. j - 1 \in 1..Len(loads) - 1 /\ ~(j - 1 < k) /\ j - 1 + 1 = j
    BY <1>1, <2>1
  <2>3. loads'[j - 1] = marked[j]
    BY <1>7, <2>2
  <2>4. QED
    BY <1>1, <1>5, <1>7, <2>1, <2>2, <2>3
<1>11. NothingMissed'
  <2>1. SUFFICES ASSUME page'.shown # file, ~page'.failed, ~stale' PROVE NothingMissed'
    BY <1>2 DEF NothingMissed
  <2>2. loads[k].at = "read" /\ ~loads[k].late /\ loads[k].got # file
    BY <1>2, <1>4, <2>1
  <2>3. Coming \/ \E j \in DOMAIN loads : j > k /\ Current(j)
    BY <2>2 DEF News, LoadsInv
  <2>4. Coming' \/ \E j \in DOMAIN loads' : Current(j)'
    BY <1>9, <1>10, <2>3
  <2>5. QED
    BY <2>4 DEF NothingMissed, Coming, Current
<1>12. LoadsInv'
  <2>1. SUFFICES ASSUME NEW j \in DOMAIN loads', loads'[j].at = "read", ~loads'[j].late,
                        loads'[j].got # file
                 PROVE  Coming' \/ \E m \in DOMAIN loads' : m > j /\ Current(m)'
    BY <1>2 DEF LoadsInv
  <2>2. j \in 1..Len(loads) - 1 /\ ~(j < k)
    BY <1>1, <1>5, <1>7, <2>1
  <2>3. j + 1 \in DOMAIN loads /\ j + 1 > k /\ loads'[j] = loads[j + 1]
    BY <1>1, <1>5, <1>7, <2>2
  <2>4. Coming \/ \E m \in DOMAIN loads : m > j + 1 /\ Current(m)
    BY <2>1, <2>3 DEF News, LoadsInv
  <2>5. ASSUME NEW m \in DOMAIN loads, m > j + 1, Current(m)
        PROVE  \E i \in DOMAIN loads' : i > j /\ Current(i)'
    <3>1. m > k /\ m - 1 > j
      BY <1>1, <2>2, <2>5
    <3>2. m - 1 \in DOMAIN loads' /\ Current(m - 1)'
      BY <1>10, <2>5, <3>1
    <3>3. QED
      BY <3>1, <3>2
  <2>6. QED
    BY <1>9, <2>4, <2>5
<1>13. QED
  BY <1>8, <1>11, <1>12 DEF News

-----------------------------------------------------------------------------
(* The theorems *)

LEMMA InitHolds == Init => IInv
<1> SUFFICES ASSUME Init PROVE IInv
  OBVIOUS
<1> USE ConsoleAssumption
<1>1. /\ Fresh \in Instance /\ Fresh.wss = FALSE /\ Fresh.at = "new" /\ Fresh.stops = FALSE
      /\ [Fresh EXCEPT !.at = "init"] \in Instance /\ [Fresh EXCEPT !.at = "init"].wss = FALSE
      /\ [Fresh EXCEPT !.at = "init"].at = "init" /\ [Fresh EXCEPT !.at = "init"].stops = FALSE
  <2>1. 0 \in 0..MaxRestarts /\ 0 \in 0..MaxPolls
    OBVIOUS
  <2>2. QED
    BY <2>1 DEF Fresh, Instance
<1>2. /\ inst \in [Insts -> Instance]
      /\ \A i \in Insts : ~inst[i].wss /\ ~inst[i].stops /\ inst[i].at \in {"new", "init"}
  BY <1>1 DEF Init
<1>3. file \in 1..MaxChanges + 1 /\ 0 \in 0..file
  BY DEF Init
<1>4. page \in Page /\ page.sock = "none"
  BY <1>3 DEF Init, Off, Page
<1>5. TypeOK
  <2>1. cur \in {0} \cup Insts /\ early \subseteq Insts /\ stale \in BOOLEAN
    BY DEF Init
  <2>2. call \in [Callers -> {"idle", "dispose", "load"}]
    BY DEF Init
  <2>3. loads \in Seq(Loading) /\ Len(loads) <= MaxLoads
    BY DEF Init
  <2>4. QED
    BY <1>2, <1>3, <1>4, <2>1, <2>2, <2>3, Typed
<1>6. inst[cur].at # "new"
  BY <1>1 DEF Init
<1>7. InstInv
  BY <1>2, <1>4, <1>6 DEF Init, InstInv, Good
<1>8. Coming
  BY <1>4 DEF Coming
<1>9. News
  BY <1>8 DEF News, LoadsInv, NothingMissed, Coming
<1>10. QED
  BY <1>5, <1>7, <1>9 DEF IInv, TInv

LEMMA StepHolds == IInv /\ [Next]_vars => IInv'
<1> SUFFICES ASSUME TInv, News, [Next]_vars PROVE TInv' /\ News'
  BY DEF IInv
<1>1. CASE UNCHANGED vars
  BY <1>1 DEF vars, TInv, TypeOK, InstInv, Good, News, LoadsInv, NothingMissed, Coming, Current, Orphaned
<1>2. CASE \E i \in Insts :
             InitDone(i) \/ ChildExits(i) \/ Respawn(i) \/ Poll(i) \/ Polled(i) \/ Debounced(i)
  BY <1>2, InitDoneKeeps, ChildExitsKeeps, RespawnKeeps, PollKeeps, PolledKeeps, DebouncedKeeps
<1>3. CASE \E r \in Callers : Restart(r) \/ Unloaded(r) \/ Load(r)
  BY <1>3, RestartKeeps, UnloadedKeeps, LoadKeeps
<1>4. CASE Change \/ Open \/ Connect \/ Drop \/ Reconnect \/ Receive \/ Refresh \/ Close
  BY <1>4, ChangeKeeps, OpenKeeps, ConnectKeeps, DropKeeps, ReconnectKeeps, ReceiveKeeps,
     RefreshKeeps, CloseKeeps
<1>5. CASE \E k \in DOMAIN loads : Serve(k) \/ Answered(k)
  BY <1>5, ServeKeeps, AnsweredKeeps
<1>6. QED
  BY <1>1, <1>2, <1>3, <1>4, <1>5 DEF Next

(* The invariant is inductive: whatever instances, sockets, timers and      *)
(* loads there are, a load with an old answer is followed by a better one,  *)
(* and whoever accepts clients watches the files and will tell its status.  *)
THEOREM Invariance == Spec => []IInv
<1>1. Init => IInv
  BY InitHolds
<1>2. IInv /\ [Next]_vars => IInv'
  BY StepHolds
<1>3. QED
  BY <1>1, <1>2, PTL DEF Spec

(* A page that is stale has an update on its way, but for the responses,    *)
(* failures and silent sockets that NothingMissed names; and no Next child  *)
(* runs on or is started again after its service was disposed of.           *)
THEOREM PageFollows == Spec => []ConsoleFollows
<1>1. IInv => ConsoleFollows
  BY DEF IInv, TInv, InstInv, Good, News, ConsoleFollows, NoStrayNext
<1>2. QED
  BY <1>1, Invariance, PTL


-----------------------------------------------------------------------------
(* Memory, the other part of the run: the index of the workspace            *)

Writing == {"delete", "save", "status"}
Resting == {"idle", "next", "track", "stale", "gone"}

(* The chunks of f are the first k of version v.                            *)
Holds(table, f, v, k) == \A i \in M!Of(f) : table[i] = IF i[2] <= k THEN v ELSE 0

(* A job is about a note; what it saves it has read and seen the time of.   *)
JobOK(r) ==
    /\ r.at \in M!Working \cup {"gone"} => r.file \in Notes
    /\ r.at \in Writing => r.read # 0 /\ r.mtime # 0 /\ r.mtime <= latest
    /\ r.at = "save" => r.k \in 1..CutInto(r.read)

(* Versions are used in order, and a process that is down has nothing under *)
(* way.                                                                     *)
BoundsInv ==
    /\ \A f \in Notes : disk[f] <= latest
    /\ ~running => /\ timers = {} /\ hits = M!NoHit /\ ~watching
                   /\ \A j \in Jobs : job[j] = M!Idle
    /\ \A j \in Jobs : JobOK(job[j])

(* A run that nothing has spoiled is the only one on its file; the file of  *)
(* one that was is marked.                                                  *)
AloneInv ==
    \A j \in Jobs : job[j].at \in M!Working =>
        IF job[j].alone THEN M!On(job[j].file) = {j} ELSE job[j].file \in dirty

(* How far a run is that nothing has spoiled, while the file is what it was *)
(* at the stat().                                                           *)
Progress(r) ==
    r.at \in Writing /\ r.alone /\ disk[r.file] = r.mtime =>
        /\ r.at = "delete" => Holds(chunks, r.file, r.read, 0)
        /\ r.at = "save" => Holds(rows, r.file, r.read, r.k - 1) /\ Holds(chunks, r.file, r.read, r.k)
        /\ r.at = "status" => /\ Holds(rows, r.file, r.read, CutInto(r.read))
                              /\ Holds(chunks, r.file, r.read, CutInto(r.read))
ProgressInv == \A j \in Jobs : Progress(job[j])

(* A file that nobody has to read, or is about to index, is indexed as it   *)
(* is: in the rows for good, in the map while the process is up.            *)
Untouched(f) ==
    /\ f \notin dirty \cup timers
    /\ \A j \in M!On(f) : job[j].at \in {"check", "row"}
Indexed(f) ==
    /\ Holds(rows, f, disk[f], CutInto(disk[f]))
    /\ running => Holds(chunks, f, disk[f], CutInto(disk[f]))
IndexedInv == \A f \in Notes : Untouched(f) /\ disk[f] # 0 => Indexed(f)

IndexInv == M!TypeOK /\ BoundsInv /\ AloneInv /\ ProgressInv /\ IndexedInv

-----------------------------------------------------------------------------
(* What jobs and tables become.                                             *)
LEMMA IndexFacts ==
  /\ Versions \subseteq Nat \ {0} /\ MaxPieces \in Nat /\ DocLines \in Nat
  /\ \A v \in Versions : CutInto(v) \in 1..MaxPieces
  /\ 1..DocLines \subseteq Versions /\ DocLines <= MaxPieces
  /\ Notes \cap Transcripts = {} /\ Nobody \notin Notes
  BY IndexAssumption DEF M!MemoryAssumption

(* A job that goes on: the others are as they were.                         *)
LEMMA JobIs ==
  ASSUME M!TypeOK, NEW j \in Jobs, NEW r \in M!Job, job' = [job EXCEPT ![j] = r]
  PROVE  job' \in [Jobs -> M!Job] /\ job'[j] = r /\ \A k \in Jobs : k # j => job'[k] = job[k]
  BY DEF M!TypeOK

LEMMA JobTyped ==
  ASSUME M!TypeOK, NEW j \in Jobs
  PROVE  job[j] \in M!Job /\ M!Idle \in M!Job
  BY IndexFacts DEF M!TypeOK, M!Job, M!Idle, M!Working

LEMMA FieldsAre ==
  ASSUME M!TypeOK, NEW j \in Jobs
  PROVE  /\ job[j].at \in M!Working \cup Resting /\ job[j].read \in Versions \cup {0}
         /\ job[j].mtime \in Versions \cup {0} /\ job[j].k \in 0..MaxPieces
         /\ job[j].alone \in BOOLEAN /\ job[j].todo \in SUBSET Notes
         /\ job[j].file \in Notes \cup {Nobody} /\ job[j].sync \in {"no", "due", "forced"}
  BY JobTyped DEF M!Job, Resting

LEMMA DoneIs ==
  ASSUME M!TypeOK, NEW j \in Jobs, M!Done(j)
  PROVE  \E r \in M!Job : job' = [job EXCEPT ![j] = r] /\ r.at \in {"idle", "next"}
  <1> DEFINE n == [M!Idle EXCEPT !.at = "next", !.todo = job[j].todo, !.sync = job[j].sync]
  <1>1. n \in M!Job /\ n.at = "next"
    BY JobTyped, FieldsAre DEF M!Job, M!Idle
  <1>2. M!Idle \in M!Job /\ M!Idle.at = "idle"
    BY JobTyped DEF M!Idle
  <1>3. job' = [job EXCEPT ![j] = n] \/ job' = [job EXCEPT ![j] = M!Idle]
    BY DEF M!Done
  <1> QED BY <1>1, <1>2, <1>3

LEMMA SyncIs ==
  ASSUME M!TypeOK, NEW j \in Jobs, NEW sync \in {"due", "forced"}, M!StartSync(j, sync)
  PROVE  \E r \in M!Job : job' = [job EXCEPT ![j] = r] /\ r.at = "next"
  <1> DEFINE n == [M!Idle EXCEPT !.at = "next", !.sync = sync, !.todo = {f \in Notes : disk[f] # 0}]
  <1>1. n \in M!Job /\ n.at = "next"
    BY JobTyped DEF M!Job, M!Idle
  <1> QED BY <1>1 DEF M!StartSync

(* Spoiling the runs on f, and beginning one.                               *)
LEMMA SpoiledIs ==
  ASSUME M!TypeOK, NEW f \in M!Docs, NEW s, s = M!Spoiled(f)
  PROVE  /\ s \in [Jobs -> M!Job]
         /\ \A k \in Jobs : /\ s[k].at = job[k].at /\ s[k].file = job[k].file /\ s[k].read = job[k].read
                            /\ s[k].mtime = job[k].mtime /\ s[k].k = job[k].k
                            /\ s[k].alone <=> (job[k].alone /\ k \notin M!On(f))
                            /\ k \notin M!On(f) => s[k] = job[k]
  <1>1. \A k \in Jobs : job[k] \in M!Job /\ [job[k] EXCEPT !.alone = FALSE] \in M!Job
    BY JobTyped DEF M!Job
  <1>2. \A k \in Jobs : s[k] = IF k \in M!On(f) THEN [job[k] EXCEPT !.alone = FALSE] ELSE job[k]
    BY DEF M!Spoiled
  <1>3. s \in [Jobs -> M!Job]
    BY <1>1 DEF M!Spoiled
  <1>4. ASSUME NEW k \in Jobs
        PROVE  /\ s[k].at = job[k].at /\ s[k].file = job[k].file /\ s[k].read = job[k].read
               /\ s[k].mtime = job[k].mtime /\ s[k].k = job[k].k
               /\ s[k].alone <=> (job[k].alone /\ k \notin M!On(f))
               /\ k \notin M!On(f) => s[k] = job[k]
    <2>1. CASE k \in M!On(f)
      BY <1>1, <1>2, <2>1 DEF M!Job
    <2>2. CASE k \notin M!On(f)
      BY <1>1, <1>2, <2>2 DEF M!Job
    <2> QED BY <2>1, <2>2
  <1> QED BY <1>3, <1>4

LEMMA DiskFacts ==
  /\ Notes \subseteq M!Docs /\ Transcripts \subseteq M!Docs /\ Notes \cap Transcripts = {}
  /\ M!TypeOK => latest \in Nat /\ \A f \in Notes : disk[f] \in Nat
  <1>1. Notes \subseteq M!Docs /\ Transcripts \subseteq M!Docs
    BY DEF M!Docs
  <1>2. Versions \cup {0} \subseteq Nat /\ Notes \cap Transcripts = {}
    BY IndexFacts
  <1>3. M!TypeOK => latest \in Nat /\ \A f \in Notes : disk[f] \in Nat
    BY <1>2 DEF M!TypeOK
  <1> QED BY <1>1, <1>2, <1>3

(* What holds of the chunks of the files other than f goes on to hold.      *)
Keeps(new, old, f) == \A g \in Notes \ {f} : \A v, k : Holds(old, g, v, k) => Holds(new, g, v, k)

(* A chunk is put into a table: that of its file has one more, those of the *)
(* others are as they were.                                                 *)
LEMMA PutHolds ==
  ASSUME NEW table \in [M!Ids -> Versions \cup {0}], NEW f \in Notes, NEW v \in Versions,
         NEW n \in 1..MaxPieces, NEW t, t = [table EXCEPT ![<<f, n>>] = v]
  PROVE  /\ t \in [M!Ids -> Versions \cup {0}]
         /\ Holds(table, f, v, n - 1) => Holds(t, f, v, n)
         /\ Keeps(t, table, f)
  <1>1. <<f, n>> \in M!Ids
    BY DEF M!Ids, M!Docs
  <1>2. t \in [M!Ids -> Versions \cup {0}]
    BY <1>1
  <1>3. \A i \in M!Ids : t[i] = IF i = <<f, n>> THEN v ELSE table[i]
    BY <1>1
  <1>4. \A i \in M!Of(f) : i \in M!Ids /\ i[2] \in 1..MaxPieces /\ (i = <<f, n>> <=> i[2] = n)
    BY DEF M!Of, M!Ids
  <1>5. ASSUME Holds(table, f, v, n - 1) PROVE Holds(t, f, v, n)
    BY <1>3, <1>4, <1>5, IndexFacts DEF Holds
  <1>6. \A g \in Notes \ {f} : \A i \in M!Of(g) : i \in M!Ids /\ i # <<f, n>>
    BY DEF M!Of, M!Ids
  <1>7. \A g \in Notes \ {f} : \A w, m : Holds(table, g, w, m) => Holds(t, g, w, m)
    BY <1>3, <1>6 DEF Holds
  <1> QED BY <1>2, <1>5, <1>7 DEF Keeps

(* The chunks of a file are taken out of a table.                           *)
LEMMA WithoutHolds ==
  ASSUME NEW table \in [M!Ids -> Versions \cup {0}], NEW f \in Notes, NEW t, t = M!Without(table, f)
  PROVE  /\ t \in [M!Ids -> Versions \cup {0}]
         /\ \A w : Holds(t, f, w, 0)
         /\ Keeps(t, table, f)
  <1>1. \A i \in M!Ids : t[i] = IF i \in M!Of(f) THEN 0 ELSE table[i]
    BY DEF M!Without
  <1>2. t \in [M!Ids -> Versions \cup {0}]
    BY DEF M!Without
  <1>3. \A i \in M!Of(f) : i \in M!Ids /\ i[2] \in 1..MaxPieces
    BY DEF M!Of, M!Ids
  <1>4. \A g \in Notes \ {f} : \A i \in M!Of(g) : i \in M!Ids /\ i \notin M!Of(f)
    BY DEF M!Of
  <1>5. \A w : Holds(t, f, w, 0)
    BY <1>1, <1>3, IndexFacts DEF Holds
  <1>6. \A g \in Notes \ {f} : \A w, m : Holds(table, g, w, m) => Holds(t, g, w, m)
    BY <1>1, <1>4 DEF Holds
  <1> QED BY <1>2, <1>5, <1>6 DEF Keeps

-----------------------------------------------------------------------------
(* A run goes on with its file: it reads it, looks at it, or changes its    *)
(* chunks.                                                                  *)
LEMMA StagePreserves ==
  ASSUME IndexInv, NEW j \in Jobs, NEW r \in M!Job, job' = [job EXCEPT ![j] = r],
         job[j].at \in M!Working, r.at \in M!Working, r.file = job[j].file, r.alone <=> job[j].alone,
         UNCHANGED <<disk, latest, status, running, watching, timers, hits, dirty>>,
         chunks' \in [M!Ids -> Versions \cup {0}], rows' \in [M!Ids -> Versions \cup {0}],
         Keeps(chunks', chunks, r.file), Keeps(rows', rows, r.file),
         JobOK(r), Progress(r)',
         r.at \in {"check", "row"} =>
            job[j].at \in {"check", "row"} /\ UNCHANGED <<chunks, rows>>
  PROVE  IndexInv'
  <1>1. job' \in [Jobs -> M!Job] /\ job'[j] = r /\ \A k \in Jobs : k # j => job'[k] = job[k]
    BY JobIs DEF IndexInv
  <1>2. \A f : M!On(f)' = M!On(f)
    BY <1>1 DEF M!On
  <1>3. r.file \in Notes /\ j \in M!On(r.file) /\ running
    BY DEF IndexInv, BoundsInv, JobOK, M!On, M!Idle, M!Working
  <1>4. M!TypeOK'
    BY <1>1 DEF IndexInv, M!TypeOK
  <1>5. BoundsInv'
    BY <1>1, <1>3 DEF IndexInv, BoundsInv, JobOK
  <1>6. AloneInv'
    BY <1>1, <1>2 DEF IndexInv, AloneInv
  <1>7. ASSUME NEW k \in Jobs PROVE Progress(job[k])'
    <2>1. CASE k = j
      BY <1>1, <2>1 DEF Progress
    <2>2. CASE k # j /\ job[k].at \in Writing /\ job[k].alone
      <3>1. job[k].file \in Notes \ {r.file}
        BY <1>3, <2>2 DEF IndexInv, BoundsInv, JobOK, AloneInv, Writing, M!Working
      <3>2. Progress(job[k])
        BY DEF IndexInv, ProgressInv
      <3> QED BY <1>1, <2>2, <3>1, <3>2 DEF Progress, Keeps
    <2>3. CASE k # j /\ ~(job[k].at \in Writing /\ job[k].alone)
      BY <1>1, <2>3 DEF Progress
    <2> QED BY <2>1, <2>2, <2>3
  <1>8. ASSUME NEW f \in Notes, Untouched(f)', disk[f] # 0 PROVE Indexed(f)'
    <2>1. Untouched(f)
      BY <1>1, <1>2, <1>8 DEF Untouched, M!On
    <2>2. Indexed(f)
      BY <1>8, <2>1 DEF IndexInv, IndexedInv
    <2>3. CASE f = r.file
      <3>1. r.at \in {"check", "row"}
        BY <1>1, <1>2, <1>3, <1>8, <2>3 DEF Untouched
      <3> QED BY <2>2, <3>1 DEF Indexed
    <2>4. CASE f # r.file
      BY <2>2, <2>4 DEF Indexed, Keeps
    <2> QED BY <2>3, <2>4
  <1> QED BY <1>4, <1>5, <1>6, <1>7, <1>8 DEF IndexInv, ProgressInv, IndexedInv

(* A run ends.  Whether its file is marked as not indexed cleanly is up to  *)
(* it, unless others are at work on the file.                               *)
LEMMA EndPreserves ==
  ASSUME IndexInv, NEW j \in Jobs, NEW g, g = job[j].file, NEW r \in M!Job,
         job' = [job EXCEPT ![j] = r],
         job[j].at \in M!Working, r.at \in {"idle", "next"},
         UNCHANGED <<disk, latest, chunks, rows, running, watching, timers, hits>>,
         status' \in [Notes -> Versions \cup {0}],
         \/ dirty' \in {dirty, dirty \cup {g}}
         \/ job[j].alone /\ dirty' = dirty \ {g},
         Untouched(g)' /\ disk[g] # 0 => Untouched(g) \/ Indexed(g)
  PROVE  IndexInv'
  <1>1. job' \in [Jobs -> M!Job] /\ job'[j] = r /\ \A k \in Jobs : k # j => job'[k] = job[k]
    BY JobIs DEF IndexInv
  <1>2. r.at \notin M!Working /\ r.at \notin Writing
    BY DEF M!Working, Writing
  <1>3. /\ \A f : M!On(f)' = M!On(f) \ {j}
        /\ \A f : f # g => M!On(f)' = M!On(f)
    BY <1>1, <1>2 DEF M!On
  <1>4. g \in Notes /\ j \in M!On(g) /\ running
    BY DEF IndexInv, BoundsInv, JobOK, M!On, M!Idle, M!Working
  <1>5. \A f : f # g => (f \in dirty' <=> f \in dirty)
    OBVIOUS
  <1>6. M!TypeOK'
    BY <1>1, <1>4 DEF IndexInv, M!TypeOK
  <1>7. BoundsInv'
    <2>1. JobOK(r)'
      BY <1>2 DEF JobOK, Writing
    <2> QED BY <1>1, <1>4, <2>1 DEF IndexInv, BoundsInv, JobOK
  <1>8. ASSUME NEW k \in Jobs, job'[k].at \in M!Working
        PROVE  (IF job[k].alone THEN M!On(job[k].file) = {k} ELSE job[k].file \in dirty)'
    <2>1. k # j /\ job'[k] = job[k]
      BY <1>1, <1>2, <1>8
    <2>2. IF job[k].alone THEN M!On(job[k].file) = {k} ELSE job[k].file \in dirty
      BY <1>8, <2>1 DEF IndexInv, AloneInv
    <2>3. CASE job[k].file # g
      BY <1>3, <1>5, <2>1, <2>2, <2>3
    <2>4. CASE job[k].file = g
      <3>1. ~job[k].alone /\ ~job[j].alone
        BY <1>4, <1>8, <2>1, <2>2, <2>4 DEF IndexInv, AloneInv, M!On
      <3> QED BY <2>1, <2>2, <2>4, <3>1
    <2> QED BY <2>3, <2>4
  <1>9. ASSUME NEW k \in Jobs PROVE Progress(job[k])'
    <2>1. CASE k = j
      BY <1>1, <1>2, <2>1 DEF Progress
    <2>2. CASE k # j
      BY <1>1, <2>2 DEF IndexInv, ProgressInv, Progress
    <2> QED BY <2>1, <2>2
  <1>10. ASSUME NEW f \in Notes, Untouched(f)', disk[f] # 0 PROVE Indexed(f)'
    <2>1. CASE f = g
      BY <1>10, <2>1 DEF IndexInv, IndexedInv, Indexed
    <2>2. CASE f # g
      <3>1. Untouched(f)
        BY <1>1, <1>3, <1>4, <1>5, <1>10, <2>2 DEF Untouched, M!On
      <3> QED BY <1>10, <3>1 DEF IndexInv, IndexedInv, Indexed
    <2> QED BY <2>1, <2>2
  <1> QED BY <1>6, <1>7, <1>8, <1>9, <1>10 DEF IndexInv, AloneInv, ProgressInv, IndexedInv

-----------------------------------------------------------------------------
(* A run begins on f: it spoils the ones that are at work on f.             *)
LEMMA BeginIs ==
  ASSUME M!TypeOK, NEW j \in Jobs, NEW f \in Notes, NEW at \in {"check", "read"},
         NEW todo \in SUBSET Notes, M!Begin(j, f, at, todo)
  PROVE  /\ job' \in [Jobs -> M!Job]
         /\ job'[j].at = at /\ job'[j].file = f /\ (job'[j].alone <=> (M!On(f) = {}))
         /\ \A k \in Jobs \ {j} :
              /\ job'[k].at = job[k].at /\ job'[k].file = job[k].file /\ job'[k].read = job[k].read
              /\ job'[k].mtime = job[k].mtime /\ job'[k].k = job[k].k
              /\ job'[k].alone <=> (job[k].alone /\ k \notin M!On(f))
         /\ dirty' = IF M!On(f) = {} THEN dirty ELSE dirty \cup {f}
  <1> DEFINE a == M!On(f) = {}
             c == job[j].sync
             r == [M!Idle EXCEPT !.at = at, !.file = f, !.alone = a, !.todo = todo, !.sync = c]
  <1>a. a \in BOOLEAN /\ c \in {"no", "due", "forced"}
    BY FieldsAre
  <1> HIDE DEF a, c
  <1>1. r \in M!Job /\ r.at = at /\ r.file = f /\ r.alone = a
    BY <1>a, JobTyped DEF M!Job, M!Idle, M!Working
  <1>2. PICK s : s = M!Spoiled(f)
    OBVIOUS
  <1>3. job' = [s EXCEPT ![j] = r]
    BY <1>2 DEF M!Begin, a, c
  <1>4. dirty' = IF M!On(f) = {} THEN dirty ELSE dirty \cup {f}
    BY DEF M!Begin
  <1> HIDE DEF r
  <1>5. /\ s \in [Jobs -> M!Job]
        /\ \A k \in Jobs : /\ s[k].at = job[k].at /\ s[k].file = job[k].file
                           /\ s[k].read = job[k].read
                           /\ s[k].mtime = job[k].mtime /\ s[k].k = job[k].k
                           /\ s[k].alone <=> (job[k].alone /\ k \notin M!On(f))
    BY <1>2, SpoiledIs DEF M!Docs
  <1>6. job' \in [Jobs -> M!Job] /\ job'[j] = r /\ \A k \in Jobs \ {j} : job'[k] = s[k]
    BY <1>1, <1>3, <1>5
  <1>7. job'[j].alone <=> (M!On(f) = {})
    BY <1>1, <1>6 DEF a
  <1>8. ASSUME NEW k \in Jobs \ {j}
        PROVE  /\ job'[k].at = job[k].at /\ job'[k].file = job[k].file /\ job'[k].read = job[k].read
               /\ job'[k].mtime = job[k].mtime /\ job'[k].k = job[k].k
               /\ job'[k].alone <=> (job[k].alone /\ k \notin M!On(f))
    BY <1>5, <1>6
  <1> QED BY <1>1, <1>4, <1>6, <1>7, <1>8

LEMMA BeginPreserves ==
  ASSUME IndexInv, NEW j \in Jobs, NEW f \in Notes, NEW at \in {"check", "read"},
         NEW todo \in SUBSET Notes, M!Begin(j, f, at, todo),
         job[j].at \in {"idle", "next"}, running,
         UNCHANGED <<chunks, rows, status, running, watching, hits>>,
         disk' \in [Notes -> Versions \cup {0}], latest' \in Versions \cup {0}, latest <= latest',
         disk'[f] = disk[f] \/ (latest < disk'[f] /\ disk'[f] <= latest'),
         \A g \in Notes \ {f} : disk'[g] = disk[g] /\ (g \in timers' <=> g \in timers),
         timers' \subseteq Notes,
         at = "check" => UNCHANGED <<disk, timers>>
  PROVE  IndexInv'
  <1>1. /\ job' \in [Jobs -> M!Job]
        /\ job'[j].at = at /\ job'[j].file = f /\ (job'[j].alone <=> (M!On(f) = {}))
        /\ dirty' = IF M!On(f) = {} THEN dirty ELSE dirty \cup {f}
    BY BeginIs DEF IndexInv
  <1>2. \A k \in Jobs \ {j} :
              /\ job'[k].at = job[k].at /\ job'[k].file = job[k].file /\ job'[k].read = job[k].read
              /\ job'[k].mtime = job[k].mtime /\ job'[k].k = job[k].k
              /\ job'[k].alone <=> (job[k].alone /\ k \notin M!On(f))
    BY BeginIs DEF IndexInv
  <1>3. job[j].at \notin M!Working /\ at \in M!Working /\ at \notin Writing
    BY DEF M!Working, Writing
  <1>4. /\ \A g : g # f => M!On(g)' = M!On(g)
        /\ M!On(f)' = M!On(f) \cup {j} /\ j \notin M!On(f)
    BY <1>1, <1>2, <1>3 DEF M!On
  <1>5. /\ latest \in Nat /\ latest' \in Nat
        /\ \A g \in Notes : disk[g] \in Nat /\ disk'[g] \in Nat
        /\ \A k \in Jobs : job[k].mtime \in Nat
    <2>1. Versions \cup {0} \subseteq Nat
      BY IndexFacts
    <2>2. latest \in Nat /\ \A g \in Notes : disk[g] \in Nat
      BY DiskFacts DEF IndexInv
    <2>3. latest' \in Nat /\ \A g \in Notes : disk'[g] \in Nat
      BY <2>1
    <2>4. \A k \in Jobs : job[k].mtime \in Nat
      BY <2>1, FieldsAre DEF IndexInv
    <2> QED BY <2>2, <2>3, <2>4
  <1>6. M!TypeOK'
    BY <1>1 DEF IndexInv, M!TypeOK
  <1>7. BoundsInv'
    <2>1. \A g \in Notes : disk'[g] <= latest'
      BY <1>5 DEF IndexInv, BoundsInv
    <2>2. ASSUME NEW k \in Jobs PROVE JobOK(job[k])'
      <3>1. CASE k = j
        BY <1>1, <1>3, <3>1 DEF JobOK, Writing
      <3>2. CASE k # j
        <4>1. JobOK(job[k])
          BY DEF IndexInv, BoundsInv
        <4>2. job[k].mtime <= latest => job[k].mtime <= latest'
          BY <1>5
        <4> QED BY <1>2, <3>2, <4>1, <4>2 DEF JobOK
      <3> QED BY <3>1, <3>2
    <2> QED BY <2>1, <2>2 DEF IndexInv, BoundsInv
  <1>8. ASSUME NEW k \in Jobs, job'[k].at \in M!Working
        PROVE  (IF job[k].alone THEN M!On(job[k].file) = {k} ELSE job[k].file \in dirty)'
    <2>1. CASE k = j
      BY <1>1, <1>4, <2>1
    <2>2. CASE k # j
      <3>1. IF job[k].alone THEN M!On(job[k].file) = {k} ELSE job[k].file \in dirty
        BY <1>2, <1>8, <2>2 DEF IndexInv, AloneInv
      <3>2. job[k].file = f <=> k \in M!On(f)
        BY <1>2, <1>8, <2>2 DEF M!On
      <3> QED BY <1>1, <1>2, <1>4, <2>2, <3>1, <3>2
    <2> QED BY <2>1, <2>2
  <1>9. ASSUME NEW k \in Jobs PROVE Progress(job[k])'
    <2>1. CASE k = j
      BY <1>1, <1>3, <2>1 DEF Progress
    <2>2. CASE k # j /\ job'[k].at \in Writing /\ job'[k].alone
      <3>1. job[k].file \in Notes \ {f}
        BY <1>2, <2>2 DEF IndexInv, BoundsInv, JobOK, M!On, M!Working, Writing
      <3>2. Progress(job[k])
        BY DEF IndexInv, ProgressInv
      <3> QED BY <1>2, <2>2, <3>1, <3>2 DEF Progress
    <2>3. CASE ~(job'[k].at \in Writing /\ job'[k].alone)
      BY <2>3 DEF Progress
    <2> QED BY <2>1, <2>2, <2>3
  <1>10. ASSUME NEW g \in Notes, Untouched(g)', disk'[g] # 0 PROVE Indexed(g)'
    <2>1. disk'[g] = disk[g] /\ (g \in timers' <=> g \in timers)
      <3>1. CASE g = f
        BY <1>1, <1>4, <1>10, <3>1 DEF Untouched
      <3> QED BY <3>1
    <2>2. g \notin dirty \cup timers
      BY <1>1, <1>10, <2>1 DEF Untouched
    <2>3. M!On(g) \subseteq M!On(g)' \ {j}
      BY <1>3, <1>4 DEF M!On
    <2>4. \A k \in M!On(g) : job[k].at \in {"check", "row"}
      BY <1>2, <1>10, <2>3 DEF Untouched, M!On
    <2> QED BY <1>10, <2>1, <2>2, <2>4 DEF Untouched, IndexInv, IndexedInv, Indexed
  <1> QED BY <1>6, <1>7, <1>8, <1>9, <1>10 DEF IndexInv, AloneInv, ProgressInv, IndexedInv

-----------------------------------------------------------------------------
(* Nothing begins or ends: files of S change and are marked.                *)
LEMMA ChangePreserves ==
  ASSUME IndexInv, NEW S \in SUBSET Notes, UNCHANGED <<status, running, job>>,
         disk' \in [Notes -> Versions \cup {0}], latest' \in Versions \cup {0}, latest <= latest',
         chunks' \in [M!Ids -> Versions \cup {0}], rows' \in [M!Ids -> Versions \cup {0}],
         timers' \subseteq Notes, dirty' \subseteq Notes, watching' \in BOOLEAN,
         hits' = M!NoHit \/ hits' \in [id: M!Ids, version: Versions],
         ~running => timers' = {} /\ hits' = M!NoHit /\ ~watching',
         dirty \subseteq dirty', timers \subseteq timers', S \subseteq dirty' \cup timers',
         \A g \in S : disk'[g] = 0 \/ (latest < disk'[g] /\ disk'[g] <= latest'),
         \A g \in Notes \ S : /\ disk'[g] = disk[g]
                              /\ \A v, k : Holds(rows, g, v, k) => Holds(rows', g, v, k)
                              /\ \A v, k : Holds(chunks, g, v, k) => Holds(chunks', g, v, k)
  PROVE  IndexInv'
  <1>1. \A f : M!On(f)' = M!On(f)
    BY DEF M!On
  <1>2. /\ latest \in Nat /\ latest' \in Nat
        /\ \A g \in Notes : disk[g] \in Nat /\ disk'[g] \in Nat
        /\ \A k \in Jobs : job[k].mtime \in Nat
    <2>0. Versions \cup {0} \subseteq Nat
      BY IndexFacts
    <2>1. latest \in Nat /\ \A f \in Notes : disk[f] \in Nat
      BY DiskFacts DEF IndexInv
    <2>2. latest' \in Nat /\ \A g \in Notes : disk'[g] \in Nat
      BY <2>0
    <2>3. \A k \in Jobs : job[k].mtime \in Nat
      BY <2>0, FieldsAre DEF IndexInv
    <2> QED BY <2>1, <2>2, <2>3, DiskFacts
  <1>3. M!TypeOK'
    BY DEF IndexInv, M!TypeOK
  <1>4. BoundsInv'
    <2>1. \A g \in Notes : disk'[g] <= latest'
      BY <1>2 DEF IndexInv, BoundsInv
    <2>2. \A k \in Jobs : job[k].mtime <= latest => job[k].mtime <= latest'
      BY <1>2
    <2>3. \A k \in Jobs : JobOK(job[k])'
      BY <2>2 DEF IndexInv, BoundsInv, JobOK
    <2> QED BY <2>1, <2>3 DEF IndexInv, BoundsInv
  <1>5. AloneInv'
    BY <1>1 DEF IndexInv, AloneInv
  <1>6. ASSUME NEW k \in Jobs PROVE Progress(job[k])'
    <2>1. Progress(job[k]) /\ JobOK(job[k])
      BY DEF IndexInv, ProgressInv, BoundsInv
    <2>2. CASE job[k].at \in Writing /\ job[k].file \in S
      <3>1. disk'[job[k].file] # job[k].mtime
        BY <1>2, <2>1, <2>2 DEF JobOK
      <3> QED BY <3>1 DEF Progress
    <2>3. CASE job[k].at \in Writing /\ job[k].file \notin S
      <3>1. job[k].file \in Notes \ S
        BY <2>1, <2>3 DEF JobOK, Writing, M!Working
      <3> QED BY <2>1, <3>1 DEF Progress
    <2>4. CASE job[k].at \notin Writing
      BY <2>4 DEF Progress
    <2> QED BY <2>2, <2>3, <2>4
  <1>7. ASSUME NEW g \in Notes, Untouched(g)', disk'[g] # 0 PROVE Indexed(g)'
    <2>1. g \notin S /\ Untouched(g)
      BY <1>1, <1>7 DEF Untouched
    <2>2. Indexed(g) /\ disk'[g] = disk[g]
      BY <1>7, <2>1 DEF IndexInv, IndexedInv
    <2> QED BY <2>1, <2>2 DEF Indexed
  <1> QED BY <1>3, <1>4, <1>5, <1>6, <1>7 DEF IndexInv, ProgressInv, IndexedInv

(* A call that is at no file goes on to be at none.                         *)
LEMMA RestPreserves ==
  ASSUME IndexInv, NEW j \in Jobs, NEW r \in M!Job, job' = [job EXCEPT ![j] = r],
         job[j].at \in Resting, r.at \in Resting, JobOK(r),
         UNCHANGED <<disk, latest, status, watching, timers, hits, dirty>>,
         running' = TRUE,
         chunks' \in [M!Ids -> Versions \cup {0}], rows' \in [M!Ids -> Versions \cup {0}],
         Keeps(rows', rows, Nobody),
         IF running THEN Keeps(chunks', chunks, Nobody) ELSE chunks' = rows
  PROVE  IndexInv'
  <1>1. job' \in [Jobs -> M!Job] /\ job'[j] = r /\ \A k \in Jobs : k # j => job'[k] = job[k]
    BY JobIs DEF IndexInv
  <1>2. Resting \cap M!Working = {} /\ Writing \subseteq M!Working
    BY DEF M!Working, Writing, Resting
  <1>3. \A f : M!On(f)' = M!On(f)
    BY <1>1, <1>2 DEF M!On
  <1>4. M!TypeOK'
    BY <1>1 DEF IndexInv, M!TypeOK
  <1>5. ASSUME NEW k \in Jobs
        PROVE  /\ JobOK(job[k])' /\ Progress(job[k])'
               /\ (job[k].at \in M!Working =>
                     IF job[k].alone THEN M!On(job[k].file) = {k} ELSE job[k].file \in dirty)'
    <2>1. CASE k = j
      BY <1>1, <1>2, <2>1 DEF JobOK, Progress
    <2>2. CASE k # j
      <3>1. /\ JobOK(job[k]) /\ Progress(job[k])
            /\ job[k].at \in M!Working =>
                 IF job[k].alone THEN M!On(job[k].file) = {k} ELSE job[k].file \in dirty
        BY DEF IndexInv, BoundsInv, ProgressInv, AloneInv
      <3>2. JobOK(job[k])'
        BY <1>1, <2>2, <3>1 DEF JobOK
      <3>3. ASSUME job[k].at \in Writing
            PROVE  job[k].file \in Notes \ {Nobody} /\ running
        BY <1>2, <3>1, <3>3, IndexFacts DEF JobOK, IndexInv, BoundsInv, M!Idle, Writing
      <3>4. Progress(job[k])'
        BY <1>1, <2>2, <3>1, <3>3 DEF Progress, Keeps
      <3>5. (job[k].at \in M!Working =>
                     IF job[k].alone THEN M!On(job[k].file) = {k} ELSE job[k].file \in dirty)'
        BY <1>1, <1>3, <2>2, <3>1
      <3> QED BY <3>2, <3>4, <3>5
    <2> QED BY <2>1, <2>2
  <1>6. ASSUME NEW f \in Notes, Untouched(f)', disk[f] # 0 PROVE Indexed(f)'
    <2>1. Untouched(f)
      BY <1>1, <1>2, <1>3, <1>6 DEF Untouched, M!On
    <2>2. Indexed(f) /\ f \in Notes \ {Nobody}
      BY <1>6, <2>1, IndexFacts DEF IndexInv, IndexedInv
    <2> QED BY <2>2 DEF Indexed, Keeps
  <1>7. BoundsInv'
    BY <1>5 DEF IndexInv, BoundsInv
  <1> QED BY <1>4, <1>5, <1>6, <1>7 DEF IndexInv, AloneInv, ProgressInv, IndexedInv

-----------------------------------------------------------------------------
(* The workspace and the watcher *)

LEMMA FileChangesCorrect ==
  ASSUME IndexInv, NEW f \in Notes, M!FileWritten(f) \/ M!FileDeleted(f)
  PROVE  IndexInv'
  <1>1. latest \in Nat /\ latest < latest + 1
    BY IndexFacts DEF IndexInv, M!TypeOK
  <1>2. /\ UNCHANGED <<status, running, job, chunks, rows, watching, hits>>
        /\ \/ watching /\ timers' = timers \cup {f} /\ dirty' = dirty
           \/ ~watching /\ dirty' = dirty \cup {f} /\ timers' = timers
    BY DEF M!FileWritten, M!FileDeleted, M!Noticed, M!indexVars
  <1>3. \/ latest' = latest + 1 /\ latest + 1 \in Versions /\ disk' = [disk EXCEPT ![f] = latest + 1]
        \/ latest' = latest /\ disk' = [disk EXCEPT ![f] = 0]
    BY DEF M!FileWritten, M!FileDeleted
  <1>4. /\ disk' \in [Notes -> Versions \cup {0}] /\ latest' \in Versions \cup {0}
        /\ latest <= latest'
        /\ disk'[f] = 0 \/ (latest < disk'[f] /\ disk'[f] <= latest')
        /\ \A g \in Notes \ {f} : disk'[g] = disk[g]
    BY <1>1, <1>3 DEF IndexInv, M!TypeOK
  <1>6. /\ ~running => timers' = {} /\ hits' = M!NoHit /\ ~watching'
        /\ timers' \subseteq Notes /\ dirty' \subseteq Notes /\ watching' \in BOOLEAN
        /\ dirty \subseteq dirty' /\ timers \subseteq timers' /\ {f} \subseteq dirty' \cup timers'
    BY <1>2 DEF IndexInv, M!TypeOK, BoundsInv
  <1>7. /\ chunks' \in [M!Ids -> Versions \cup {0}] /\ rows' \in [M!Ids -> Versions \cup {0}]
        /\ hits' = M!NoHit \/ hits' \in [id: M!Ids, version: Versions]
    BY <1>2 DEF IndexInv, M!TypeOK
  <1>8. \A g \in {f} : disk'[g] = 0 \/ (latest < disk'[g] /\ disk'[g] <= latest')
    BY <1>4
  <1>9. \A g \in Notes \ {f} : /\ disk'[g] = disk[g]
                               /\ \A v, k : Holds(rows, g, v, k) => Holds(rows', g, v, k)
                               /\ \A v, k : Holds(chunks, g, v, k) => Holds(chunks', g, v, k)
    BY <1>2, <1>4
  <1>10. {f} \in SUBSET Notes
    OBVIOUS
  <1> QED BY <1>2, <1>4, <1>6, <1>7, <1>8, <1>9, <1>10, ChangePreserves

LEMMA ReadersCorrect ==
  ASSUME IndexInv, M!Search \/ M!StartFileWatcher
  PROVE  IndexInv'
  <1>1. UNCHANGED <<disk, latest, chunks, rows, status, running, timers, job, dirty>> /\ running
    BY DEF M!Search, M!StartFileWatcher, M!diskVars, M!indexVars
  <1>2. hits' = M!NoHit \/ hits' \in [id: M!Ids, version: Versions]
    BY DEF M!Search, M!StartFileWatcher, IndexInv, M!TypeOK
  <1>3. watching' \in BOOLEAN
    BY DEF M!Search, M!StartFileWatcher, IndexInv, M!TypeOK
  <1>4. M!TypeOK /\ latest <= latest' /\ {} \in SUBSET Notes
    BY <1>1, IndexFacts DEF IndexInv, M!TypeOK
  <1> QED BY <1>1, <1>2, <1>3, <1>4, ChangePreserves DEF M!TypeOK

-----------------------------------------------------------------------------
(* Indexing one file *)

LEMMA KeepsItself == \A t, f : Keeps(t, t, f)
  BY DEF Keeps

LEMMA ReadFileCorrect ==
  ASSUME IndexInv, NEW j \in Jobs, M!ReadFile(j)
  PROVE  IndexInv'
  <1>1. PICK r : r = [job[j] EXCEPT !.read = disk[job[j].file]]
    OBVIOUS
  <1>2. /\ job[j].at = "read" /\ job' = [job EXCEPT ![j] = r]
        /\ UNCHANGED <<disk, latest, chunks, rows, status, running, watching, timers, hits, dirty>>
    BY <1>1 DEF M!ReadFile, M!diskVars, M!indexVars
  <1>3. M!TypeOK /\ job[j].at \in M!Working /\ job[j].file \in Notes
    BY <1>2 DEF IndexInv, BoundsInv, JobOK, M!Working
  <1>4. disk[job[j].file] \in Versions \cup {0}
    BY <1>3, DiskFacts DEF M!TypeOK
  <1>5. /\ r \in M!Job /\ r.at = "read" /\ r.file = job[j].file /\ r.alone = job[j].alone
    BY <1>1, <1>2, <1>3, <1>4, JobTyped DEF M!Job
  <1>6. JobOK(r) /\ Progress(r)'
    BY <1>3, <1>5 DEF JobOK, Progress, Writing
  <1> QED BY <1>2, <1>3, <1>5, <1>6, KeepsItself, StagePreserves DEF M!TypeOK

LEMMA StatFileCorrect ==
  ASSUME IndexInv, NEW j \in Jobs, M!StatFile(j)
  PROVE  IndexInv'
  <1> DEFINE f == job[j].file
  <1>1. PICK r : r = [job[j] EXCEPT !.at = "delete", !.mtime = disk[f]]
    OBVIOUS
  <1>2. /\ job[j].at = "read" /\ job[j].read # 0 /\ disk[f] # 0
        /\ job' = [job EXCEPT ![j] = r] /\ chunks' = M!Without(chunks, f)
        /\ UNCHANGED <<disk, latest, rows, status, running, watching, timers, hits, dirty>>
    BY <1>1 DEF M!StatFile, M!diskVars
  <1>3. M!TypeOK /\ job[j].at \in M!Working /\ f \in Notes /\ disk[f] <= latest
    BY <1>2 DEF IndexInv, BoundsInv, JobOK, M!Working
  <1>4. disk[f] \in Versions \cup {0}
    BY <1>3, DiskFacts DEF M!TypeOK
  <1>5. /\ r \in M!Job /\ r.at = "delete" /\ r.mtime = disk[f] /\ r.read = job[j].read
        /\ r.file = f /\ r.alone = job[j].alone
    BY <1>1, <1>3, <1>4, JobTyped DEF M!Job, M!Working
  <1>6. /\ chunks' \in [M!Ids -> Versions \cup {0}] /\ Keeps(chunks', chunks, f)
        /\ \A w : Holds(chunks', f, w, 0)
    BY <1>2, <1>3, WithoutHolds DEF M!TypeOK
  <1>7. JobOK(r) /\ Progress(r)'
    BY <1>2, <1>3, <1>5, <1>6 DEF JobOK, Progress, Writing
  <1>8. rows' \in [M!Ids -> Versions \cup {0}] /\ Keeps(rows', rows, f) /\ r.at \in M!Working
    BY <1>2, <1>3, <1>5, KeepsItself DEF M!TypeOK, M!Working
  <1> QED BY <1>2, <1>3, <1>5, <1>6, <1>7, <1>8, StagePreserves

LEMMA DeleteChunksCorrect ==
  ASSUME IndexInv, NEW j \in Jobs, M!DeleteChunks(j)
  PROVE  IndexInv'
  <1>0. PICK f, v : f = job[j].file /\ v = job[j].read
    OBVIOUS
  <1>1. PICK r : r = [job[j] EXCEPT !.at = "save", !.k = 1]
    OBVIOUS
  <1>2. /\ job[j].at = "delete" /\ job' = [job EXCEPT ![j] = r]
        /\ rows' = M!Without(rows, f) /\ chunks' = [chunks EXCEPT ![<<f, 1>>] = v]
        /\ UNCHANGED <<disk, latest, status, running, watching, timers, hits, dirty>>
    BY <1>0, <1>1 DEF M!DeleteChunks, M!diskVars
  <1>3. /\ M!TypeOK /\ job[j].at \in M!Working /\ f \in Notes
        /\ v # 0 /\ job[j].mtime # 0 /\ job[j].mtime <= latest
    BY <1>0, <1>2 DEF IndexInv, BoundsInv, JobOK, M!Working, Writing
  <1>4. v \in Versions /\ CutInto(v) \in 1..MaxPieces /\ 1 \in 1..CutInto(v)
        /\ 1 \in 1..MaxPieces /\ 1 \in 0..MaxPieces
    <2>1. v \in Versions
      BY <1>0, <1>3, FieldsAre
    <2>2. CutInto(v) \in 1..MaxPieces /\ MaxPieces \in Nat
      BY <2>1, IndexFacts
    <2> QED BY <2>1, <2>2
  <1>5. /\ r \in M!Job /\ r.at = "save" /\ r.k = 1 /\ r.mtime = job[j].mtime /\ r.read = v
        /\ r.file = f /\ r.alone = job[j].alone
    BY <1>0, <1>1, <1>3, <1>4, JobTyped DEF M!Job, M!Working
  <1>6. /\ rows' \in [M!Ids -> Versions \cup {0}] /\ Keeps(rows', rows, f)
        /\ Holds(rows', f, v, 0)
    BY <1>2, <1>3, WithoutHolds DEF M!TypeOK
  <1>7. /\ chunks' \in [M!Ids -> Versions \cup {0}] /\ Keeps(chunks', chunks, f)
        /\ Holds(chunks, f, v, 1 - 1) => Holds(chunks', f, v, 1)
    <2>1. chunks \in [M!Ids -> Versions \cup {0}]
      BY <1>3 DEF M!TypeOK
    <2> QED BY <1>2, <1>3, <1>4, <2>1, PutHolds
  <1>8. 1 - 1 = 0
    OBVIOUS
  <1>9. Progress(r)'
    <2>1. Progress(job[j])
      BY DEF IndexInv, ProgressInv
    <2>2. job[j].alone /\ disk[f] = job[j].mtime => Holds(chunks, f, v, 0)
      BY <1>0, <1>2, <2>1 DEF Progress, Writing
    <2> QED BY <1>2, <1>5, <1>6, <1>7, <1>8, <2>2 DEF Progress
  <1>10. JobOK(r) /\ r.at \in M!Working
    BY <1>3, <1>4, <1>5 DEF JobOK, M!Working
  <1> QED BY <1>0, <1>2, <1>3, <1>5, <1>6, <1>7, <1>9, <1>10, StagePreserves

LEMMA SaveChunkCorrect ==
  ASSUME IndexInv, NEW j \in Jobs, M!SaveChunk(j)
  PROVE  IndexInv'
  <1>0. PICK f, k, v : f = job[j].file /\ k = job[j].k /\ v = job[j].read
    OBVIOUS
  <1> DEFINE more == k < CutInto(v)
  <1>1. PICK r : r = IF more THEN [job[j] EXCEPT !.k = k + 1] ELSE [job[j] EXCEPT !.at = "status"]
    OBVIOUS
  <1>2. /\ job[j].at = "save" /\ job' = [job EXCEPT ![j] = r]
        /\ rows' = [rows EXCEPT ![<<f, k>>] = v]
        /\ chunks' = IF more THEN [chunks EXCEPT ![<<f, k + 1>>] = v] ELSE chunks
        /\ UNCHANGED <<disk, latest, status, running, watching, timers, hits, dirty>>
    BY <1>0, <1>1 DEF M!SaveChunk, M!diskVars
  <1>3. /\ M!TypeOK /\ job[j].at \in M!Working /\ f \in Notes /\ k \in 1..CutInto(v)
        /\ v # 0 /\ job[j].mtime # 0 /\ job[j].mtime <= latest
    BY <1>0, <1>2 DEF IndexInv, BoundsInv, JobOK, M!Working, Writing
  <1>4. v \in Versions /\ CutInto(v) \in 1..MaxPieces /\ MaxPieces \in Nat
    BY <1>0, <1>3, FieldsAre, IndexFacts
  <1>5. /\ k \in 1..MaxPieces /\ (k + 1) - 1 = k
        /\ more => k + 1 \in 1..MaxPieces /\ k + 1 \in 1..CutInto(v)
        /\ ~more => k = CutInto(v)
    BY <1>3, <1>4
  <1>6. /\ rows' \in [M!Ids -> Versions \cup {0}] /\ Keeps(rows', rows, f)
        /\ Holds(rows, f, v, k - 1) => Holds(rows', f, v, k)
    <2>1. rows \in [M!Ids -> Versions \cup {0}]
      BY <1>3 DEF M!TypeOK
    <2> QED BY <1>2, <1>3, <1>4, <1>5, <2>1, PutHolds
  <1>7. /\ chunks' \in [M!Ids -> Versions \cup {0}] /\ Keeps(chunks', chunks, f)
        /\ Holds(chunks, f, v, k) => Holds(chunks', f, v, IF more THEN k + 1 ELSE k)
    <2>1. CASE more
      <3>1. PICK n : n = k + 1 /\ n - 1 = k
        BY <1>5
      <3>2. /\ chunks' \in [M!Ids -> Versions \cup {0}] /\ Keeps(chunks', chunks, f)
            /\ Holds(chunks, f, v, k) => Holds(chunks', f, v, k + 1)
        <4>1. chunks \in [M!Ids -> Versions \cup {0}]
          BY <1>3 DEF M!TypeOK
        <4>2. chunks' = [chunks EXCEPT ![<<f, n>>] = v] /\ n \in 1..MaxPieces
          BY <1>2, <1>5, <2>1, <3>1
        <4>3. /\ chunks' \in [M!Ids -> Versions \cup {0}] /\ Keeps(chunks', chunks, f)
              /\ Holds(chunks, f, v, n - 1) => Holds(chunks', f, v, n)
          <5>1. f \in Notes /\ v \in Versions
            BY <1>3, <1>4
          <5> QED BY <4>1, <4>2, <5>1, PutHolds
        <4> QED BY <3>1, <4>3
      <3> QED BY <1>5, <2>1, <3>2
    <2>2. CASE ~more
      BY <1>2, <1>3, <2>2, KeepsItself DEF M!TypeOK
    <2> QED BY <2>1, <2>2
  <1>8. /\ r \in M!Job /\ r.mtime = job[j].mtime /\ r.read = v /\ r.file = f
        /\ r.alone = job[j].alone
        /\ r.at = IF more THEN "save" ELSE "status"
        /\ more => r.k = k + 1
    <2>1. job[j] \in M!Job
      BY <1>3, JobTyped
    <2>2. CASE more
      <3>1. k + 1 \in 0..MaxPieces
        BY <1>4, <1>5, <2>2
      <3> QED BY <1>0, <1>1, <1>2, <2>1, <2>2, <3>1 DEF M!Job
    <2>3. CASE ~more
      BY <1>0, <1>1, <2>1, <2>3 DEF M!Job, M!Working
    <2> QED BY <2>2, <2>3
  <1>9. Progress(r)'
    <2>1. Progress(job[j])
      BY DEF IndexInv, ProgressInv
    <2>2. job[j].alone /\ disk[f] = job[j].mtime =>
            Holds(rows, f, v, k - 1) /\ Holds(chunks, f, v, k)
      BY <1>0, <1>2, <2>1 DEF Progress, Writing
    <2>3. job[j].alone /\ disk[f] = job[j].mtime =>
            Holds(rows', f, v, k) /\ Holds(chunks', f, v, IF more THEN k + 1 ELSE k)
      BY <1>6, <1>7, <2>2
    <2>4. CASE more
      BY <1>2, <1>5, <1>8, <2>3, <2>4 DEF Progress
    <2>5. CASE ~more
      BY <1>2, <1>5, <1>8, <2>3, <2>5 DEF Progress
    <2> QED BY <2>4, <2>5
  <1>10. JobOK(r) /\ r.at \in M!Working /\ r.at \notin {"check", "row"}
    BY <1>3, <1>5, <1>8 DEF JobOK, M!Working
  <1> QED BY <1>0, <1>2, <1>3, <1>6, <1>7, <1>8, <1>9, <1>10, StagePreserves

LEMMA UpdateStatusCorrect ==
  ASSUME IndexInv, NEW j \in Jobs, M!UpdateStatus(j)
  PROVE  IndexInv'
  <1>1. PICK f : f = job[j].file
    OBVIOUS
  <1>2. /\ job[j].at = "status" /\ status' = [status EXCEPT ![f] = job[j].mtime]
        /\ dirty' = IF job[j].alone /\ job[j].read = job[j].mtime
                       /\ (disk[f] = job[j].mtime \/ f \in timers)
                    THEN dirty \ {f} ELSE dirty \cup {f}
        /\ M!Done(j)
        /\ UNCHANGED <<disk, latest, chunks, rows, running, watching, timers, hits>>
    BY <1>1 DEF M!UpdateStatus, M!diskVars
  <1>3. M!TypeOK /\ job[j].at \in M!Working
    BY <1>2 DEF IndexInv, M!Working
  <1>4. PICK r \in M!Job : job' = [job EXCEPT ![j] = r] /\ r.at \in {"idle", "next"}
    BY <1>2, <1>3, DoneIs
  <1>5. status' \in [Notes -> Versions \cup {0}]
    BY <1>2, <1>3, FieldsAre DEF M!TypeOK
  <1>6. ASSUME Untouched(f)', disk[f] # 0 PROVE Indexed(f)
    <2>1. job[j].alone /\ job[j].read = job[j].mtime /\ disk[f] = job[j].mtime
      BY <1>2, <1>6 DEF Untouched
    <2>2. Progress(job[j])
      BY DEF IndexInv, ProgressInv
    <2> QED BY <1>1, <1>2, <2>1, <2>2 DEF Progress, Writing, Indexed
  <1>7. dirty' = dirty \cup {f} \/ (job[j].alone /\ dirty' = dirty \ {f})
    BY <1>2
  <1> QED BY <1>1, <1>2, <1>3, <1>4, <1>5, <1>6, <1>7, EndPreserves

LEMMA IndexFailsCorrect ==
  ASSUME IndexInv, NEW j \in Jobs, M!IndexFails(j)
  PROVE  IndexInv'
  <1>1. PICK f : f = job[j].file
    OBVIOUS
  <1>2. /\ job[j].at \in {"read", "delete", "save", "status"} /\ dirty' = dirty \cup {f} /\ M!Done(j)
        /\ UNCHANGED <<disk, latest, chunks, rows, status, running, watching, timers, hits>>
    BY <1>1 DEF M!IndexFails, M!diskVars, M!indexVars
  <1>3. M!TypeOK /\ job[j].at \in M!Working /\ status' \in [Notes -> Versions \cup {0}]
    BY <1>2 DEF IndexInv, M!Working, M!TypeOK
  <1>4. PICK r \in M!Job : job' = [job EXCEPT ![j] = r] /\ r.at \in {"idle", "next"}
    BY <1>2, <1>3, DoneIs
  <1>5. ~Untouched(f)'
    BY <1>2 DEF Untouched
  <1> QED BY <1>1, <1>2, <1>3, <1>4, <1>5, EndPreserves

LEMMA CheckNeedsReindexCorrect ==
  ASSUME IndexInv, NEW j \in Jobs, M!CheckNeedsReindex(j)
  PROVE  IndexInv'
  <1>1. PICK f : f = job[j].file
    OBVIOUS
  <1>2. /\ job[j].at \in {"check", "row"}
        /\ UNCHANGED <<disk, latest, chunks, rows, status, running, watching, timers, hits, dirty>>
    BY DEF M!CheckNeedsReindex, M!diskVars, M!indexVars
  <1>3. M!TypeOK /\ job[j].at \in M!Working /\ f \in Notes
    BY <1>1, <1>2 DEF IndexInv, BoundsInv, JobOK, M!Working
  <1>4. disk[f] \in Versions \cup {0} /\ 0 \in Versions \cup {0}
    BY <1>3, DiskFacts DEF M!TypeOK
  <1>5. ASSUME NEW at \in {"read", "row"}, NEW mtime \in Versions \cup {0},
               job' = [job EXCEPT ![j] = [job[j] EXCEPT !.at = at, !.mtime = mtime]]
        PROVE  IndexInv'
    <2>1. PICK r : r = [job[j] EXCEPT !.at = at, !.mtime = mtime]
      OBVIOUS
    <2>2. r \in M!Job /\ r.at = at /\ r.file = f /\ r.alone = job[j].alone
      BY <1>1, <1>3, <2>1, JobTyped DEF M!Job, M!Working
    <2>3. JobOK(r) /\ Progress(r)' /\ r.at \in M!Working
      BY <1>3, <2>2 DEF JobOK, Progress, Writing, M!Working
    <2> QED BY <1>1, <1>2, <1>3, <1>5, <2>1, <2>2, <2>3, KeepsItself, StagePreserves DEF M!TypeOK
  <1>6. ASSUME M!Done(j) PROVE IndexInv'
    <2>1. PICK r \in M!Job : job' = [job EXCEPT ![j] = r] /\ r.at \in {"idle", "next"}
      BY <1>3, <1>6, DoneIs
    <2>2. status' \in [Notes -> Versions \cup {0}] /\ dirty' \in {dirty, dirty \cup {f}}
      BY <1>2, <1>3 DEF M!TypeOK
    <2>3. Untouched(f)' => Untouched(f)
      <3>1. \A k \in Jobs : k # j => job'[k] = job[k]
        BY <1>3, <2>1, JobIs
      <3>2. \A k \in M!On(f) : k = j \/ k \in M!On(f)'
        BY <3>1 DEF M!On
      <3> QED BY <1>2, <3>1, <3>2 DEF Untouched, M!On
    <2> QED BY <1>1, <1>2, <1>3, <2>1, <2>2, <2>3, EndPreserves
  <1>7. \/ \E at \in {"read", "row"}, mtime \in Versions \cup {0} :
             job' = [job EXCEPT ![j] = [job[j] EXCEPT !.at = at, !.mtime = mtime]]
        \/ M!Done(j)
    <2>1. CASE job[j].at = "check"
      <3>1. job' = [job EXCEPT ![j] = [job[j] EXCEPT !.at = IF disk[f] = 0 THEN "read" ELSE "row",
                                                     !.mtime = disk[f]]]
        BY <1>1, <2>1 DEF M!CheckNeedsReindex
      <3> QED BY <1>4, <3>1
    <2>2. CASE job[j].at = "row"
      <3>1. \/ job' = [job EXCEPT ![j] = [job[j] EXCEPT !.at = "read", !.mtime = 0]]
            \/ M!Done(j)
        BY <1>1, <2>2 DEF M!CheckNeedsReindex
      <3> QED BY <1>4, <3>1
    <2> QED BY <1>2, <2>1, <2>2
  <1> QED BY <1>5, <1>6, <1>7

-----------------------------------------------------------------------------
(* Whoever has files indexed *)

LEMMA WriteFileCorrect ==
  ASSUME IndexInv, NEW j \in Jobs, NEW f \in Notes, M!WriteFile(j, f)
  PROVE  IndexInv'
  <1>1. /\ running /\ job[j].at = "idle" /\ M!Begin(j, f, "read", {})
        /\ latest + 1 \in Versions /\ latest' = latest + 1
        /\ disk' = [disk EXCEPT ![f] = latest + 1] /\ timers' = timers \cup {f}
        /\ UNCHANGED <<chunks, rows, status, running, watching, hits>>
    BY DEF M!WriteFile, M!indexVars
  <1>2. M!TypeOK /\ latest \in Nat
    BY DiskFacts DEF IndexInv
  <1>3. /\ disk' \in [Notes -> Versions \cup {0}] /\ latest' \in Versions \cup {0}
        /\ disk'[f] = latest' /\ \A g \in Notes \ {f} : disk'[g] = disk[g]
    BY <1>1, <1>2 DEF M!TypeOK
  <1>4. latest <= latest' /\ latest < disk'[f] /\ disk'[f] <= latest'
    BY <1>1, <1>2, <1>3
  <1>5. /\ \A g \in Notes \ {f} : disk'[g] = disk[g] /\ (g \in timers' <=> g \in timers)
        /\ timers' \subseteq Notes
    BY <1>1, <1>2, <1>3 DEF M!TypeOK
  <1> QED BY <1>1, <1>3, <1>4, <1>5, BeginPreserves

LEMMA TimerFiresCorrect ==
  ASSUME IndexInv, NEW j \in Jobs, NEW f \in Notes, M!TimerFires(j, f)
  PROVE  IndexInv'
  <1>1. /\ f \in timers /\ job[j].at = "idle" /\ timers' = timers \ {f}
        /\ M!Begin(j, f, "read", {})
        /\ UNCHANGED <<disk, latest, chunks, rows, status, running, watching, hits>>
    BY DEF M!TimerFires, M!diskVars, M!indexVars
  <1>2. M!TypeOK /\ running
    BY <1>1 DEF IndexInv, BoundsInv
  <1>3. latest <= latest' /\ disk' \in [Notes -> Versions \cup {0}] /\ latest' \in Versions \cup {0}
    BY <1>1, <1>2, DiskFacts DEF M!TypeOK
  <1>4. /\ \A g \in Notes \ {f} : disk'[g] = disk[g] /\ (g \in timers' <=> g \in timers)
        /\ timers' \subseteq Notes
    BY <1>1, <1>2 DEF M!TypeOK
  <1> QED BY <1>1, <1>2, <1>3, <1>4, BeginPreserves

LEMMA NextFileCorrect ==
  ASSUME IndexInv, NEW j \in Jobs, M!NextFile(j)
  PROVE  IndexInv'
  <1>1. /\ job[j].at = "next"
        /\ UNCHANGED <<disk, latest, chunks, rows, status, running, watching, timers, hits>>
    BY DEF M!NextFile, M!diskVars, M!indexVars
  <1>2. PICK f \in job[j].todo, at \in {"check", "read"} : M!Begin(j, f, at, job[j].todo \ {f})
    BY DEF M!NextFile
  <1>3. M!TypeOK /\ running
    BY <1>1 DEF IndexInv, BoundsInv, M!Idle
  <1>4. f \in Notes /\ job[j].todo \ {f} \in SUBSET Notes
    BY <1>3, FieldsAre
  <1>5. /\ latest <= latest' /\ disk' \in [Notes -> Versions \cup {0}]
        /\ latest' \in Versions \cup {0} /\ timers' \subseteq Notes
    BY <1>1, <1>3, DiskFacts DEF M!TypeOK
  <1> QED BY <1>1, <1>2, <1>3, <1>4, <1>5, BeginPreserves

LEMMA SyncCorrect ==
  ASSUME IndexInv, NEW j \in Jobs, M!Sync(j) \/ M!Initialize(j)
  PROVE  IndexInv'
  <1>1. /\ M!StartSync(j, "due") /\ running' = TRUE /\ chunks' = IF running THEN chunks ELSE rows
        /\ UNCHANGED <<disk, latest, rows, status, watching, timers, hits, dirty>>
    BY DEF M!Sync, M!Initialize, M!diskVars, M!indexVars, IndexInv, M!TypeOK
  <1>2. M!TypeOK /\ job[j].at = "idle"
    BY DEF M!Sync, M!Initialize, IndexInv, BoundsInv, M!Idle
  <1>3. PICK r \in M!Job : job' = [job EXCEPT ![j] = r] /\ r.at = "next"
    BY <1>1, <1>2, SyncIs
  <1>4. /\ chunks' \in [M!Ids -> Versions \cup {0}] /\ rows' \in [M!Ids -> Versions \cup {0}]
        /\ Keeps(rows', rows, Nobody)
        /\ IF running THEN Keeps(chunks', chunks, Nobody) ELSE chunks' = rows
    BY <1>1, <1>2, KeepsItself DEF M!TypeOK
  <1>5. JobOK(r)
    BY <1>3 DEF JobOK, M!Working, Writing
  <1> QED BY <1>1, <1>2, <1>3, <1>4, <1>5, RestPreserves DEF Resting

LEMMA IndexSessionsCorrect ==
  ASSUME IndexInv, NEW j \in Jobs, M!IndexSessions(j)
  PROVE  IndexInv'
  <1> DEFINE lines == {i \in M!Ids : i[1] \in Transcripts /\ i[2] <= DocLines}
             Read(table) == [i \in M!Ids |-> IF i \in lines THEN i[2] ELSE table[i]]
  <1>1. /\ job[j].at = "next" /\ job' = [job EXCEPT ![j] = M!Idle]
        /\ chunks' = Read(chunks) /\ rows' = Read(rows)
        /\ UNCHANGED <<disk, latest, status, running, watching, timers, hits, dirty>>
    BY DEF M!IndexSessions, M!diskVars
  <1>2. M!TypeOK /\ running = TRUE
    BY <1>1 DEF IndexInv, BoundsInv, M!Idle, M!TypeOK
  <1>3. M!Idle \in M!Job /\ M!Idle.at = "idle"
    BY <1>2, JobTyped DEF M!Idle
  <1>4. ASSUME NEW i \in lines PROVE i[2] \in Versions
    <2>1. i[2] \in 1..MaxPieces /\ i[2] <= DocLines
      BY DEF M!Ids
    <2>2. i[2] \in 1..DocLines
      BY <2>1, IndexFacts
    <2> QED BY <2>2, IndexFacts
  <1>5. \A i \in M!Ids : i[1] \in Notes => i \notin lines
    BY IndexFacts
  <1> HIDE DEF lines
  <1>6. ASSUME NEW t \in [M!Ids -> Versions \cup {0}]
        PROVE  Read(t) \in [M!Ids -> Versions \cup {0}] /\ Keeps(Read(t), t, Nobody)
    <2>1. Read(t) \in [M!Ids -> Versions \cup {0}]
      BY <1>4
    <2>2. \A i \in M!Ids : i[1] \in Notes => Read(t)[i] = t[i]
      BY <1>5
    <2> QED BY <2>1, <2>2 DEF Keeps, Holds, M!Of
  <1> HIDE DEF Read
  <1>7. /\ chunks' \in [M!Ids -> Versions \cup {0}] /\ Keeps(chunks', chunks, Nobody)
        /\ rows' \in [M!Ids -> Versions \cup {0}] /\ Keeps(rows', rows, Nobody)
    BY <1>1, <1>2, <1>6 DEF M!TypeOK
  <1>8. JobOK(M!Idle)
    BY <1>3 DEF JobOK, M!Working, Writing
  <1> QED BY <1>1, <1>2, <1>3, <1>7, <1>8, RestPreserves DEF Resting

-----------------------------------------------------------------------------
(* memory.reindex *)

(* A step of it that takes nothing out of the index.                        *)
LEMMA ReindexCorrect ==
  ASSUME IndexInv, NEW j \in Jobs,
         M!Reindex(j) \/ M!GetAllTrackedPaths(j) \/ M!SyncForced(j) \/ M!ReindexFails(j)
  PROVE  IndexInv'
  <1>1. /\ job[j].at \in Resting
        /\ UNCHANGED <<disk, latest, chunks, rows, status, running, watching, timers, hits, dirty>>
    BY DEF M!Reindex, M!GetAllTrackedPaths, M!SyncForced, M!ReindexFails, M!diskVars, M!indexVars,
           Resting
  <1>2. M!TypeOK /\ running = TRUE
    BY DEF M!Reindex, M!GetAllTrackedPaths, M!SyncForced, M!ReindexFails, IndexInv, BoundsInv,
           M!TypeOK, M!Idle
  <1>3. \E r \in M!Job : job' = [job EXCEPT ![j] = r] /\ r.at \in Resting \ {"gone"}
    <2>1. CASE M!StartSync(j, "forced")
      BY <1>2, <2>1, SyncIs DEF Resting
    <2>2. ASSUME NEW gone \in SUBSET Notes,
                 job' = [job EXCEPT ![j] = [M!Idle EXCEPT !.at = "track", !.todo = gone]]
          PROVE  \E r \in M!Job : job' = [job EXCEPT ![j] = r] /\ r.at \in Resting \ {"gone"}
      <3>1. PICK r : r = [M!Idle EXCEPT !.at = "track", !.todo = gone]
        OBVIOUS
      <3>2. r \in M!Job /\ r.at = "track"
        BY <1>2, <3>1, JobTyped DEF M!Job, M!Idle
      <3> QED BY <2>2, <3>1, <3>2 DEF Resting
    <2>3. ASSUME NEW tracked \in SUBSET Notes,
                 job' = [job EXCEPT ![j].at = "stale", ![j].todo = tracked]
          PROVE  \E r \in M!Job : job' = [job EXCEPT ![j] = r] /\ r.at \in Resting \ {"gone"}
      <3>1. PICK r : r = [job[j] EXCEPT !.at = "stale", !.todo = tracked]
        OBVIOUS
      <3>2. r \in M!Job /\ r.at = "stale"
        BY <1>2, <3>1, JobTyped DEF M!Job
      <3>3. job' = [job EXCEPT ![j] = r]
        BY <1>2, <2>3, <3>1 DEF M!TypeOK
      <3> QED BY <3>2, <3>3 DEF Resting
    <2>4. CASE M!Reindex(j)
      <3>1. PICK gone : gone = {f \in Notes : disk[f] = 0}
        OBVIOUS
      <3>2. gone \in SUBSET Notes
        BY <3>1
      <3>3. \/ M!StartSync(j, "forced")
            \/ job' = [job EXCEPT ![j] = [M!Idle EXCEPT !.at = "track", !.todo = gone]]
        BY <2>4, <3>1 DEF M!Reindex
      <3> QED BY <2>1, <2>2, <3>2, <3>3
    <2>5. CASE M!GetAllTrackedPaths(j)
      <3>1. PICK tracked : tracked = {f \in job[j].todo : status[f] # 0}
        OBVIOUS
      <3>2. tracked \in SUBSET Notes
        BY <1>2, <3>1, FieldsAre
      <3>3. \/ M!StartSync(j, "forced")
            \/ job' = [job EXCEPT ![j].at = "stale", ![j].todo = tracked]
        BY <2>5, <3>1 DEF M!GetAllTrackedPaths
      <3> QED BY <2>1, <2>3, <3>2, <3>3
    <2>6. CASE M!SyncForced(j)
      BY <2>1, <2>6 DEF M!SyncForced
    <2>7. CASE M!ReindexFails(j)
      BY <1>2, <2>7, JobTyped DEF M!ReindexFails, M!Idle, Resting
    <2> QED BY <2>4, <2>5, <2>6, <2>7
  <1>4. PICK r \in M!Job : job' = [job EXCEPT ![j] = r] /\ r.at \in Resting \ {"gone"}
    BY <1>3
  <1>5. JobOK(r)
    BY <1>4 DEF JobOK, M!Working, Writing, Resting
  <1>6. /\ chunks' \in [M!Ids -> Versions \cup {0}] /\ rows' \in [M!Ids -> Versions \cup {0}]
        /\ Keeps(rows', rows, Nobody) /\ Keeps(chunks', chunks, Nobody)
    BY <1>1, <1>2, KeepsItself DEF M!TypeOK
  <1> QED BY <1>1, <1>2, <1>4, <1>5, <1>6, RestPreserves

(* What the runs become when f is taken out of the index.                   *)
LEMMA TakenIs ==
  ASSUME M!TypeOK, NEW j \in Jobs, NEW f \in Notes, NEW stage \in {"stale", "gone"},
         NEW todo \in SUBSET Notes, M!TakenOut(f, j, stage, todo), job[j].at \in Resting
  PROVE  /\ job' \in [Jobs -> M!Job]
         /\ job'[j].at = stage /\ job'[j].file = f
         /\ \A k \in Jobs \ {j} :
              /\ job'[k].at = job[k].at /\ job'[k].file = job[k].file /\ job'[k].read = job[k].read
              /\ job'[k].mtime = job[k].mtime /\ job'[k].k = job[k].k
              /\ job'[k].alone <=> (job[k].alone /\ k \notin M!On(f))
         /\ \A g : M!On(g)' = M!On(g)
  <1>1. PICK r : r = [M!Idle EXCEPT !.at = stage, !.file = f, !.todo = todo]
    OBVIOUS
  <1>2. r \in M!Job /\ r.at = stage /\ r.file = f
    BY <1>1, JobTyped DEF M!Job, M!Idle
  <1>3. PICK s : s = M!Spoiled(f)
    OBVIOUS
  <1>4. job' = [s EXCEPT ![j] = r]
    BY <1>1, <1>3 DEF M!TakenOut
  <1>5. /\ s \in [Jobs -> M!Job]
        /\ \A k \in Jobs : /\ s[k].at = job[k].at /\ s[k].file = job[k].file
                           /\ s[k].read = job[k].read
                           /\ s[k].mtime = job[k].mtime /\ s[k].k = job[k].k
                           /\ s[k].alone <=> (job[k].alone /\ k \notin M!On(f))
    BY <1>3, SpoiledIs DEF M!Docs
  <1>6. job' \in [Jobs -> M!Job] /\ job'[j] = r /\ \A k \in Jobs \ {j} : job'[k] = s[k]
    BY <1>2, <1>4, <1>5
  <1>7. \A k \in Jobs \ {j} :
              /\ job'[k].at = job[k].at /\ job'[k].file = job[k].file /\ job'[k].read = job[k].read
              /\ job'[k].mtime = job[k].mtime /\ job'[k].k = job[k].k
              /\ job'[k].alone <=> (job[k].alone /\ k \notin M!On(f))
    BY <1>5, <1>6
  <1>8. job[j].at \notin M!Working /\ job'[j].at \notin M!Working
    BY <1>2, <1>6 DEF M!Working, Resting
  <1>9. \A g : M!On(g)' = M!On(g)
    BY <1>7, <1>8 DEF M!On
  <1> QED BY <1>2, <1>6, <1>7, <1>9

(* The chunks of a file are taken out of the map, or their rows out of the  *)
(* table: the file is marked, and whoever is at work on it.                 *)
LEMMA TakenOutPreserves ==
  ASSUME IndexInv, NEW j \in Jobs, NEW f \in Notes, NEW stage \in {"stale", "gone"},
         NEW todo \in SUBSET Notes, M!TakenOut(f, j, stage, todo),
         job[j].at \in Resting, running,
         UNCHANGED <<disk, latest, status, running, watching, timers, hits>>,
         chunks' \in [M!Ids -> Versions \cup {0}], Keeps(chunks', chunks, f),
         rows' \in [M!Ids -> Versions \cup {0}], Keeps(rows', rows, f)
  PROVE  IndexInv'
  <1>1. M!TypeOK /\ dirty' = dirty \cup {f}
    BY DEF IndexInv, M!TakenOut
  <1>2. /\ job' \in [Jobs -> M!Job] /\ job'[j].at = stage /\ job'[j].file = f
        /\ \A g : M!On(g)' = M!On(g)
    BY <1>1, TakenIs
  <1>3. \A k \in Jobs \ {j} :
              /\ job'[k].at = job[k].at /\ job'[k].file = job[k].file /\ job'[k].read = job[k].read
              /\ job'[k].mtime = job[k].mtime /\ job'[k].k = job[k].k
              /\ job'[k].alone <=> (job[k].alone /\ k \notin M!On(f))
    BY <1>1, TakenIs
  <1>4. stage \notin M!Working /\ stage \notin Writing
    BY DEF M!Working, Writing
  <1>5. M!TypeOK'
    BY <1>1, <1>2 DEF M!TypeOK
  <1>6. BoundsInv'
    <2>1. ASSUME NEW k \in Jobs PROVE JobOK(job[k])'
      <3>1. CASE k = j
        BY <1>2, <1>4, <3>1 DEF JobOK
      <3>2. CASE k # j
        BY <1>3, <3>2 DEF IndexInv, BoundsInv, JobOK
      <3> QED BY <3>1, <3>2
    <2> QED BY <2>1 DEF IndexInv, BoundsInv
  <1>7. ASSUME NEW k \in Jobs, job'[k].at \in M!Working
        PROVE  (IF job[k].alone THEN M!On(job[k].file) = {k} ELSE job[k].file \in dirty)'
    <2>1. k \in Jobs \ {j}
      BY <1>2, <1>4, <1>7
    <2>2. /\ job[k].at \in M!Working
          /\ IF job[k].alone THEN M!On(job[k].file) = {k} ELSE job[k].file \in dirty
      BY <1>3, <1>7, <2>1 DEF IndexInv, AloneInv
    <2>3. k \in M!On(f) <=> job[k].file = f
      BY <2>2 DEF M!On
    <2> QED BY <1>1, <1>2, <1>3, <2>1, <2>2, <2>3
  <1>8. ASSUME NEW k \in Jobs PROVE Progress(job[k])'
    <2>1. CASE job'[k].at \in Writing /\ job'[k].alone
      <3>1. k \in Jobs \ {j}
        BY <1>2, <1>4, <2>1
      <3>2. Progress(job[k]) /\ JobOK(job[k])
        BY DEF IndexInv, ProgressInv, BoundsInv
      <3>3. job[k].file \in Notes \ {f}
        BY <1>3, <2>1, <3>1, <3>2 DEF JobOK, M!On, M!Working, Writing
      <3> QED BY <1>3, <2>1, <3>1, <3>2, <3>3 DEF Progress, Keeps
    <2>2. CASE ~(job'[k].at \in Writing /\ job'[k].alone)
      BY <2>2 DEF Progress
    <2> QED BY <2>1, <2>2
  <1>9. ASSUME NEW g \in Notes, Untouched(g)', disk'[g] # 0 PROVE Indexed(g)'
    <2>1. g # f /\ g \notin dirty \cup timers
      BY <1>1, <1>9 DEF Untouched
    <2>2. \A k \in M!On(g) : k \in M!On(g)' /\ k \in Jobs \ {j}
      BY <1>2, <1>4 DEF M!On
    <2>3. \A k \in M!On(g) : job[k].at \in {"check", "row"}
      BY <1>3, <1>9, <2>2 DEF Untouched
    <2>4. Indexed(g)
      BY <1>9, <2>1, <2>3 DEF Untouched, IndexInv, IndexedInv
    <2> QED BY <2>1, <2>4 DEF Indexed, Keeps
  <1> QED BY <1>5, <1>6, <1>7, <1>8, <1>9 DEF IndexInv, AloneInv, ProgressInv, IndexedInv

LEMMA RemoveStaleCorrect ==
  ASSUME IndexInv, NEW j \in Jobs, M!RemoveStale(j) \/ M!DeleteStale(j)
  PROVE  IndexInv'
  <1>1. job[j].at \in {"stale", "gone"}
    BY DEF M!RemoveStale, M!DeleteStale
  <1>2. M!TypeOK /\ running /\ job[j].at \in Resting /\ job[j].todo \in SUBSET Notes
    BY <1>1, FieldsAre DEF IndexInv, BoundsInv, M!Idle, Resting
  <1>3. chunks \in [M!Ids -> Versions \cup {0}] /\ rows \in [M!Ids -> Versions \cup {0}]
    BY <1>2 DEF M!TypeOK
  <1>4. CASE M!RemoveStale(j)
    <2>1. PICK f \in job[j].todo : /\ chunks' = M!Without(chunks, f)
                                   /\ M!TakenOut(f, j, "gone", job[j].todo \ {f})
      BY <1>4 DEF M!RemoveStale
    <2>2. UNCHANGED <<disk, latest, rows, status, running, watching, timers, hits>>
      BY <1>4 DEF M!RemoveStale, M!diskVars
    <2>3. f \in Notes /\ job[j].todo \ {f} \in SUBSET Notes
      BY <1>2
    <2>4. /\ chunks' \in [M!Ids -> Versions \cup {0}] /\ Keeps(chunks', chunks, f)
          /\ rows' \in [M!Ids -> Versions \cup {0}] /\ Keeps(rows', rows, f)
      BY <1>3, <2>1, <2>2, <2>3, WithoutHolds, KeepsItself
    <2> QED BY <1>2, <2>1, <2>2, <2>3, <2>4, TakenOutPreserves
  <1>5. CASE M!DeleteStale(j)
    <2>1. PICK f : f = job[j].file
      OBVIOUS
    <2>2. /\ job[j].at = "gone" /\ rows' = M!Without(rows, f)
          /\ M!TakenOut(f, j, "stale", job[j].todo)
          /\ UNCHANGED <<disk, latest, chunks, status, running, watching, timers, hits>>
      BY <1>5, <2>1 DEF M!DeleteStale, M!diskVars
    <2>3. f \in Notes
      BY <2>1, <2>2 DEF IndexInv, BoundsInv, JobOK
    <2>4. /\ chunks' \in [M!Ids -> Versions \cup {0}] /\ Keeps(chunks', chunks, f)
          /\ rows' \in [M!Ids -> Versions \cup {0}] /\ Keeps(rows', rows, f)
      BY <1>3, <2>2, <2>3, WithoutHolds, KeepsItself
    <2> QED BY <1>2, <2>2, <2>3, <2>4, TakenOutPreserves
  <1> QED BY <1>4, <1>5

-----------------------------------------------------------------------------
(* Searches, and the end of the process *)

(* A hit that comes late is put back into the map, and marks its file.      *)
LEMMA MergeHitsCorrect ==
  ASSUME IndexInv, M!MergeHits
  PROVE  IndexInv'
  <1>1. PICK i : i = hits.id
    OBVIOUS
  <1>2. /\ hits # M!NoHit /\ hits' = M!NoHit
        /\ UNCHANGED <<disk, latest, rows, status, running, watching, timers>>
    BY DEF M!MergeHits, M!diskVars
  <1>3. /\ M!TypeOK /\ running /\ i \in M!Ids /\ hits.version \in Versions
        /\ i[1] \in M!Docs
    BY <1>1, <1>2 DEF IndexInv, BoundsInv, M!TypeOK, M!Ids
  <1>4. CASE chunks[i] # 0
    <2>1. UNCHANGED <<chunks, dirty, job>>
      BY <1>1, <1>4 DEF M!MergeHits
    <2>2. latest <= latest' /\ {} \in SUBSET Notes
      BY <1>2, <1>3, DiskFacts
    <2> QED BY <1>2, <1>3, <2>1, <2>2, ChangePreserves DEF M!TypeOK
  <1>5. CASE chunks[i] = 0
    <2>1. /\ chunks' = [chunks EXCEPT ![i] = hits.version]
          /\ dirty' = dirty \cup ({i[1]} \cap Notes)
          /\ job' = M!Spoiled(i[1])
      BY <1>1, <1>5 DEF M!MergeHits
    <2>2. /\ job' \in [Jobs -> M!Job]
          /\ \A k \in Jobs : /\ job'[k].at = job[k].at /\ job'[k].file = job[k].file
                             /\ job'[k].read = job[k].read
                             /\ job'[k].mtime = job[k].mtime /\ job'[k].k = job[k].k
                             /\ job'[k].alone <=> (job[k].alone /\ k \notin M!On(i[1]))
      BY <1>3, <2>1, SpoiledIs
    <2>3. \A f : M!On(f)' = M!On(f)
      BY <2>2 DEF M!On
    <2>4. chunks' \in [M!Ids -> Versions \cup {0}] /\ Keeps(chunks', chunks, i[1])
      <3>1. \A x \in M!Ids : x # i => chunks'[x] = chunks[x]
        BY <1>3, <2>1 DEF M!TypeOK
      <3>2. Keeps(chunks', chunks, i[1])
        BY <3>1 DEF Keeps, Holds, M!Of
      <3> QED BY <1>3, <2>1, <3>2 DEF M!TypeOK
    <2>5. M!TypeOK'
      BY <1>2, <1>3, <2>1, <2>2, <2>4 DEF M!TypeOK
    <2>6. BoundsInv'
      <3>1. \A k \in Jobs : JobOK(job[k])'
        BY <1>2, <2>2 DEF IndexInv, BoundsInv, JobOK
      <3> QED BY <1>2, <1>3, <3>1 DEF IndexInv, BoundsInv
    <2>7. ASSUME NEW k \in Jobs, job'[k].at \in M!Working
          PROVE  (IF job[k].alone THEN M!On(job[k].file) = {k} ELSE job[k].file \in dirty)'
      <3>1. /\ job[k].at \in M!Working /\ job[k].file \in Notes
            /\ IF job[k].alone THEN M!On(job[k].file) = {k} ELSE job[k].file \in dirty
        BY <2>2, <2>7 DEF IndexInv, AloneInv, BoundsInv, JobOK
      <3>2. k \in M!On(i[1]) <=> job[k].file = i[1]
        BY <3>1 DEF M!On
      <3> QED BY <2>1, <2>2, <2>3, <3>1, <3>2
    <2>8. ASSUME NEW k \in Jobs PROVE Progress(job[k])'
      <3>1. Progress(job[k]) /\ JobOK(job[k])
        BY DEF IndexInv, ProgressInv, BoundsInv
      <3>2. CASE job'[k].at \in Writing /\ job'[k].alone
        <4>1. job[k].file \in Notes \ {i[1]}
          BY <2>2, <3>1, <3>2 DEF JobOK, M!On, M!Working, Writing
        <4> QED BY <1>2, <2>2, <2>4, <3>1, <3>2, <4>1 DEF Progress, Keeps
      <3>3. CASE ~(job'[k].at \in Writing /\ job'[k].alone)
        BY <3>3 DEF Progress
      <3> QED BY <3>2, <3>3
    <2>9. ASSUME NEW f \in Notes, Untouched(f)', disk'[f] # 0 PROVE Indexed(f)'
      <3>1. f # i[1] /\ Untouched(f)
        BY <1>2, <2>1, <2>2, <2>3, <2>9 DEF Untouched, M!On
      <3>2. Indexed(f)
        BY <1>2, <2>9, <3>1 DEF IndexInv, IndexedInv
      <3> QED BY <1>2, <2>4, <3>1, <3>2 DEF Indexed, Keeps
    <2> QED BY <2>5, <2>6, <2>7, <2>8, <2>9 DEF IndexInv, AloneInv, ProgressInv, IndexedInv
  <1> QED BY <1>4, <1>5

LEMMA CrashCorrect ==
  ASSUME IndexInv, M!Crash
  PROVE  IndexInv'
  <1>1. /\ running' = FALSE /\ watching' = FALSE /\ timers' = {} /\ hits' = M!NoHit
        /\ dirty' = dirty \cup timers \cup {f \in Notes : M!On(f) # {}}
        /\ job' = [j \in Jobs |-> M!Idle] /\ chunks' = [i \in M!Ids |-> 0]
        /\ UNCHANGED <<disk, latest, rows, status>>
    BY DEF M!Crash, M!diskVars
  <1>2. \A k \in Jobs : job'[k] = M!Idle /\ job'[k].at \notin M!Working /\ job'[k].at \notin Writing
    BY <1>1 DEF M!Idle, M!Working, Writing
  <1>3. M!TypeOK'
    <2>1. M!Idle \in M!Job
      BY IndexFacts DEF M!Job, M!Idle, M!Working
    <2> QED BY <1>1, <2>1 DEF IndexInv, M!TypeOK
  <1>4. BoundsInv'
    <2>1. \A k \in Jobs : JobOK(job[k])'
      BY <1>2 DEF JobOK, Writing, M!Idle
    <2> QED BY <1>1, <1>2, <2>1 DEF IndexInv, BoundsInv
  <1>5. AloneInv' /\ ProgressInv'
    BY <1>2 DEF AloneInv, ProgressInv, Progress
  <1>6. ASSUME NEW f \in Notes, Untouched(f)', disk[f] # 0 PROVE Indexed(f)'
    <2>1. Untouched(f)
      BY <1>1, <1>6 DEF Untouched
    <2> QED BY <1>1, <1>6, <2>1 DEF IndexInv, IndexedInv, Indexed
  <1> QED BY <1>1, <1>3, <1>4, <1>5, <1>6 DEF IndexInv, IndexedInv

-----------------------------------------------------------------------------
LEMMA IndexInit == M!Init => IndexInv
  <1> SUFFICES ASSUME M!Init PROVE IndexInv
    OBVIOUS
  <1>1. M!Idle \in M!Job /\ M!Idle.at \notin M!Working /\ M!Idle.at \notin Writing
    BY IndexFacts DEF M!Job, M!Idle, M!Working, Writing
  <1>2. M!TypeOK
    BY <1>1 DEF M!Init, M!TypeOK
  <1>3. \A k \in Jobs : job[k] = M!Idle
    BY DEF M!Init
  <1>4. BoundsInv
    <2>1. \A f \in Notes : disk[f] = 0 /\ latest = 0
      BY DEF M!Init
    <2>2. \A k \in Jobs : JobOK(job[k])
      BY <1>1, <1>3 DEF JobOK, Writing, M!Idle
    <2> QED BY <1>3, <2>1, <2>2, IndexFacts, DiskFacts DEF BoundsInv, M!Init
  <1>5. AloneInv /\ ProgressInv
    BY <1>1, <1>3 DEF AloneInv, ProgressInv, Progress
  <1>6. IndexedInv
    BY DiskFacts DEF IndexedInv, M!Init
  <1> QED BY <1>2, <1>4, <1>5, <1>6 DEF IndexInv

LEMMA IndexStep == IndexInv /\ [AllNext]_allVars => IndexInv'
  <1> SUFFICES ASSUME IndexInv, [AllNext]_allVars PROVE IndexInv'
    OBVIOUS
  <1>1. CASE UNCHANGED memoryVars
    BY <1>1 DEF memoryVars, IndexInv, M!TypeOK, BoundsInv, JobOK, AloneInv, ProgressInv, Progress,
                IndexedInv, Untouched, Indexed, Holds, M!On
  <1>2. CASE M!Next
    BY <1>2, FileChangesCorrect, ReadersCorrect, ReindexCorrect, RemoveStaleCorrect,
       ReadFileCorrect, StatFileCorrect, DeleteChunksCorrect, SaveChunkCorrect,
       UpdateStatusCorrect, IndexFailsCorrect, CheckNeedsReindexCorrect, WriteFileCorrect,
       TimerFiresCorrect, NextFileCorrect, SyncCorrect, IndexSessionsCorrect,
       MergeHitsCorrect, CrashCorrect DEF M!Next
  <1>3. UNCHANGED memoryVars \/ M!Next
    BY DEF AllNext, ConsoleStep, MemoryStep, allVars
  <1> QED BY <1>1, <1>2, <1>3

(* An index left alone is one that nobody has to read again.                *)
LEMMA IndexFollows == IndexInv => M!IndexFollowsFile
  <1> SUFFICES ASSUME IndexInv, NEW f \in Notes, M!Settled(f), disk[f] # 0, NEW i \in M!Of(f)
               PROVE  LET v == IF i[2] <= CutInto(disk[f]) THEN disk[f] ELSE 0
                      IN  rows[i] = v /\ chunks[i] = v
    BY DEF M!IndexFollowsFile
  <1>1. Untouched(f) /\ running
    BY DEF M!Settled, Untouched
  <1>2. Indexed(f)
    BY <1>1 DEF IndexInv, IndexedInv
  <1> QED BY <1>1, <1>2 DEF Indexed, Holds

(* Memory: once nothing is at work on a file, and its last indexing was a   *)
(* clean one, map and rows hold exactly the chunks of what is on the disk.  *)
THEOREM IndexIsKept == AllSpec => []IndexKept
  <1>1. AllInit => IndexInv
    BY IndexInit DEF AllInit
  <1>2. IndexInv /\ [AllNext]_allVars => IndexInv'
    BY IndexStep
  <1>3. IndexInv => IndexKept
    BY IndexFollows DEF IndexInv, IndexKept
  <1> QED BY <1>1, <1>2, <1>3, PTL DEF AllSpec

=============================================================================
