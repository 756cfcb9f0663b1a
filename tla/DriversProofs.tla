---------------------------- MODULE DriversProofs ----------------------------
(***************************************************************************)
(* Proofs about the drivers: the windows of quickstart and daily_update    *)
(* (FetchWindows), for any processes, specs, publications, databases and   *)
(* periods, and the lock quickstart holds while it runs (ProcessLock), for *)
(* any set of processes and any number of acquires.                        *)
(***************************************************************************)
EXTENDS FetchWindows, ProcessLock, SequenceTheorems, TLAPS

(***************************************************************************)
(* The windows: the history never vouches for a publication that is not    *)
(* stored, and a daily sync that ends well leaves no gap.                  *)
(***************************************************************************)
Lists == Seq(Specs \X {1, 2, 4})

\* Days go forward with the clock.
LEMMA DayIsMonotone ==
  ASSUME NEW t \in Nat, NEW u \in Nat, t <= u
  PROVE  Day(t) \in Nat /\ Day(u) \in Nat /\ Day(t) <= Day(u)
  BY WindowsAssumption DEF Day

\* Publications have a day, and so does the clock.
LEMMA DaysAreTyped ==
  /\ \A i \in Items : /\ i.spec \in Specs /\ i.at \in Nat /\ i.event \in Int
                      /\ Day(i.at) \in Int /\ Day(i.at) <= LastDay
  /\ LastDay \in Int /\ Never \in Int /\ LastDay < Never
  /\ TypeOK => tick \in Nat /\ Today \in Nat
  <1>1. LastDay \in Int /\ MaxTick \in Nat
    BY WindowsAssumption, DayIsMonotone DEF LastDay
  <1>2. Never \in Int /\ LastDay < Never
    BY <1>1 DEF Never
  <1>3. ASSUME NEW i \in Items
        PROVE  /\ i.spec \in Specs /\ i.at \in Nat /\ i.event \in Int
               /\ Day(i.at) \in Int /\ Day(i.at) <= LastDay
    <2>1. i.spec \in Specs /\ i.at \in Nat /\ i.at <= MaxTick /\ i.event \in Int
      BY <1>1, WindowsAssumption
    <2>2. QED  BY <1>1, <2>1, DayIsMonotone DEF LastDay
  <1>4. ASSUME TypeOK PROVE tick \in Nat /\ Today \in Nat
    <2>1. tick \in Nat
      BY <1>1, <1>4 DEF TypeOK
    <2>2. QED  BY <2>1, DayIsMonotone DEF Today
  <1>5. QED  BY <1>1, <1>2, <1>3, <1>4

\* What was published on a day before this one has been published.
LEMMA EarlierIsPublished ==
  ASSUME TypeOK, NEW i \in Items, Day(i.at) < Today
  PROVE  i.at <= tick
  <1>1. i.at \in Nat /\ tick \in Nat
    BY DaysAreTyped
  <1>2. CASE i.at <= tick
    BY <1>2
  <1>3. CASE ~ (i.at <= tick)
    <2>1. tick <= i.at
      BY <1>1, <1>3
    <2>2. Day(tick) <= Day(i.at) /\ Day(tick) \in Int /\ Day(i.at) \in Int
      BY <1>1, <2>1, DayIsMonotone
    <2>3. QED  BY <2>2 DEF Today
  <1>4. QED  BY <1>2, <1>3

\* The list of a mode is made of specs considered and options.
LEMMA ListsAreTyped ==
  ASSUME NEW mode \in Modes
  PROVE  _get_specs_for_mode(mode) \in Lists
  <1>1. \A s, o : o \in {1, 2, 4} => Entry(s, o) \in Lists
    BY DEF Entry, Lists
  <1>2. \A a, b \in Lists : a \o b \in Lists
    BY DEF Lists
  <1> HIDE DEF Lists, Entry
  <1>3. SIMPLE_SPECS \in Lists
    BY <1>1, <1>2 DEF SIMPLE_SPECS
  <1>4. STANDARD_SPECS \in Lists
    <2>1. Entry("TOKU", 1) \o Entry("RACE", 1) \o Entry("DIFN", 4) \o Entry("BLDN", 1) \in Lists
      BY <1>1, <1>2
    <2>2. Entry("TOKU", 1) \o Entry("RACE", 1) \o Entry("DIFN", 4) \o Entry("BLDN", 1)
            \o Entry("MING", 1) \o Entry("SLOP", 1) \o Entry("WOOD", 1) \o Entry("YSCH", 1) \in Lists
      BY <1>1, <1>2, <2>1
    <2>3. QED  BY <1>1, <1>2, <2>2 DEF STANDARD_SPECS
  <1>5. UPDATE_SPECS \in Lists
    BY <1>1, <1>2 DEF UPDATE_SPECS
  <1>6. DAILY_SPECS \in Lists
    BY <1>1, <1>2 DEF DAILY_SPECS
  <1>7. QED
    BY <1>3, <1>4, <1>5, <1>6 DEF Modes, _get_specs_for_mode, FULL_SPECS

\* A run begins with a list of its own entries.
LEMMA BeginsWithItsList ==
  ASSUME NEW j, j.mode \in Modes, j.todo = _get_specs_for_mode(j.mode)
  PROVE  j.todo \in Lists /\ OfItsList(j)
  <1>1. j.todo \in Lists
    BY ListsAreTyped
  <1>2. ASSUME NEW n \in 1 .. Len(j.todo), j.todo[n][2] = 2
        PROVE  Weekly(j.mode, j.todo[n][1])
    <2>1. j.todo[n] \in Specs \X {1, 2, 4} /\ DOMAIN j.todo = 1 .. Len(j.todo)
      BY <1>1 DEF Lists
    <2>2. j.todo[n] = <<j.todo[n][1], 2>>
      BY <1>2, <2>1
    <2>3. QED  BY <2>1, <2>2 DEF Weekly
  <1>3. QED  BY <1>1, <1>2 DEF OfItsList

\* What is left of a list are entries of it.
LEMMA RestOfItsList ==
  ASSUME NEW j, NEW k, j.todo \in Lists, j.todo # <<>>, OfItsList(j),
         k.todo = Tail(j.todo), k.mode = j.mode
  PROVE  /\ k.todo \in Lists /\ OfItsList(k)
         /\ Head(j.todo) \in Specs \X {1, 2, 4}
         /\ Head(j.todo)[2] = 2 => Weekly(j.mode, Head(j.todo)[1])
  <1>1. /\ Len(j.todo) \in Nat /\ Len(j.todo) > 0 /\ Head(j.todo) = j.todo[1]
        /\ Head(j.todo) \in Specs \X {1, 2, 4}
        /\ k.todo \in Lists /\ Len(k.todo) = Len(j.todo) - 1
        /\ \A n \in 1 .. Len(k.todo) : k.todo[n] = j.todo[n + 1]
    BY DEF Lists
  <1>2. Head(j.todo)[2] = 2 => Weekly(j.mode, Head(j.todo)[1])
    BY <1>1 DEF OfItsList
  <1>3. ASSUME NEW n \in 1 .. Len(k.todo), k.todo[n][2] = 2
        PROVE  Weekly(k.mode, k.todo[n][1])
    <2>1. n + 1 \in 1 .. Len(j.todo) /\ k.todo[n] = j.todo[n + 1]
      BY <1>1
    <2>2. QED  BY <1>3, <2>1 DEF OfItsList
  <1>4. QED  BY <1>1, <1>2, <1>3 DEF OfItsList

\* What is vouched for stays so: databases only grow.
LEMMA StillVouches ==
  ASSUME NEW h \in Histories, NEW D, NEW E, \A d \in Dbs : D[d] \subseteq E[d], Vouches(h, D)
  PROVE  Vouches(h, E)
  BY DEF Vouches, Histories

\* What a run has stored stays stored, and the week moves on.
LEMMA StillStored ==
  ASSUME NEW j \in Jobs, NEW D, NEW E, \A d \in Dbs : D[d] \subseteq E[d],
         NEW t \in Int, NEW u \in Int, t <= u, StoredSoFar(j, D, t)
  PROVE  StoredSoFar(j, E, u)
  <1> SUFFICES ASSUME NEW i \in Items, i.spec \in j.done,
                      j.from <= Day(i.at), Day(i.at) < j.day, Day(i.at) <= j.to, i.event <= j.to,
                      Weekly(j.mode, i.spec) => u - Cycle <= Day(i.at)
               PROVE  i \in E[j.db]
    BY DEF StoredSoFar
  <1>1. Weekly(j.mode, i.spec) => t - Cycle <= Day(i.at)
    BY DaysAreTyped, WindowsAssumption
  <1>2. i \in D[j.db] /\ j.db \in Dbs
    BY <1>1 DEF StoredSoFar, Jobs
  <1>3. QED  BY <1>2

LEMMA StillGood ==
  ASSUME NEW p, NEW j \in Jobs, NEW D, NEW E, \A d \in Dbs : D[d] \subseteq E[d],
         NEW t \in Int, NEW u \in Int, t <= u, GoodJob(p, j, D, t)
  PROVE  GoodJob(p, j, E, u)
  <1>1. j.base \in Histories /\ j.day \in Int
    BY DEF Jobs
  <1>2. Vouches(j.base, E) /\ (j.at # "write" => StoredSoFar(j, E, u)) /\ j.day <= u
    BY <1>1, StillVouches, StillStored DEF GoodJob
  <1>3. QED  BY <1>2 DEF GoodJob

\* A process that does nothing vouches for nothing.
LEMMA IdleIsGood ==
  /\ Idle \in Jobs
  /\ \A p, D : \A t \in Nat : GoodJob(p, Idle, D, t)
  <1>1. Idle \in Jobs /\ NoHistory \in Histories
    BY DaysAreTyped, WindowsAssumption DEF Idle, NoHistory, Jobs, Histories, Modes
  <1>2. ASSUME NEW p, NEW D, NEW t \in Nat PROVE GoodJob(p, Idle, D, t)
    <2>1. Vouches(Idle.base, D) /\ JoinsOn(Idle) /\ Idle.day <= t
      BY DEF Idle, NoHistory, Vouches, JoinsOn, Joins
    <2>2. OfItsList(Idle) /\ StoredSoFar(Idle, D, t) /\ DailyWindow(Idle)
      BY DEF Idle, OfItsList, StoredSoFar, DailyWindow
    <2>3. QED  BY <2>1, <2>2 DEF GoodJob
  <1>3. QED  BY <1>1, <1>2

\* A step of one process, which may add to the databases.
LEMMA OneStep ==
  ASSUME WindowsInv, NEW p \in Processes, NEW j \in Jobs, Becomes(p, j), Clocked,
         runs' \in Nat, db' \in [Dbs -> SUBSET Items], \A d \in Dbs : db[d] \subseteq db'[d],
         history' \in Histories, Vouches(history', db'), GoodJob(p, j, db', Today)
  PROVE  WindowsInv'
  <1>1. job' = [job EXCEPT ![p] = j] /\ tick' = tick /\ Today' = Today /\ Today \in Int
    BY DaysAreTyped DEF Becomes, Clocked, Today, WindowsInv
  <1>2. job \in [Processes -> Jobs] /\ job' \in [Processes -> Jobs]
    BY <1>1 DEF WindowsInv, TypeOK
  <1>3. TypeOK'
    BY <1>1, <1>2 DEF WindowsInv, TypeOK
  <1>4. ASSUME NEW q \in Processes PROVE GoodJob(q, job'[q], db', Today)
    <2>1. CASE q = p
      BY <1>1, <1>2, <2>1
    <2>2. CASE q # p
      <3>1. job'[q] = job[q] /\ job[q] \in Jobs /\ GoodJob(q, job[q], db, Today)
        BY <1>1, <1>2, <2>2 DEF WindowsInv
      <3>2. Today <= Today
        BY <1>1
      <3>3. QED  BY <1>1, <3>1, <3>2, StillGood
    <2>3. QED  BY <2>1, <2>2
  <1>5. QED  BY <1>1, <1>3, <1>4 DEF WindowsInv

\* A run that has nothing of its own to lose: it ends, skips or goes on.
LEMMA QuietStep ==
  ASSUME WindowsInv, NEW p \in Processes, NEW j \in Jobs, Becomes(p, j), Clocked,
         runs' \in Nat, UNCHANGED <<db, history>>, GoodJob(p, j, db, Today)
  PROVE  WindowsInv'
  <1>1. /\ db' \in [Dbs -> SUBSET Items] /\ \A d \in Dbs : db[d] \subseteq db'[d]
        /\ history' \in Histories /\ Vouches(history', db')
    BY DEF WindowsInv, TypeOK
  <1>2. QED  BY <1>1, OneStep

\* What FetchSpec stores is all there is of its spec in the days asked for.
LEMMA FetchStores ==
  ASSUME WindowsInv, NEW p \in Processes, Fetching(p), NEW i \in Items,
         i.spec = This(p)[1],
         job[p].from <= Day(i.at), Day(i.at) < job[p].day, Day(i.at) <= job[p].to,
         i.event <= job[p].to,
         Weekly(job[p].mode, i.spec) => Today - Cycle <= Day(i.at)
  PROVE  i \in New(p)
  <1> DEFINE j == job[p]  e == This(p)
  <1>1. /\ TypeOK /\ j \in Jobs /\ OfItsList(j) /\ j.day <= Today /\ j.todo # <<>>
        /\ Today \in Nat /\ Day(i.at) \in Int /\ j.day \in Int
    BY DaysAreTyped DEF WindowsInv, TypeOK, GoodJob, Fetching, Jobs
  <1>2. i.at <= tick
    <2>1. Day(i.at) < Today
      BY <1>1
    <2>2. QED  BY <1>1, <2>1, EarlierIsPublished
  <1>3. e[2] = 2 => Weekly(j.mode, e[1])
    <2>1. j.todo \in Lists
      BY <1>1 DEF Jobs, Lists
    <2>2. PICK k : k = [j EXCEPT !.todo = Tail(j.todo)]
      OBVIOUS
    <2>3. k.todo = Tail(j.todo) /\ k.mode = j.mode
      BY <1>1, <2>2 DEF Jobs
    <2>4. QED  BY <1>1, <2>1, <2>3, RestOfItsList DEF This
  <1>4. Option(p) = 2 => Weekly(j.mode, e[1])
    BY <1>3 DEF Option, _effective_option
  <1>5. Day(i.at) >= Since(Option(p), j.from, tick)
    BY <1>1, <1>4 DEF Since, Today, Jobs
  <1>6. QED
    BY <1>2, <1>5 DEF New, Delivered, Offered

\* A run that begins, from a period or from a history, has stored nothing yet.
LEMMA NewRunIsGood ==
  ASSUME NEW p, NEW j \in Jobs, NEW D, NEW t, j.todo = <<>> \/ OfItsList(j), j.day = t, t \in Int,
         j.done = {}, Vouches(j.base, D), JoinsOn(j), p = "daily" => DailyWindow(j)
  PROVE  GoodJob(p, j, D, t)
  BY DEF GoodJob, OfItsList, StoredSoFar

\* Every process starts idle, on empty databases.
LEMMA InitWindowsInv == Init => WindowsInv
  <1> SUFFICES ASSUME Init PROVE WindowsInv
    OBVIOUS
  <1>1. tick \in 0 .. MaxTick /\ runs \in Nat
    BY WindowsAssumption DEF Init
  <1>2. history \in Histories /\ Vouches(history, db)
    BY DaysAreTyped, WindowsAssumption DEF Init, NoHistory, Histories, Vouches
  <1>3. TypeOK
    BY <1>1, <1>2, IdleIsGood DEF Init, TypeOK
  <1>4. ASSUME NEW p \in Processes PROVE GoodJob(p, job[p], db, Today)
    <2>1. job[p] = Idle /\ Today \in Nat
      BY <1>3, DaysAreTyped DEF Init
    <2>2. QED  BY <2>1, IdleIsGood
  <1>5. QED  BY <1>2, <1>3, <1>4 DEF WindowsInv

\* The clock only moves the week on.
LEMMA TickStep ==
  ASSUME WindowsInv, Tick
  PROVE  WindowsInv'
  <1>1. /\ tick' = tick + 1 /\ tick < MaxTick /\ UNCHANGED <<db, history, job, runs>>
        /\ TypeOK /\ tick \in Nat /\ MaxTick \in Nat
    BY DaysAreTyped, WindowsAssumption DEF Tick, WindowsInv
  <1>2. tick' \in 0 .. MaxTick /\ tick' \in Nat /\ tick <= tick'
    BY <1>1
  <1>3. TypeOK'
    BY <1>1, <1>2 DEF TypeOK
  <1>4. Today \in Nat /\ Today' \in Nat /\ Today <= Today'
    BY <1>1, <1>2, DayIsMonotone DEF Today
  <1>5. ASSUME NEW p \in Processes PROVE GoodJob(p, job[p], db, Today')
    <2>1. job[p] \in Jobs /\ GoodJob(p, job[p], db, Today)
      BY <1>1 DEF WindowsInv, TypeOK
    <2>2. QED  BY <1>4, <2>1, StillGood
  <1>6. QED  BY <1>1, <1>3, <1>5 DEF WindowsInv

\* What the actions share.
LEMMA Shared ==
  ASSUME WindowsInv, NEW p \in Processes
  PROVE  /\ TypeOK /\ job[p] \in Jobs /\ GoodJob(p, job[p], db, Today) /\ Today \in Nat
         /\ job[p].base \in Histories /\ job[p].todo \in Lists /\ runs \in Nat
         /\ job[p].mode \in Modes /\ job[p].db \in Dbs /\ history \in Histories
         /\ Idle \in Jobs /\ GoodJob(p, Idle, db, Today)
  <1>1. /\ TypeOK /\ job[p] \in Jobs /\ GoodJob(p, job[p], db, Today) /\ Today \in Nat
        /\ runs \in Nat /\ history \in Histories
    BY DaysAreTyped DEF WindowsInv, TypeOK
  <1>2. /\ job[p].base \in Histories /\ job[p].todo \in Lists
        /\ job[p].mode \in Modes /\ job[p].db \in Dbs
    BY <1>1 DEF Jobs, Lists
  <1>3. QED  BY <1>1, <1>2, IdleIsGood

LEMMA SetupStep ==
  ASSUME WindowsInv, NEW p \in Processes, Setup(p)
  PROVE  WindowsInv'
  <1>1. PICK w \in Windows :
          Becomes(p, [Idle EXCEPT !.at = "asked", !.mode = w.mode, !.db = w.db, !.day = Today,
                                  !.from = Today - w.back, !.to = Today + w.ahead])
    BY DEF Setup
  <1> DEFINE j == [Idle EXCEPT !.at = "asked", !.mode = w.mode, !.db = w.db, !.day = Today,
                               !.from = Today - w.back, !.to = Today + w.ahead]
  <1>2. /\ p # "daily" /\ Clocked /\ UNCHANGED <<db, history>> /\ runs' = runs + 1
    BY WindowsAssumption DEF Setup, Starting
  <1>3. /\ w.mode \in Modes /\ w.db \in Dbs /\ Today - w.back \in Int /\ Today + w.ahead \in Int
        /\ runs' \in Nat /\ Today \in Int
    BY <1>2, Shared, WindowsAssumption DEF Modes
  <1>4. j \in Jobs
    BY <1>3, IdleIsGood DEF Jobs
  <1>5. /\ j.todo = <<>> /\ j.day = Today /\ j.done = {} /\ j.base.is = "none"
    BY DEF Idle, NoHistory
  <1> HIDE DEF j
  <1>6. GoodJob(p, j, db, Today)
    BY <1>2, <1>3, <1>4, <1>5, NewRunIsGood DEF Vouches, JoinsOn, Joins
  <1>7. QED  BY <1>1, <1>2, <1>3, <1>4, <1>6, QuietStep DEF j

\* An update takes its first day and its database from what the history says.
LEMMA UpdateStep ==
  ASSUME WindowsInv, NEW p \in Processes, Update(p)
  PROVE  WindowsInv'
  <1> DEFINE j == [Idle EXCEPT !.at = "asked", !.mode = "update", !.db = history.db, !.day = Today,
                               !.from = history.day, !.to = Today, !.base = history]
  <1>1. /\ p # "daily" /\ Clocked /\ UNCHANGED <<db, history>> /\ runs' = runs + 1
        /\ Becomes(p, j)
    BY WindowsAssumption DEF Update, Starting
  <1>2. /\ history.db \in Dbs /\ history.day \in Int /\ history \in Histories
        /\ runs' \in Nat /\ Today \in Int /\ "update" \in Modes
    BY <1>1, Shared DEF Modes, Histories
  <1>3. j \in Jobs
    BY <1>2, IdleIsGood DEF Jobs
  <1>4. /\ j.todo = <<>> /\ j.day = Today /\ j.done = {} /\ j.base = history
        /\ j.from = history.day /\ j.db = history.db
    BY DEF Idle
  <1> HIDE DEF j
  <1>5. Vouches(j.base, db) /\ JoinsOn(j)
    BY <1>4 DEF WindowsInv, JoinsOn, Joins
  <1>6. GoodJob(p, j, db, Today)
    BY <1>1, <1>2, <1>3, <1>4, <1>5, NewRunIsGood
  <1>7. QED  BY <1>1, <1>2, <1>3, <1>6, QuietStep

LEMMA LockStep ==
  ASSUME WindowsInv, NEW p \in Processes, Lock(p)
  PROVE  WindowsInv'
  <1>1. /\ job[p].at = "asked" /\ Clocked /\ UNCHANGED <<db, history, runs>>
    BY DEF Lock
  <1>2. CASE Becomes(p, Idle)
    BY <1>1, <1>2, Shared, QuietStep
  <1>3. CASE Becomes(p, [job[p] EXCEPT !.at = "fetch", !.todo = _get_specs_for_mode(job[p].mode)])
    <2> DEFINE j == [job[p] EXCEPT !.at = "fetch", !.todo = _get_specs_for_mode(job[p].mode)]
    <2>1. /\ job[p] \in Jobs /\ GoodJob(p, job[p], db, Today) /\ runs' \in Nat
          /\ p # "daily"
      BY <1>1, Shared DEF GoodJob, DailyWindow
    <2>2. /\ j.mode = job[p].mode /\ j.mode \in Modes /\ j.todo = _get_specs_for_mode(j.mode)
          /\ j.day = job[p].day /\ j.base = job[p].base /\ j.done = job[p].done
          /\ j.from = job[p].from /\ j.to = job[p].to /\ j.db = job[p].db
      BY <2>1 DEF Jobs
    <2>3. j.todo \in Lists /\ OfItsList(j)
      BY <2>2, BeginsWithItsList
    <2>4. j \in Jobs
      BY <2>1, <2>2, <2>3 DEF Jobs, Lists
    <2> HIDE DEF j
    <2>5. GoodJob(p, j, db, Today)
      BY <1>1, <2>1, <2>2, <2>3 DEF GoodJob, StoredSoFar, JoinsOn, Joins
    <2>6. QED  BY <1>1, <1>3, <2>1, <2>4, <2>5, QuietStep DEF j
  <1>4. QED  BY <1>2, <1>3 DEF Lock

LEMMA StartDailyStep ==
  ASSUME WindowsInv, StartDaily
  PROVE  WindowsInv'
  <1> DEFINE j == [Idle EXCEPT !.at = "fetch", !.todo = DAILY_SPECS, !.day = Today,
                               !.from = Today - DaysBack, !.to = Today + DaysForward]
  <1>0. "daily" \in Processes
    BY DEF Processes
  <1>1. /\ Clocked /\ UNCHANGED <<db, history>> /\ runs' = runs + 1 /\ Becomes("daily", j)
    BY DEF StartDaily, Starting
  <1>2. /\ Today - DaysBack \in Int /\ Today + DaysForward \in Int /\ runs' \in Nat /\ Today \in Int
    BY <1>0, <1>1, Shared, WindowsAssumption
  <1>3. /\ j.mode = "daily" /\ "daily" \in Modes /\ j.todo = _get_specs_for_mode(j.mode)
        /\ j.day = Today /\ j.done = {} /\ j.base.is = "none" /\ j.at = "fetch"
        /\ j.from = j.day - DaysBack /\ j.to = j.day + DaysForward /\ j.db = DailyDb
    BY DEF Idle, NoHistory, Modes, _get_specs_for_mode
  <1>4. j.todo \in Lists /\ OfItsList(j)
    BY <1>3, BeginsWithItsList
  <1>5. j \in Jobs
    <2>1. DAILY_SPECS \in Lists
      BY <1>3, <1>4
    <2>2. QED  BY <1>2, <2>1, IdleIsGood DEF Jobs, Lists
  <1> HIDE DEF j
  <1>6. GoodJob("daily", j, db, Today)
    BY <1>2, <1>3, <1>4, <1>5, NewRunIsGood DEF Vouches, JoinsOn, Joins, DailyWindow
  <1>7. QED  BY <1>0, <1>1, <1>2, <1>5, <1>6, QuietStep

\* A run that drops the first spec of its list, with what it has done.
LEMMA DroppedIsGood ==
  ASSUME WindowsInv, NEW p \in Processes, Fetching(p), NEW k \in Jobs, NEW D,
         \A d \in Dbs : db[d] \subseteq D[d], StoredSoFar(k, D, Today),
         k.todo = Tail(job[p].todo), k.at = "fetch",
         k.mode = job[p].mode, k.from = job[p].from, k.to = job[p].to, k.db = job[p].db,
         k.day = job[p].day, k.base = job[p].base
  PROVE  GoodJob(p, k, D, Today)
  <1>1. /\ GoodJob(p, job[p], db, Today) /\ job[p].at = "fetch" /\ job[p].todo # <<>>
        /\ job[p].todo \in Lists /\ job[p].base \in Histories
    BY Shared DEF Fetching
  <1>2. OfItsList(k)
    BY <1>1, RestOfItsList DEF GoodJob
  <1>3. Vouches(k.base, D)
    BY <1>1, StillVouches DEF GoodJob
  <1>4. QED  BY <1>1, <1>2, <1>3 DEF GoodJob, JoinsOn, Joins, DailyWindow

\* Adding publications to the database of a run.
LEMMA StoreGrows ==
  ASSUME WindowsInv, NEW p \in Processes, NEW new \in SUBSET Items, Store(p, new)
  PROVE  /\ db' \in [Dbs -> SUBSET Items] /\ \A d \in Dbs : db[d] \subseteq db'[d]
         /\ db'[job[p].db] = db[job[p].db] \cup new
         /\ Vouches(history, db')
  <1>1. db \in [Dbs -> SUBSET Items] /\ job[p].db \in Dbs
    BY Shared DEF TypeOK
  <1>2. /\ db' \in [Dbs -> SUBSET Items] /\ \A d \in Dbs : db[d] \subseteq db'[d]
        /\ db'[job[p].db] = db[job[p].db] \cup new
    BY <1>1 DEF Store
  <1>3. Vouches(history, db')
    BY <1>2, Shared, StillVouches DEF WindowsInv
  <1>4. QED  BY <1>2, <1>3

\* What is offered, whole or in part, are publications.
LEMMA NewAreItems ==
  ASSUME NEW p
  PROVE  New(p) \in SUBSET Items /\ Groups(Option(p), New(p)) \subseteq SUBSET Items
  <1>1. New(p) \in SUBSET Items
    BY DEF New, Delivered, Offered
  <1>2. QED  BY <1>1 DEF Groups

LEMMA FetchSpecStep ==
  ASSUME WindowsInv, NEW p \in Processes, FetchSpec(p)
  PROVE  WindowsInv'
  <1> DEFINE j == job[p]
             k == [job[p] EXCEPT !.todo = Tail(job[p].todo), !.done = job[p].done \cup {This(p)[1]}]
  <1>1. /\ Fetching(p) /\ Store(p, New(p)) /\ Becomes(p, k) /\ Clocked
        /\ UNCHANGED <<history, runs>>
    BY DEF FetchSpec
  <1>2. /\ j \in Jobs /\ j.todo \in Lists /\ j.todo # <<>> /\ GoodJob(p, j, db, Today)
        /\ Today \in Nat /\ runs' \in Nat /\ history' \in Histories /\ j.at = "fetch"
        /\ j.db \in Dbs
    BY <1>1, Shared DEF Fetching
  <1>3. Tail(j.todo) \in Lists /\ This(p) \in Specs \X {1, 2, 4}
    BY <1>2 DEF Lists, This
  <1>4. k \in Jobs
    BY <1>2, <1>3 DEF Jobs, Lists
  <1>5. /\ k.todo = Tail(j.todo) /\ k.at = "fetch" /\ k.mode = j.mode /\ k.from = j.from
        /\ k.to = j.to /\ k.db = j.db /\ k.day = j.day /\ k.base = j.base
        /\ k.done = j.done \cup {This(p)[1]}
    BY <1>2 DEF Jobs
  <1>6. /\ db' \in [Dbs -> SUBSET Items] /\ \A d \in Dbs : db[d] \subseteq db'[d]
        /\ db'[j.db] = db[j.db] \cup New(p) /\ Vouches(history, db')
    BY <1>1, NewAreItems, StoreGrows
  <1> HIDE DEF k
  <1>7. StoredSoFar(k, db', Today)
    <2> SUFFICES ASSUME NEW i \in Items, i.spec \in k.done,
                        k.from <= Day(i.at), Day(i.at) < k.day, Day(i.at) <= k.to, i.event <= k.to,
                        Weekly(k.mode, i.spec) => Today - Cycle <= Day(i.at)
                 PROVE  i \in db'[k.db]
      BY DEF StoredSoFar
    <2>1. CASE i.spec \in j.done
      <3>1. i \in db[j.db]
        BY <1>2, <1>5, <2>1 DEF GoodJob, StoredSoFar
      <3>2. QED  BY <1>2, <1>5, <1>6, <3>1
    <2>2. CASE i.spec = This(p)[1]
      <3>1. i \in New(p)
        BY <1>1, <1>5, <2>2, FetchStores
      <3>2. QED  BY <1>5, <1>6, <3>1
    <2>3. QED  BY <1>5, <2>1, <2>2
  <1>8. GoodJob(p, k, db', Today)
    BY <1>1, <1>4, <1>5, <1>6, <1>7, DroppedIsGood
  <1>9. QED  BY <1>1, <1>2, <1>4, <1>6, <1>8, OneStep

LEMMA SkipSpecStep ==
  ASSUME WindowsInv, NEW p \in Processes, SkipSpec(p)
  PROVE  WindowsInv'
  <1> DEFINE j == job[p]  k == [job[p] EXCEPT !.todo = Tail(job[p].todo)]
  <1>1. /\ Fetching(p) /\ Becomes(p, k) /\ Clocked /\ UNCHANGED <<db, history, runs>>
    BY DEF SkipSpec
  <1>2. /\ j \in Jobs /\ j.todo \in Lists /\ j.todo # <<>> /\ GoodJob(p, j, db, Today)
        /\ runs' \in Nat /\ j.at = "fetch"
    BY <1>1, Shared DEF Fetching
  <1>3. Tail(j.todo) \in Lists
    BY <1>2 DEF Lists
  <1>4. k \in Jobs
    BY <1>2, <1>3 DEF Jobs, Lists
  <1>5. /\ k.todo = Tail(j.todo) /\ k.at = "fetch" /\ k.mode = j.mode /\ k.from = j.from
        /\ k.to = j.to /\ k.db = j.db /\ k.day = j.day /\ k.base = j.base /\ k.done = j.done
    BY <1>2 DEF Jobs
  <1> HIDE DEF k
  <1>6. StoredSoFar(k, db, Today)
    BY <1>2, <1>5 DEF GoodJob, StoredSoFar
  <1>7. GoodJob(p, k, db, Today)
    BY <1>1, <1>4, <1>5, <1>6, DroppedIsGood
  <1>8. QED  BY <1>1, <1>2, <1>4, <1>7, QuietStep

\* A run that fails keeps what it had stored, and perhaps a part of the spec.
LEMMA FailSpecStep ==
  ASSUME WindowsInv, NEW p \in Processes, FailSpec(p)
  PROVE  WindowsInv'
  <1> DEFINE j == job[p]  k == [job[p] EXCEPT !.todo = Tail(job[p].todo), !.failed = TRUE]
  <1>1. /\ Fetching(p) /\ Becomes(p, IF p = "daily" THEN Idle ELSE k) /\ Clocked
        /\ UNCHANGED <<history, runs>>
        /\ \E new \in Groups(Option(p), New(p)) : Store(p, IF Inverted(p) THEN {} ELSE new)
    BY DEF FailSpec
  <1>2. /\ j \in Jobs /\ j.todo \in Lists /\ j.todo # <<>> /\ GoodJob(p, j, db, Today)
        /\ Today \in Nat /\ runs' \in Nat /\ history' \in Histories /\ j.at = "fetch"
    BY <1>1, Shared DEF Fetching
  <1>3. /\ db' \in [Dbs -> SUBSET Items] /\ \A d \in Dbs : db[d] \subseteq db'[d]
        /\ Vouches(history, db')
    <2>1. PICK new \in SUBSET Items : Store(p, new)
      BY <1>1, NewAreItems
    <2>2. QED  BY <2>1, StoreGrows
  <1>4. CASE p = "daily"
    <2>1. GoodJob(p, Idle, db', Today) /\ Idle \in Jobs
      BY <1>2, IdleIsGood
    <2>2. Becomes(p, Idle)
      BY <1>1, <1>4
    <2>3. QED  BY <1>1, <1>2, <1>3, <2>1, <2>2, OneStep
  <1>5. CASE p # "daily"
    <2>1. Tail(j.todo) \in Lists
      BY <1>2 DEF Lists
    <2>2. k \in Jobs
      BY <1>2, <2>1 DEF Jobs, Lists
    <2>3. /\ k.todo = Tail(j.todo) /\ k.at = "fetch" /\ k.mode = j.mode /\ k.from = j.from
          /\ k.to = j.to /\ k.db = j.db /\ k.day = j.day /\ k.base = j.base /\ k.done = j.done
      BY <1>2 DEF Jobs
    <2>4. Becomes(p, k)
      BY <1>1, <1>5
    <2> HIDE DEF k
    <2>5. StoredSoFar(k, db, Today)
      BY <1>2, <2>3 DEF GoodJob, StoredSoFar
    <2>6. StoredSoFar(k, db', Today)
      <3>1. Today \in Int /\ Today <= Today
        BY <1>2
      <3>2. QED  BY <1>3, <2>2, <2>5, <3>1, StillStored
    <2>7. GoodJob(p, k, db', Today)
      BY <1>1, <1>3, <2>2, <2>3, <2>6, DroppedIsGood
    <2>8. QED  BY <1>1, <1>2, <1>3, <2>2, <2>4, <2>7, OneStep
  <1>6. QED  BY <1>4, <1>5

\* A quickstart that goes on to its next part.
LEMMA GoesOn ==
  ASSUME WindowsInv, NEW p \in Processes, p # "daily", NEW at \in {"extras", "save"},
         job[p].at # "write", Becomes(p, [job[p] EXCEPT !.at = at]), Clocked,
         UNCHANGED <<db, history, runs>>
  PROVE  WindowsInv'
  <1> DEFINE j == job[p]  k == [job[p] EXCEPT !.at = at]
  <1>1. j \in Jobs /\ GoodJob(p, j, db, Today) /\ runs' \in Nat
    BY Shared
  <1>2. k \in Jobs
    BY <1>1 DEF Jobs
  <1>3. /\ k.todo = j.todo /\ k.mode = j.mode /\ k.from = j.from
        /\ k.to = j.to /\ k.db = j.db /\ k.day = j.day /\ k.base = j.base /\ k.done = j.done
    BY <1>1 DEF Jobs
  <1>4. Becomes(p, k)
    OBVIOUS
  <1> HIDE DEF k
  <1>5. GoodJob(p, k, db, Today)
    BY <1>1, <1>3 DEF GoodJob, StoredSoFar, JoinsOn, Joins, OfItsList
  <1>6. QED  BY <1>1, <1>2, <1>4, <1>5, QuietStep

\* The crux: every publication of the chain that a run moves the history past is
\* stored or passed by.  What lies before the days the run asked for is the
\* concern of the history it joined on to; the rest it has fetched itself, but
\* for what it did not ask for.
LEMMA SavedVouches ==
  ASSUME WindowsInv, NEW p \in Processes, job[p].at = "save"
  PROVE  Saved(job[p]) \in Histories /\ Vouches(Saved(job[p]), db)
  <1> DEFINE j == job[p]
  <1>1. /\ j \in Jobs /\ j.base \in Histories /\ Today \in Nat /\ GoodJob(p, j, db, Today)
    BY Shared
  <1>2. /\ j.from \in Int /\ j.to \in Int /\ j.day \in Int /\ j.db \in Dbs
        /\ j.base.day \in Int /\ j.base.since \in [Specs -> Int] /\ Cycle \in Int
        /\ j.base.missed \in SUBSET Items
    BY <1>1, WindowsAssumption DEF Jobs, Histories
  <1>3. StoredSoFar(j, db, Today) /\ JoinsOn(j) /\ Vouches(j.base, db)
    BY <1>1 DEF GoodJob
  <1> HIDE DEF j
  <1>4. ASSUME NEW s \in Specs
        PROVE  \/ Joins(j) /\ ChainSince(j, s) = j.base.since[s]
               \/ ChainSince(j, s) = j.from
               \/ ChainSince(j, s) = Never
    BY DEF ChainSince
  <1>5. \A s \in Specs : ChainSince(j, s) \in Int
    BY <1>2, <1>4, DaysAreTyped
  <1>6. Missed(j) \in SUBSET Items
    BY DEF Missed
  <1>7. Saved(j) \in Histories
    <2>1. [s \in Specs |-> ChainSince(j, s)] \in [Specs -> Int]
      BY <1>5
    <2>2. Missed(j) \cup (IF Joins(j) THEN j.base.missed ELSE {}) \in SUBSET Items
      BY <1>2, <1>6
    <2>3. QED  BY <1>1, <1>2, <2>1, <2>2 DEF Saved, Histories
  <1>8. ASSUME NEW i \in Items, ChainSince(j, i.spec) <= Day(i.at), Day(i.at) < Today
        PROVE  i \in db[j.db] \cup Missed(j) \cup (IF Joins(j) THEN j.base.missed ELSE {})
    <2>1. i.spec \in Specs /\ Day(i.at) \in Int /\ i.event \in Int /\ Day(i.at) < Never
      BY DaysAreTyped
    <2>2. CASE j.from <= Day(i.at) /\ i \notin Missed(j)
      <3>1. /\ ~ NotFetched(j, i) /\ ~ BeforeThisWeek(j, i)
            /\ ~ AfterItWasAsked(j, i) /\ ~ AfterItsPeriod(j, i)
        BY <1>8, <2>2 DEF Missed
      <3>2. i.spec \in j.done
        BY <3>1 DEF NotFetched
      <3>3. Weekly(j.mode, i.spec) => Today - Cycle <= Day(i.at)
        BY <1>1, <1>2, <2>1, <3>1 DEF BeforeThisWeek
      <3>4. Day(i.at) < j.day /\ Day(i.at) <= j.to /\ i.event <= j.to
        BY <1>2, <2>1, <3>1 DEF AfterItWasAsked, AfterItsPeriod
      <3>5. QED  BY <1>3, <2>2, <3>2, <3>3, <3>4 DEF StoredSoFar
    <2>3. CASE ~ (j.from <= Day(i.at))
      <3>1. Joins(j) /\ ChainSince(j, i.spec) = j.base.since[i.spec]
        BY <1>2, <1>4, <1>8, <2>1, <2>3, DaysAreTyped
      <3>2. Day(i.at) < j.base.day /\ j.base.db = j.db
        BY <1>2, <1>3, <2>1, <2>3, <3>1 DEF JoinsOn, Joins
      <3>3. i \in db[j.base.db] \cup j.base.missed
        BY <1>3, <1>8, <3>1, <3>2 DEF Vouches, Joins
      <3>4. QED  BY <3>1, <3>2, <3>3
    <2>4. QED  BY <2>2, <2>3
  <1>9. Vouches(Saved(j), db)
    <2>1. /\ Saved(j).day = Today /\ Saved(j).db = j.db
          /\ Saved(j).missed = Missed(j) \cup (IF Joins(j) THEN j.base.missed ELSE {})
          /\ \A s \in Specs : Saved(j).since[s] = ChainSince(j, s)
      BY DEF Saved
    <2>2. QED  BY <1>8, <2>1, DaysAreTyped DEF Vouches
  <1>10. QED  BY <1>7, <1>9 DEF j

LEMMA OpenHistoryStep ==
  ASSUME WindowsInv, NEW p \in Processes, OpenHistory(p)
  PROVE  WindowsInv'
  <1>1. job[p].at = "save" /\ Clocked /\ UNCHANGED <<db, runs>>
    BY DEF OpenHistory
  <1>2. CASE Becomes(p, Idle) /\ UNCHANGED history
    BY <1>1, <1>2, Shared, QuietStep
  <1>3. CASE /\ Becomes(p, [job[p] EXCEPT !.at = "write", !.base = Saved(job[p])])
             /\ history' = [history EXCEPT !.is = "torn"]
    <2> DEFINE j == job[p]  k == [job[p] EXCEPT !.at = "write", !.base = Saved(job[p])]
    <2>1. /\ j \in Jobs /\ GoodJob(p, j, db, Today) /\ runs' \in Nat /\ history \in Histories
          /\ p # "daily" /\ db' \in [Dbs -> SUBSET Items]
      BY <1>1, Shared DEF GoodJob, DailyWindow, TypeOK
    <2>2. Saved(j) \in Histories /\ Vouches(Saved(j), db)
      BY <1>1, SavedVouches
    <2>3. k \in Jobs
      BY <2>1, <2>2 DEF Jobs
    <2>4. /\ k.at = "write" /\ k.base = Saved(j) /\ k.todo = j.todo /\ k.mode = j.mode
          /\ k.day = j.day
      BY <2>1 DEF Jobs
    <2>5. Becomes(p, k)
      BY <1>3
    <2>6. history' \in Histories /\ history'.is = "torn"
      BY <1>3, <2>1 DEF Histories
    <2>7. Vouches(history', db')
      BY <2>6 DEF Vouches
    <2> HIDE DEF j, k
    <2>8. GoodJob(p, k, db', Today)
      BY <1>1, <2>1, <2>2, <2>4 DEF GoodJob, OfItsList
    <2>9. QED  BY <1>1, <2>1, <2>3, <2>5, <2>6, <2>7, <2>8, OneStep
  <1>4. QED  BY <1>2, <1>3 DEF OpenHistory

\* The history becomes the one that was made up when its file was opened.
LEMMA WriteHistoryStep ==
  ASSUME WindowsInv, NEW p \in Processes, WriteHistory(p)
  PROVE  WindowsInv'
  <1>1. /\ history' = job[p].base \/ history' = history
        /\ Becomes(p, Idle) /\ Clocked /\ UNCHANGED <<db, runs>>
    BY DEF WriteHistory
  <1>2. /\ history \in Histories /\ job[p].base \in Histories /\ Vouches(job[p].base, db)
        /\ Vouches(history, db) /\ db \in [Dbs -> SUBSET Items] /\ runs' \in Nat
        /\ Idle \in Jobs /\ GoodJob(p, Idle, db', Today)
    BY <1>1, Shared DEF GoodJob, WindowsInv, TypeOK
  <1>3. history' \in Histories /\ Vouches(history', db') /\ db' \in [Dbs -> SUBSET Items]
    BY <1>1, <1>2
  <1>4. QED  BY <1>1, <1>2, <1>3, OneStep

LEMMA CrashStep ==
  ASSUME WindowsInv, NEW p \in Processes, Crash(p)
  PROVE  WindowsInv'
  <1>1. /\ Becomes(p, Idle) /\ Clocked /\ UNCHANGED <<history, runs>>
        /\ (\E new \in Groups(Option(p), New(p)) : Store(p, new)) \/ UNCHANGED db
    BY DEF Crash
  <1>2. CASE UNCHANGED db
    BY <1>1, <1>2, Shared, QuietStep
  <1>3. CASE \E new \in Groups(Option(p), New(p)) : Store(p, new)
    <2>1. PICK new \in SUBSET Items : Store(p, new)
      BY <1>3, NewAreItems
    <2>2. /\ db' \in [Dbs -> SUBSET Items] /\ \A d \in Dbs : db[d] \subseteq db'[d]
          /\ Vouches(history', db')
      BY <1>1, <2>1, StoreGrows
    <2>3. /\ Idle \in Jobs /\ GoodJob(p, Idle, db', Today) /\ runs' \in Nat
          /\ history' \in Histories
      BY <1>1, Shared, IdleIsGood
    <2>4. QED  BY <1>1, <2>2, <2>3, OneStep
  <1>4. QED  BY <1>1, <1>2, <1>3

\* Every step preserves the invariant.
LEMMA StepWindowsInv == WindowsInv /\ [Next]_vars => WindowsInv'
  <1> SUFFICES ASSUME WindowsInv, [Next]_vars PROVE WindowsInv'
    OBVIOUS
  <1>1. CASE Tick
    BY <1>1, TickStep
  <1>2. CASE StartDaily
    BY <1>2, StartDailyStep
  <1>3. CASE EndDaily
    <2>1. /\ "daily" \in Processes /\ Becomes("daily", Idle) /\ Clocked
          /\ UNCHANGED <<db, history, runs>>
      BY <1>3 DEF EndDaily, Processes
    <2>2. QED  BY <2>1, Shared, QuietStep
  <1>4. ASSUME NEW p \in Processes,
               \/ Setup(p) \/ Update(p) \/ Lock(p) \/ FetchSpec(p) \/ SkipSpec(p)
               \/ FailSpec(p) \/ OpenHistory(p) \/ WriteHistory(p) \/ Crash(p)
        PROVE  WindowsInv'
    BY <1>4, SetupStep, UpdateStep, LockStep, FetchSpecStep, SkipSpecStep, FailSpecStep,
       OpenHistoryStep, WriteHistoryStep, CrashStep
  <1>5. ASSUME NEW p \in Processes, Fetched(p) \/ Extras(p) PROVE WindowsInv'
    <2>1. /\ Clocked /\ UNCHANGED <<db, history, runs>> /\ job[p].at \in {"fetch", "extras"}
          /\ \/ Becomes(p, Idle)
             \/ p # "daily" /\ Becomes(p, [job[p] EXCEPT !.at = "extras"])
             \/ p # "daily" /\ Becomes(p, [job[p] EXCEPT !.at = "save"])
      <3>1. p = "daily" => job[p].at \in {"idle", "fetch"}
        BY Shared DEF GoodJob, DailyWindow
      <3>2. QED  BY <1>5, <3>1, WindowsAssumption DEF Fetched, Extras
    <2>2. CASE Becomes(p, Idle)
      BY <2>1, <2>2, Shared, QuietStep
    <2>3. QED  BY <2>1, <2>2, GoesOn
  <1>6. CASE UNCHANGED vars
    <2>1. UNCHANGED <<tick, db, history, job, runs>>
      BY <1>6 DEF vars
    <2>2. QED  BY <2>1 DEF WindowsInv, TypeOK, Today
  <1>7. QED
    BY <1>1, <1>2, <1>3, <1>4, <1>5, <1>6 DEF Next

\* For any processes, publications and periods: what a run has fetched is stored,
\* and no history, read or written, vouches for more (quickstart.py:1040-1062).
THEOREM WindowsInvariant == Spec => []WindowsInv
  BY InitWindowsInv, StepWindowsInv, PTL DEF Spec

\* Of the specs of a setup, everything published from its first day to the day of
\* the history is stored, whatever runs failed, died or overlapped, but for what
\* the runs of the chain are named to pass by (quickstart.py:916-917, 1073).
THEOREM NoGapBeforeUpdates == Spec => []UpdatesLeaveNoGap
  <1>1. WindowsInv => UpdatesLeaveNoGap
    BY DEF WindowsInv, UpdatesLeaveNoGap
  <1>2. QED  BY <1>1, WindowsInvariant, PTL

\* A daily sync that ends well has stored the days it looked back on, but for the
\* specs it skipped (daily_update.py:291-292).
THEOREM NoGapInDailyWindow == Spec => DailyLeavesNoGap
  <1>1. WindowsInv =>
          (EndDaily =>
             LET j == job["daily"]
             IN \A i \in Items :
                  /\ i.spec \in j.done
                  /\ j.day - DaysBack <= Day(i.at) /\ Day(i.at) < j.day /\ i.event <= j.day + DaysForward
                  /\ Weekly("daily", i.spec) => Today - Cycle <= Day(i.at)
                  => i \in db[DailyDb])
    <2> DEFINE d == job["daily"]
    <2> SUFFICES ASSUME WindowsInv, EndDaily,
                        NEW i \in Items, i.spec \in d.done,
                        d.day - DaysBack <= Day(i.at), Day(i.at) < d.day,
                        i.event <= d.day + DaysForward,
                        Weekly("daily", i.spec) => Today - Cycle <= Day(i.at)
                 PROVE  i \in db[DailyDb]
      OBVIOUS
    <2>1. /\ d \in Jobs /\ GoodJob("daily", d, db, Today) /\ d.at = "fetch"
      BY Shared DEF EndDaily, Processes
    <2>2. /\ d.mode = "daily" /\ d.db = DailyDb /\ StoredSoFar(d, db, Today)
          /\ d.from = d.day - DaysBack /\ d.to = d.day + DaysForward /\ d.day \in Int
      BY <2>1 DEF GoodJob, DailyWindow, Jobs
    <2>3. Day(i.at) <= d.to
      BY <2>2, DaysAreTyped, WindowsAssumption
    <2>4. QED  BY <2>2, <2>3 DEF StoredSoFar
  <1>2. QED  BY <1>1, WindowsInvariant, PTL DEF Spec, DailyLeavesNoGap

-----------------------------------------------------------------------------
(***************************************************************************)
(* The lock: Settled is preserved by every step of the others, because a   *)
(* process that only looks at the file finds a live holder in it.          *)
(***************************************************************************)
\* The run starts well typed.
LEMMA InitLockTypeOK == LockInit => LockTypeOK
  <1>1. LockInit => starts \in Nat
    BY DEF LockInit
  <1>2. QED  BY <1>1, Zenon DEF LockInit, LockTypeOK

\* Every step of a process keeps the types.
LEMMA StepLockTypeOK ==
  ASSUME LockTypeOK, NEW p \in Procs, Acquire(p) \/ Step(p) \/ Dies(p)
  PROVE  LockTypeOK'
  <1> DEFINE PCs == {"off", "check", "read", "probe", "busy", "stale", "invalid",
                     "create", "write", "held", "unlink"}
  <1>1. pc' \in [Procs -> PCs]
    BY DEF LockTypeOK, Acquire, Step, Dies, Check, ReadPid, Probe, ProbeFails, GiveUp,
       WaitAgain, RemoveStale, RemoveInvalid, Create, WritePid, Release, ReleaseUnlink, Goto
  <1>2. file' \in Procs \cup {NoFile, Blank} /\ seen' \in [Procs -> Procs \cup {NoFile}]
    BY DEF LockTypeOK, Acquire, Step, Dies, Check, ReadPid, Probe, ProbeFails, GiveUp,
       WaitAgain, RemoveStale, RemoveInvalid, Create, WritePid, Release, ReleaseUnlink,
       Unlink, UnlinkRaises
  <1>3. linked' \in [Procs -> BOOLEAN]
    BY DEF LockTypeOK, Acquire, Step, Dies, Check, ReadPid, Probe, ProbeFails, GiveUp,
       WaitAgain, RemoveStale, RemoveInvalid, Create, WritePid, Release, ReleaseUnlink,
       Unlink, UnlinkRaises
  <1>4. waits' \in [Procs -> BOOLEAN] /\ starts' \in Nat /\ posix' \in BOOLEAN
    BY DEF LockTypeOK, Acquire, Step, Dies, Check, ReadPid, Probe, ProbeFails, GiveUp,
       WaitAgain, RemoveStale, RemoveInvalid, Create, WritePid, Release, ReleaseUnlink
  <1>5. misjudged' \in BOOLEAN /\ crashed' \in BOOLEAN
    BY DEF LockTypeOK, Acquire, Step, Dies, Check, ReadPid, Probe, ProbeFails, GiveUp,
       WaitAgain, RemoveStale, RemoveInvalid, Create, WritePid, Release, ReleaseUnlink, Alive
  <1>6. QED  BY <1>1, <1>2, <1>3, <1>4, <1>5, Zenon DEF LockTypeOK

\* Types hold throughout.
THEOREM LockTypes == LockSpec => []LockTypeOK
  <1>1. LockTypeOK /\ [LockNext]_lockVars => LockTypeOK'
    <2>1. LockTypeOK /\ UNCHANGED lockVars => LockTypeOK'
      BY Zenon DEF LockTypeOK, lockVars
    <2>2. QED  BY <2>1, StepLockTypeOK DEF LockNext
  <1>2. QED  BY InitLockTypeOK, <1>1, PTL DEF LockSpec

\* A step of another process leaves a settled holder settled, unless it is told
\* wrongly that the holder is dead.
LEMMA OthersRespectSettled ==
  ASSUME LockTypeOK, NEW p \in Procs, Settled(p), NEW q \in Procs, q # p,
         Acquire(q) \/ Step(q) \/ Dies(q), ~misjudged'
  PROVE  Settled(p)'
  <1>1. \/ pc[q] \in {"off", "check", "read", "busy"}
        \/ pc[q] = "probe" /\ seen[q] = p
    BY DEF Settled
  <1>2. file = p /\ pc[p] = "held" /\ p # NoFile /\ Alive(p)
    BY NotAProcess DEF Settled, Alive
  <1>3. /\ file' = p
        /\ \A r \in Procs \ {q} : pc'[r] = pc[r] /\ seen'[r] = seen[r]
        /\ \/ pc'[q] \in {"off", "check", "read", "busy"}
           \/ pc'[q] = "probe" /\ seen'[q] = p
    <2>1. CASE Acquire(q)
      BY <1>1, <1>2, <2>1 DEF Acquire, Goto, LockTypeOK
    <2>2. CASE Check(q)
      BY <1>1, <1>2, <2>2 DEF Check, Goto, LockTypeOK
    <2>3. CASE ReadPid(q)
      BY <1>1, <1>2, <2>3 DEF ReadPid, Goto, LockTypeOK
    <2>4. CASE Probe(q)
      BY <1>1, <1>2, <2>4 DEF Probe, Goto, LockTypeOK
    <2>5. CASE ProbeFails(q)
      <3>1. misjudged'
        BY <1>1, <1>2, <2>5 DEF ProbeFails
      <3>2. QED  BY <3>1
    <2>6. CASE GiveUp(q) \/ WaitAgain(q)
      BY <1>1, <1>2, <2>6 DEF GiveUp, WaitAgain, Goto, LockTypeOK
    <2>7. CASE Dies(q)
      BY <1>1, <1>2, <2>7 DEF Dies, Goto, LockTypeOK
    <2>8. CASE RemoveStale(q) \/ RemoveInvalid(q) \/ Create(q) \/ WritePid(q)
               \/ Release(q) \/ ReleaseUnlink(q)
      BY <1>1, <2>8 DEF RemoveStale, RemoveInvalid, Create, WritePid, Release, ReleaseUnlink
    <2>9. QED
      BY <2>1, <2>2, <2>3, <2>4, <2>5, <2>6, <2>7, <2>8 DEF Step
  <1>4. QED  BY <1>2, <1>3 DEF Settled

\* A settled holder leaves the lock or stays settled by its own steps.
LEMMA HolderStep ==
  ASSUME LockTypeOK, NEW p \in Procs, Settled(p), Acquire(p) \/ Step(p) \/ Dies(p)
  PROVE  pc'[p] # "held"
  BY DEF Settled, Acquire, Step, Dies, Check, ReadPid, Probe, ProbeFails, GiveUp,
     WaitAgain, RemoveStale, RemoveInvalid, Create, WritePid, Release, ReleaseUnlink,
     Goto, LockTypeOK

\* For any number of processes: once a holder is settled it keeps the lock until
\* it releases it or dies (lock_manager.py:83-110, 120-129).
THEOREM SettledStays == LockSpec => SettledHolderKeepsLock
  <1>1. LockTypeOK /\ [LockNext]_lockVars =>
          [\A p \in Procs : Settled(p) /\ pc'[p] = "held" => Settled(p)' \/ misjudged']_lockVars
    <2> SUFFICES ASSUME LockTypeOK, LockNext, NEW p \in Procs, Settled(p), pc'[p] = "held"
                 PROVE  Settled(p)' \/ misjudged'
      BY DEF Settled
    <2>1. PICK q \in Procs : Acquire(q) \/ Step(q) \/ Dies(q)
      BY DEF LockNext
    <2>2. CASE q = p
      BY <2>1, <2>2, HolderStep
    <2>3. CASE q # p
      BY <2>1, <2>3, OthersRespectSettled
    <2>4. QED  BY <2>2, <2>3
  <1>2. QED  BY <1>1, LockTypes, PTL DEF LockSpec, SettledHolderKeepsLock

-----------------------------------------------------------------------------
\* Every step keeps the file owned.
LEMMA StepFileIsOwned ==
  ASSUME LockTypeOK, FileIsOwned, NEW p \in Procs, Acquire(p) \/ Step(p) \/ Dies(p)
  PROVE  FileIsOwned'
  <1> SUFFICES ASSUME posix', ~crashed'
               PROVE  /\ \A q \in Procs : linked'[q] => pc'[q] = "write"
                      /\ file' = Blank => \E q \in Procs : linked'[q]
                      /\ file' \in Procs => pc'[file'] \in {"held", "unlink"}
    BY DEF FileIsOwned
  <1>1. /\ posix /\ ~crashed
        /\ \A q \in Procs : linked[q] => pc[q] = "write"
        /\ file = Blank => \E q \in Procs : linked[q]
        /\ file \in Procs => pc[file] \in {"held", "unlink"}
        /\ file \in Procs \cup {NoFile, Blank} /\ NoFile # Blank
        /\ NoFile \notin Procs /\ Blank \notin Procs
    BY NotAProcess DEF LockTypeOK, FileIsOwned, Acquire, Step, Dies, Check, ReadPid, Probe,
       ProbeFails, GiveUp, WaitAgain, RemoveStale, RemoveInvalid, Create, WritePid, Release,
       ReleaseUnlink, NoFile, Blank
  <1>2. CASE /\ UNCHANGED <<file, linked>> /\ pc[p] \notin {"write", "held", "unlink"}
             /\ \A q \in Procs \ {p} : pc'[q] = pc[q]
    BY <1>1, <1>2
  <1>3. CASE \/ Acquire(p) \/ Check(p) \/ ReadPid(p) \/ Probe(p) \/ ProbeFails(p)
             \/ GiveUp(p) \/ WaitAgain(p)
    BY <1>2, <1>3 DEF Acquire, Check, ReadPid, Probe, ProbeFails, GiveUp, WaitAgain, Goto, LockTypeOK
  <1>4. CASE RemoveStale(p) \/ RemoveInvalid(p)
    <2>1. pc[p] \in {"stale", "invalid"} /\ \A q \in Procs \ {p} : pc'[q] = pc[q]
      BY <1>4 DEF RemoveStale, RemoveInvalid, Goto, LockTypeOK
    <2>2. CASE Unlink
      BY <1>1, <2>2 DEF Unlink
    <2>3. CASE UnlinkRaises
      BY <1>2, <2>1, <2>3 DEF UnlinkRaises
    <2>4. QED  BY <1>4, <2>2, <2>3 DEF RemoveStale, RemoveInvalid
  <1>5. CASE Create(p)
    BY <1>1, <1>5 DEF Create, Goto, LockTypeOK
  <1>6. CASE WritePid(p)
    <2>1. /\ linked' = [linked EXCEPT ![p] = FALSE] /\ pc' = [pc EXCEPT ![p] = "held"]
          /\ file' = (IF linked[p] THEN p ELSE file) /\ pc[p] = "write"
      BY <1>6 DEF WritePid, Goto
    <2>2. \A q \in Procs : linked'[q] => pc'[q] = "write"
      BY <1>1, <2>1 DEF LockTypeOK
    <2>3. file' = Blank => \E q \in Procs : linked'[q]
      BY <1>1, <2>1 DEF LockTypeOK
    <2>4. file' \in Procs => pc'[file'] \in {"held", "unlink"}
      BY <1>1, <2>1 DEF LockTypeOK
    <2>5. QED  BY <2>2, <2>3, <2>4
  <1>7. CASE Release(p)
    BY <1>1, <1>7 DEF Release, Goto, LockTypeOK
  <1>8. CASE ReleaseUnlink(p)
    <2>1. pc' = [pc EXCEPT ![p] = "off"] /\ pc[p] = "unlink"
      BY <1>8 DEF ReleaseUnlink, Goto
    <2>2. CASE Unlink
      BY <1>1, <2>1, <2>2 DEF Unlink, LockTypeOK
    <2>3. CASE UnlinkRaises
      <3>1. file = NoFile /\ UNCHANGED <<file, linked>>
        BY <1>1, <2>3 DEF UnlinkRaises
      <3>2. QED  BY <1>1, <2>1, <3>1 DEF LockTypeOK
    <2>4. QED  BY <1>8, <2>2, <2>3 DEF ReleaseUnlink
  <1>9. CASE Dies(p)
    BY <1>9 DEF Dies
  <1>10. QED
    BY <1>3, <1>4, <1>5, <1>6, <1>7, <1>8, <1>9 DEF Step

\* For any number of processes: when everybody has finished and nobody has died,
\* no lock file is left to refuse the next run (lock_manager.py:108-137).
THEOREM NoFileLeft == LockSpec => []NothingLeftBehind
  <1>1. LockInit => FileIsOwned
    BY NotAProcess DEF LockInit, FileIsOwned, Blank, NoFile
  <1>2. LockTypeOK /\ FileIsOwned /\ [LockNext]_lockVars => FileIsOwned'
    <2>1. FileIsOwned /\ UNCHANGED lockVars => FileIsOwned'
      BY DEF FileIsOwned, lockVars
    <2>2. QED  BY <2>1, StepFileIsOwned DEF LockNext
  <1>3. LockTypeOK /\ FileIsOwned => NothingLeftBehind
    BY NotAProcess DEF LockTypeOK, FileIsOwned, NothingLeftBehind, Alive
  <1>4. QED  BY <1>1, <1>2, <1>3, LockTypes, PTL DEF LockSpec

=============================================================================
