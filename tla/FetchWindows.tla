---------------------------- MODULE FetchWindows ----------------------------
(***************************************************************************)
(* Which days the drivers ask JV-Link for: quickstart's setup and update   *)
(* runs, which remember the last successful one in setup_history.json, and *)
(* daily_update, which looks a fixed number of days back.  Publications    *)
(* appear while runs are under way; a spec may be refused, fail or have no *)
(* contract, later steps may fail, processes may die, and the history is   *)
(* read before the lock of quickstart is taken.                            *)
(***************************************************************************)
EXTENDS Integers, Sequences, FiniteSets

CONSTANTS
    Quickstarts,  \* quickstart processes
    Specs,        \* the data specs considered
    Items,        \* publications: records of spec, at (a tick), event (a day)
    PerDay,       \* ticks of a day
    MaxTick,      \* bound: the clock stops there
    MaxRuns,      \* bound: runs started
    Dbs,          \* databases quickstart may be pointed to
    DailyDb,      \* the database of the configuration
    Windows,      \* what an operator of quickstart may ask for: see Setup
    DaysBack,     \* --days-back and
    DaysForward,  \* --days-forward of the scheduled daily_update
    Cycle,        \* days that "this week" reaches back
    Far           \* days back from which the provider wants a setup option

Processes == Quickstarts \cup {"daily"}

Day(t) == t \div PerDay
LastDay == Day(MaxTick)
Never == LastDay + 1

ASSUME WindowsAssumption ==
    /\ PerDay \in Nat \ {0} /\ MaxTick \in Nat /\ MaxRuns \in Nat
    /\ DaysBack \in Nat \ {0} /\ DaysForward \in Nat /\ Cycle \in Nat /\ Far \in Nat
    /\ DailyDb \in Dbs /\ "daily" \notin Quickstarts
    /\ \A w \in Windows : /\ w.mode \in {"simple", "standard", "update", "full"}
                          /\ w.back \in Nat /\ w.ahead \in Int /\ w.db \in Dbs
    /\ \A i \in Items : i.spec \in Specs /\ i.at \in 0 .. MaxTick /\ i.event \in Int

----------------------------------------------------------------------------
\* What is asked for, in the order of the lists

Modes == {"simple", "standard", "update", "full", "daily"}

\* An entry of a list, if its spec is considered.
Entry(s, option) == IF s \in Specs THEN << <<s, option>> >> ELSE <<>>

SIMPLE_SPECS == Entry("RACE", 1) \o Entry("DIFN", 4)

STANDARD_SPECS ==
    Entry("TOKU", 1) \o Entry("RACE", 1) \o Entry("DIFN", 4) \o Entry("BLDN", 1)
    \o Entry("MING", 1) \o Entry("SLOP", 1) \o Entry("WOOD", 1) \o Entry("YSCH", 1)
    \o Entry("HOSN", 1) \o Entry("HOYU", 1) \o Entry("COMM", 1)

FULL_SPECS == STANDARD_SPECS

UPDATE_SPECS ==
    Entry("TOKU", 2) \o Entry("RACE", 2) \o Entry("DIFN", 1) \o Entry("MING", 1)
    \o Entry("TCVN", 2) \o Entry("RCVN", 2)

\* daily_update, without the specs of JVRTOpen.
DAILY_SPECS ==
    Entry("TOKU", 2) \o Entry("RACE", 2) \o Entry("DIFN", 1) \o Entry("TCVN", 2)
    \o Entry("RCVN", 2) \o Entry("SLOP", 1) \o Entry("WOOD", 1) \o Entry("MING", 1)

_get_specs_for_mode(mode) ==
    CASE mode = "simple" -> SIMPLE_SPECS
      [] mode = "standard" -> STANDARD_SPECS
      [] mode = "update" -> UPDATE_SPECS
      [] mode = "full" -> FULL_SPECS
      [] mode = "daily" -> DAILY_SPECS

\* Further back than eleven months a difference becomes a setup; daily_update
\* knows one such spec, quickstart every spec that has one.
_effective_option(mode, e, from, now) ==
    IF e[2] = 1 /\ Day(now) - from > Far /\ (mode = "daily" => e[1] = "DIFN") THEN 4 ELSE e[2]

\* JVOpen: published from the start of from on, of this week only with option
\* 2; the start-end form ends with to.
RANGE_FROMTIME_DATA_SPECS == {"RACE"}
Since(option, from, now) ==
    IF option = 2 /\ Day(now) - Cycle > from THEN Day(now) - Cycle ELSE from
Offered(e, option, from, to, now) ==
    {i \in Items :
        /\ i.spec = e[1] /\ i.at <= now /\ Day(i.at) >= Since(option, from, now)
        /\ e[1] \in RANGE_FROMTIME_DATA_SPECS /\ option # 2 => Day(i.at) <= to}

\* Records of a later event day are dropped by the fetcher.
Delivered(e, option, from, to, now) ==
    {i \in Offered(e, option, from, to, now) : i.event <= to}

\* A split setup commits as it goes: a prefix of its stream.
Groups(option, new) ==
    IF option = 4 THEN {{i \in new : i.at < t} : t \in 0 .. MaxTick} ELSE {{}}

----------------------------------------------------------------------------
VARIABLES
    tick,     \* the clock
    db,       \* what each database holds
    history,  \* setup_history.json
    job,      \* the processes
    runs      \* bound: runs started so far

vars == <<tick, db, history, job, runs>>

NoHistory == [is |-> "none", day |-> 0, db |-> DailyDb, since |-> [s \in Specs |-> Never],
              missed |-> {}]
Idle == [at |-> "idle", mode |-> "daily", from |-> 0, to |-> 0, db |-> DailyDb, todo |-> <<>>,
         day |-> 0, done |-> {}, failed |-> FALSE, base |-> NoHistory]

\* Auxiliary, of the chain of runs a history ends: since which day its setup
\* was to fetch each spec, and which publications its runs have passed by.
Init ==
    /\ tick = 0 /\ runs = 0
    /\ db = [d \in Dbs |-> {}]
    /\ history = NoHistory
    /\ job = [p \in Processes |-> Idle]

Today == Day(tick)
Becomes(p, j) == job' = [job EXCEPT ![p] = j]
Clocked == tick' = tick
Tick == tick < MaxTick /\ tick' = tick + 1 /\ UNCHANGED <<db, history, job, runs>>

----------------------------------------------------------------------------
\* Settings, before the lock is taken

Starting(p) == job[p].at = "idle" /\ runs < MaxRuns /\ runs' = runs + 1

\* interactive_setup or the command line: mode, period and database.
Setup(p) ==
    /\ p \in Quickstarts /\ Starting(p)
    /\ \E w \in Windows :
           Becomes(p, [Idle EXCEPT !.at = "asked", !.mode = w.mode, !.db = w.db, !.day = Today,
                                   !.from = Today - w.back, !.to = Today + w.ahead])
    /\ Clocked /\ UNCHANGED <<db, history>>

\* The update of interactive_setup: from the day of the last success, in its
\* database; _load_setup_history takes an unreadable file for none.
Update(p) ==
    /\ p \in Quickstarts /\ Starting(p)
    /\ history.is = "saved"
    /\ Becomes(p, [Idle EXCEPT !.at = "asked", !.mode = "update", !.db = history.db, !.day = Today,
                               !.from = history.day, !.to = Today, !.base = history])
    /\ Clocked /\ UNCHANGED <<db, history>>

\* ProcessLock("quickstart"), then prerequisites, init, create-tables and
\* create-indexes, any of which ends the run.
Busy(q) == job[q].at \in {"fetch", "extras", "save", "write"}
Lock(p) ==
    /\ job[p].at = "asked"
    /\ \/ /\ \A q \in Quickstarts : ~ Busy(q)
          /\ Becomes(p, [job[p] EXCEPT !.at = "fetch", !.todo = _get_specs_for_mode(job[p].mode)])
       \/ Becomes(p, Idle)
    /\ Clocked /\ UNCHANGED <<db, history, runs>>

\* daily_update takes no lock.
StartDaily ==
    /\ Starting("daily")
    /\ Becomes("daily", [Idle EXCEPT !.at = "fetch", !.todo = DAILY_SPECS, !.day = Today,
                                     !.from = Today - DaysBack, !.to = Today + DaysForward])
    /\ Clocked /\ UNCHANGED <<db, history>>

----------------------------------------------------------------------------
\* One spec after the other

Fetching(p) == job[p].at = "fetch" /\ job[p].todo # <<>>
This(p) == Head(job[p].todo)
Option(p) == _effective_option(job[p].mode, This(p), job[p].from, tick)
New(p) == Delivered(This(p), Option(p), job[p].from, job[p].to, tick)
Store(p, new) == db' = [db EXCEPT ![job[p].db] = @ \cup new]
Inverted(p) == job[p].from > job[p].to

\* Imported whole, or nothing was offered.
FetchSpec(p) ==
    /\ Fetching(p) /\ ~ Inverted(p)
    /\ Store(p, New(p))
    /\ Becomes(p, [job[p] EXCEPT !.todo = Tail(@), !.done = @ \cup {This(p)[1]}])
    /\ Clocked /\ UNCHANGED <<history, runs>>

\* No contract: both drivers go on without the spec.
SkipSpec(p) ==
    /\ Fetching(p) /\ ~ Inverted(p)
    /\ Becomes(p, [job[p] EXCEPT !.todo = Tail(@)])
    /\ Clocked /\ UNCHANGED <<db, history, runs>>

\* Mutant: a run that failed goes on like one that had nothing to fetch.
MutantFailSpec(p) ==
    /\ Fetching(p)
    /\ \E new \in Groups(Option(p), New(p)) : Store(p, IF Inverted(p) THEN {} ELSE new)
    /\ Becomes(p, [job[p] EXCEPT !.todo = Tail(@), !.done = @ \cup {This(p)[1]}])
    /\ Clocked /\ UNCHANGED <<history, runs>>

\* quickstart goes on and fails in the end, daily_update raises at once.
FailSpec(p) ==
    /\ Fetching(p)
    /\ \E new \in Groups(Option(p), New(p)) : Store(p, IF Inverted(p) THEN {} ELSE new)
    /\ Becomes(p, IF p = "daily" THEN Idle ELSE [job[p] EXCEPT !.todo = Tail(@), !.failed = TRUE])
    /\ Clocked /\ UNCHANGED <<history, runs>>

\* The daily sync ends well.
EndDaily ==
    /\ job["daily"].at = "fetch" /\ job["daily"].todo = <<>>
    /\ Becomes("daily", Idle)
    /\ Clocked /\ UNCHANGED <<db, history, runs>>

\* No spec failed, and one was not skipped.
Fetched(p) ==
    /\ p \in Quickstarts /\ job[p].at = "fetch" /\ job[p].todo = <<>>
    /\ Becomes(p, IF job[p].failed \/ job[p].done = {} THEN Idle ELSE [job[p] EXCEPT !.at = "extras"])
    /\ Clocked /\ UNCHANGED <<db, history, runs>>

\* Time series, realtime data and the background service.
Extras(p) ==
    /\ job[p].at = "extras"
    /\ Becomes(p, [job[p] EXCEPT !.at = "save"]) \/ Becomes(p, Idle)
    /\ Clocked /\ UNCHANGED <<db, history, runs>>

----------------------------------------------------------------------------
\* The history; base is the one that was read, and then the one to write

Joins(j) == j.base.is = "saved"

IsListed(mode, s) == \E i \in DOMAIN _get_specs_for_mode(mode) : _get_specs_for_mode(mode)[i][1] = s
Weekly(mode, s) == \E i \in DOMAIN _get_specs_for_mode(mode) : _get_specs_for_mode(mode)[i] = <<s, 2>>

\* A setup begins a chain: it is to hold the specs of its list from its first
\* day on.  An update only carries it on.
ChainSince(j, s) ==
    IF Joins(j) THEN j.base.since[s] ELSE IF IsListed(j.mode, s) THEN j.from ELSE Never

\* The history is moved on to today past what a run did not ask for.
NotFetched(j, i) == i.spec \notin j.done
BeforeThisWeek(j, i) == Weekly(j.mode, i.spec) /\ Day(i.at) < Today - Cycle
AfterItWasAsked(j, i) == j.day <= Day(i.at)
AfterItsPeriod(j, i) == j.to < Day(i.at) \/ j.to < i.event

Missed(j) ==
    {i \in Items :
        /\ j.from <= Day(i.at) /\ Day(i.at) < Today
        /\ \/ NotFetched(j, i) \/ BeforeThisWeek(j, i)
           \/ AfterItWasAsked(j, i) \/ AfterItsPeriod(j, i)}

Saved(j) ==
    [is |-> "saved", day |-> Today, db |-> j.db, since |-> [s \in Specs |-> ChainSince(j, s)],
     missed |-> Missed(j) \cup (IF Joins(j) THEN j.base.missed ELSE {})]

\* open(.., "w") empties the file; if it cannot be opened the run still
\* succeeds and the older history stays.
OpenHistory(p) ==
    /\ job[p].at = "save"
    /\ \/ /\ Becomes(p, [job[p] EXCEPT !.at = "write", !.base = Saved(job[p])])
          /\ history' = [history EXCEPT !.is = "torn"]
       \/ Becomes(p, Idle) /\ UNCHANGED history
    /\ Clocked /\ UNCHANGED <<db, runs>>

WriteHistory(p) ==
    /\ job[p].at = "write"
    /\ history' = job[p].base \/ UNCHANGED history
    /\ Becomes(p, Idle)
    /\ Clocked /\ UNCHANGED <<db, runs>>

\* A process dies; a split setup may have committed a part.
Crash(p) ==
    /\ job[p].at # "idle"
    /\ IF Fetching(p) /\ ~ Inverted(p)
         THEN \E new \in Groups(Option(p), New(p)) : Store(p, new)
         ELSE UNCHANGED db
    /\ Becomes(p, Idle)
    /\ Clocked /\ UNCHANGED <<history, runs>>

Next ==
    \/ Tick \/ StartDaily \/ EndDaily
    \/ \E p \in Processes :
           \/ Setup(p) \/ Update(p) \/ Lock(p)
           \/ FetchSpec(p) \/ SkipSpec(p) \/ FailSpec(p) \/ Fetched(p) \/ Extras(p)
           \/ OpenHistory(p) \/ WriteHistory(p) \/ Crash(p)

Spec == Init /\ [][Next]_vars

----------------------------------------------------------------------------
\* Properties

Histories == [is : {"none", "saved", "torn"}, day : Int, db : Dbs, since : [Specs -> Int],
              missed : SUBSET Items]
Jobs == [at : {"idle", "asked", "fetch", "extras", "save", "write"}, mode : Modes,
         from : Int, to : Int, db : Dbs, todo : Seq(Specs \X {1, 2, 4}), day : Int,
         done : SUBSET Specs, failed : BOOLEAN, base : Histories]

TypeOK ==
    /\ tick \in 0 .. MaxTick /\ runs \in Nat
    /\ db \in [Dbs -> SUBSET Items]
    /\ history \in Histories
    /\ job \in [Processes -> Jobs]

\* Every publication of the chain is held by the database the history names,
\* or was passed by.
Vouches(h, held) ==
    h.is = "saved" =>
        \A i \in Items :
            h.since[i.spec] <= Day(i.at) /\ Day(i.at) < h.day => i \in held[h.db] \cup h.missed

\* "The same as last time, differences only since <timestamp>" (quickstart.py:
\* 916-917, 1073), up to what the code passes by.  Whatever runs failed, died
\* or overlapped, what was published from the first day of a setup to the day
\* of the history on disk, of the specs of the setup, is in the database the
\* history names, but for these: in some run of the chain the spec had no
\* contract or is not one of UPDATE_SPECS; option 2 asked for this week only
\* after a pause that was longer; it appeared after the day the run was asked
\* for; it, or its event, lay past the end of the period.
UpdatesLeaveNoGap == Vouches(history, db)

\* A daily sync that ends well on a day has stored every publication of the
\* days it looks back, but for the specs it skipped, of the weekly specs what
\* is older than this week, and events that lie ahead of it (daily_update.py:
\* 291-292).
DailyLeavesNoGap ==
    [][EndDaily =>
         LET j == job["daily"]
         IN \A i \in Items :
              /\ i.spec \in j.done
              /\ j.day - DaysBack <= Day(i.at) /\ Day(i.at) < j.day /\ i.event <= j.day + DaysForward
              /\ Weekly("daily", i.spec) => Today - Cycle <= Day(i.at)
              => i \in db[DailyDb]]_vars

\* Why: what a run has fetched so far is stored, of the days before it began.
StoredSoFar(j, held, today) ==
    \A i \in Items :
        /\ i.spec \in j.done
        /\ j.from <= Day(i.at) /\ Day(i.at) < j.day /\ Day(i.at) <= j.to /\ i.event <= j.to
        /\ Weekly(j.mode, i.spec) => today - Cycle <= Day(i.at)
        => i \in held[j.db]

\* An update joins on to the history it has read.
JoinsOn(j) == Joins(j) => j.from = j.base.day /\ j.db = j.base.db

\* Only a weekly entry of its list makes a run ask for this week.
OfItsList(j) == \A n \in 1 .. Len(j.todo) : j.todo[n][2] = 2 => Weekly(j.mode, j.todo[n][1])

\* The days daily_update looks back and ahead.
DailyWindow(j) ==
    /\ j.at \in {"idle", "fetch"}
    /\ j.at = "fetch" => /\ j.mode = "daily" /\ j.db = DailyDb
                         /\ j.from = j.day - DaysBack /\ j.to = j.day + DaysForward

GoodJob(p, j, held, today) ==
    /\ Vouches(j.base, held) /\ OfItsList(j) /\ j.day <= today
    /\ j.at # "write" => StoredSoFar(j, held, today) /\ JoinsOn(j)
    /\ p = "daily" => DailyWindow(j)

\* The inductive invariant.
WindowsInv ==
    /\ TypeOK
    /\ Vouches(history, db)
    /\ \A p \in Processes : GoodJob(p, job[p], db, Today)

=============================================================================
