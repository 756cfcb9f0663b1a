--------------------------- MODULE RealtimeCollect ---------------------------
(***************************************************************************)
(* The collectors that fetch JVRTOpen responses once and store them with   *)
(* RealtimeUpdater (src/realtime/updater.py):                              *)
(*   background  _run_realtime_update of scripts/background_updater.py     *)
(*   bgtime      its _run_time_series_update                               *)
(*   quickspeed  _fetch_single_realtime_spec of scripts/quickstart.py      *)
(*   quicktime   its _run_fetch_timeseries_rich                            *)
(*   daily       _sync_realtime_spec of scripts/daily_update.py            *)
(*   capture     the command "realtime timeseries" of cli/main.py          *)
(*                                                                         *)
(* A run connects, opens its keys one after another, reads every response, *)
(* stores its rows and leaves the database context.  A place is a table    *)
(* (or the tables of one spec) restricted to a date or race key; a row has *)
(* a slot (its table or horse) and, for odds, the publication time.        *)
(***************************************************************************)
EXTENDS RaceWindow, Sequences, SequencesExt

CONSTANTS
    KeyOrder,       \* the keys a run goes through, in order
    MaxVersion,     \* bound: responses the provider publishes for a key
    Slots,
    Answers,        \* Answers[kind][v]: the rows of the v-th response, in order
    Handles,        \* <<dual, primary driver, secondary driver>>
    Collectors,     \* drivers to check
    Asks,           \* Asks[n]: race tables and windows of the n-th run
    SaveBatch,      \* JRVLTSQL_TS_SAVE_BATCH_SIZE
    MaxRuns,        \* bound: runs
    MaxFaults       \* bound: injected failures

Odds == {"odds1", "odds2"}     \* time-series specs
Kinds == {"speed", "date", "mining"} \cup Odds
Keys == Range(KeyOrder)

ASSUME CollectAssumption ==
    /\ KeyOrder \in Seq(DOMAIN DayOf)
    /\ MaxRuns \in Nat
    /\ Collectors \subseteq {"background", "bgtime", "quickspeed", "quicktime", "daily", "capture"}
    /\ \A n \in 1 .. MaxRuns : Asks[n] \subseteq [rows : SUBSET RaceRows, window : Bounds]
    /\ MaxVersion \in Nat /\ IsFiniteSet(Slots)

Places == Kinds \X Keys
Cells(kind) == (IF kind \in Odds THEN 1 .. MaxVersion ELSE {0}) \X Slots

\* An answer stores and erases rows; the odds it stores are those of its own
\* publication.
ASSUME AnswersAssumption ==
    \A kind \in Kinds, v \in 1 .. MaxVersion :
        /\ Answers[kind][v] \in
             Seq([do : {"put", "erase"}, flaw : {"none", "nokey", "header"}, pub : Nat, slot : Slots])
        /\ \A i \in DOMAIN Answers[kind][v] :
             LET line == Answers[kind][v][i]
             IN /\ <<line.pub, line.slot>> \in Cells(kind)
                /\ kind \in Odds /\ line.do = "put" => line.pub = v

Empty == [p \in Places |-> [r \in Cells(p[1]) |-> 0]]

\* Time-series rows keep the earlier CollectedAt.
MutantFirst(old, new) == new
First(old, new) == IF old = 0 THEN new ELSE Min({old, new})

\* A row holds the version of its response, or the time an odds row was
\* collected; 0 is no row.
Apply(driver, c, s) ==
    LET Collected(e, r) == {x.value : x \in {y \in s.rows : y.place = e /\ <<y.pub, y.slot>> = r}}
    IN CASE s.do = "put"   -> [c EXCEPT ![s.place][<<s.pub, s.slot>>] =
                                 IF s.place[1] \in Odds THEN First(@, s.value) ELSE s.value]
         [] s.do = "erase" -> [c EXCEPT ![s.place][<<s.pub, s.slot>>] = 0]
         [] s.do = "clear" -> [c EXCEPT ![s.place] = Empty[s.place]]
         \* rows of odds, in one insert
         [] s.do = "many"  ->
              [e \in Places |-> [r \in Cells(e[1]) |->
                 IF Collected(e, r) = {} THEN c[e][r]
                 ELSE First(c[e][r], Min(Collected(e, r)))]]

INSTANCE DualDatabase WITH Write <- Apply

ASSUME HandlesAssumption == Handles \subseteq BOOLEAN \X Drivers \X Drivers

VARIABLES
    h,          \* the database handle of the run
    link,       \* JV-Link's stream: "closed", "open", "nodata"
    provider,   \* responses published so far, for each key
    run, driver, phase,
    ask,        \* race rows and window of a time-series command
    plan,       \* <<kind, key>> still to open
    buf,        \* rows of the response not yet processed
    hold,       \* rows of earlier responses not yet flushed
    failed,     \* a rejected row was counted, a spec failed
    raised,     \* the run leaves its database context by an exception
    result,
    base,       \* auxiliary: primary rows when the run began
    expect,     \* auxiliary: what the accepted rows make of base
    whole,      \* auxiliary: odds responses read to their end
    torn,       \* auxiliary: kinds a partial response was let through for
    faults

job == <<run, driver>>
data == <<buf, hold>>
aux == <<base, whole, torn>>
vars == <<h, link, provider, job, phase, ask, plan, data, failed, raised, result,
          aux, expect, faults>>

Idle(c) == Handle(c[1], c[2], c[3], Empty)
At == Head(plan)

\* The response of the stream that is open, as statements at time run.
Response(e, v) ==
    LET rows == Answers[e[1]][v]
    IN [i \in DOMAIN rows |->
           [do |-> rows[i].do, flaw |-> rows[i].flaw, place |-> e, slot |-> rows[i].slot,
            pub |-> rows[i].pub, value |-> IF e[1] \in Odds THEN run ELSE v]]

Spent(n) == faults + n <= MaxFaults /\ faults' = faults + n

Init ==
    /\ \E c \in Handles : h = Idle(c)
    /\ link = "closed" /\ provider = [k \in Keys |-> 0]
    /\ run = 0 /\ driver = "none" /\ phase = "idle" /\ ask = <<>>
    /\ plan = <<>> /\ buf = <<>> /\ hold = <<>>
    /\ failed = FALSE /\ raised = FALSE /\ result = "none"
    /\ base = Empty /\ expect = Empty /\ whole = {} /\ torn = {}
    /\ faults = 0

-----------------------------------------------------------------------------
\* Beginning of a run

Per(kind) == [i \in DOMAIN KeyOrder |-> <<kind, KeyOrder[i]>>]

\* What each collector opens, spec by spec.
Plans(d) ==
    CASE d = "background" -> {<<<<kind, k>>>> : kind \in {"speed", "date"}, k \in Keys}
      [] d = "bgtime"     -> {<<<<"odds1", k>>, <<"odds2", k>>>> : k \in Keys}
      [] d = "quickspeed" -> {Per(kind) : kind \in {"speed", "date", "mining"}}
      [] d = "quicktime"  -> {Per("odds1") \o Per("odds2")}
      [] d = "daily"      -> {Per(kind) : kind \in {"speed", "date"}}
      [] d = "capture"    -> {<<>>}

\* The background updater writes SQLite only.
Uses(d, g) == d \in {"background", "bgtime"} => ~g.dual /\ g.p.driver = "sqlite"

\* A handle of this run on the rows there are.
Renewed(g) ==
    [Handle(g.dual, g.p.driver, g.s.driver, Empty) EXCEPT
        !.p = Backend(g.p.driver, g.p.store), !.s = Backend(g.s.driver, g.s.store)]

\* Tables are prepared and committed, or a transaction is begun for the run.
Opened(d, g) ==
    IF d = "capture" THEN Then(Connect(g), Commit)
    ELSE Then(Connect(g), Begin)

Start ==
    /\ phase = "idle" /\ run < MaxRuns
    /\ \E d \in Collectors : \E o \in Opened(d, Renewed(h)), p \in Plans(d) :
         /\ Uses(d, h) /\ o.ok
         /\ Spent(o.faults) /\ h' = o.db
         /\ driver' = d /\ plan' = p
         /\ IF d = "capture" THEN phase' = "select" /\ ask' \in Asks[run + 1]
            ELSE phase' = "open" /\ ask' = <<>>
    /\ run' = run + 1
    /\ base' = h.p.store /\ expect' = h.p.store
    /\ result' = "running"
    /\ UNCHANGED <<link, provider, data, failed, raised, whole, torn>>

\* The keys of S, in the order of KeyOrder.
InTurn(S) ==
    {s \in [1 .. Cardinality(S) -> S] :
        /\ Range(s) = S
        /\ \A i, j \in DOMAIN s : i < j =>
             \E a, b \in DOMAIN KeyOrder : a < b /\ KeyOrder[a] = s[i] /\ KeyOrder[b] = s[j]}

\* fetch_time_series_batch_from_db: the races of the command, or nothing is
\* opened at all.
Select ==
    /\ phase = "select"
    /\ IF Refuses(ask.rows, ask.window)
         THEN phase' = "exit" /\ raised' = TRUE /\ UNCHANGED plan
       ELSE /\ phase' = "open" /\ UNCHANGED raised
            /\ \E kind \in Odds, s \in InTurn(Keys \cap Targets(ask.rows, ask.window)) :
                 plan' = [i \in DOMAIN s |-> <<kind, s[i]>>]
    /\ ask' = <<>>
    /\ UNCHANGED <<h, link, provider, job, data, failed, result, aux, expect, faults>>

-----------------------------------------------------------------------------
\* Failures

\* jv_close; a failing close is logged and the stream stays open.
Closing ==
    {[link |-> "closed", faults |-> 0]} \cup
    (IF link = "closed" THEN {} ELSE {[link |-> link, faults |-> 1]})

\* Specs and keys that are given up while the run goes on; the keys of one spec
\* follow one another.
Continues(sub) ==
    driver \in {"capture", "quicktime"} \/ (sub /\ driver \in {"bgtime", "daily"})

Rest ==
    CASE driver = "capture" -> Tail(plan)
      [] driver \in {"bgtime", "quicktime"} ->
           SubSeq(plan, 1 + Cardinality({i \in DOMAIN plan : plan[i][1] = At[1]}), Len(plan))
      [] OTHER -> <<>>

\* These roll back before they look at the error.
Undoes(sub) == driver = "background" \/ (driver = "daily" /\ ~sub)

\* What a collector does with an exception raised by its fetcher or its
\* updater, on handle g after n faults; sub: the contract lacks the spec.
Error(g, sub, n) ==
    \E c \in Closing : \E o \in (IF Undoes(sub) THEN Rollback(g) ELSE {Ok(g, 0)}) :
        /\ Spent(n + c.faults + o.faults)
        /\ h' = o.db /\ link' = c.link /\ buf' = <<>>
        /\ IF Continues(sub)
             THEN /\ phase' = "open" /\ plan' = Rest /\ raised' = FALSE
                  /\ failed' = (failed \/ (driver = "quicktime" /\ ~sub))
                  /\ UNCHANGED <<result, torn>>
           ELSE /\ phase' = "exit" /\ plan' = <<>> /\ UNCHANGED failed
                /\ raised' = ~(sub /\ o.ok)
                /\ result' = IF sub /\ o.ok THEN "skipped" ELSE result
                /\ torn' = IF sub /\ failed THEN torn \cup {At[1]} ELSE torn

-----------------------------------------------------------------------------
\* One response

\* Mutant: a command does not buffer the response of a race.
MutantGathered(kind) == driver \in {"background", "quickspeed"} /\ kind = "date"

\* Responses that are read to the end before a row of them is processed.
Gathered(kind) ==
    driver = "capture" \/ (driver \in {"background", "quickspeed"} /\ kind = "date")

\* jv_rt_open on a closed stream; the provider may have published more
\* meanwhile.
OpenData ==
    /\ phase = "open" /\ plan # <<>> /\ link = "closed"
    /\ \E v \in (provider[At[2]] .. MaxVersion) \ {0} :
         provider' = [provider EXCEPT ![At[2]] = v] /\ buf' = Response(At, v)
    /\ link' = "open"
    /\ phase' = IF Gathered(At[1]) THEN "gather"
                ELSE IF At[1] = "date" THEN "clear" ELSE "rows"
    /\ UNCHANGED <<h, job, ask, plan, hold, failed, raised, result, aux, expect, faults>>

\* -1: the daily sync goes on to the next date without closing the stream.
OpenNoData ==
    /\ phase = "open" /\ plan # <<>> /\ link = "closed" /\ provider[At[2]] = 0
    /\ \E n \in {0, 1} : /\ Spent(n)
                         /\ link' = IF n = 1 \/ driver = "daily" THEN "nodata" ELSE "closed"
                         /\ (driver = "daily" => n = 0)
    /\ plan' = Tail(plan)
    /\ UNCHANGED <<h, provider, job, phase, ask, data, failed, raised, result, aux, expect>>

\* Refused by the provider, or -202 because a stream is still open.
OpenFails ==
    /\ phase = "open" /\ plan # <<>>
    /\ IF link = "closed" THEN \E sub \in BOOLEAN : Error(h, sub, 1) ELSE Error(h, FALSE, 0)
    /\ UNCHANGED <<provider, job, ask, hold, base, whole, expect>>

\* materialize_complete_records, and the buffer of one race of a command.
Gather ==
    /\ phase = "gather"
    /\ IF driver = "capture" THEN UNCHANGED <<link, faults>>
       ELSE \E c \in Closing : Spent(c.faults) /\ link' = c.link
    /\ phase' = IF At[1] = "date" THEN "clear" ELSE "rows"
    /\ whole' = whole \cup (IF At[1] \in Odds THEN {<<At, provider[At[2]]>>} ELSE {})
    /\ UNCHANGED <<h, provider, job, ask, plan, data, failed, raised, result, base, torn,
                   expect>>

\* JVRead or the parser fails somewhere in the response.
ReadFails ==
    /\ phase = "gather" \/ (phase = "rows" /\ link = "open" /\ ~Gathered(At[1]))
    /\ Error(h, FALSE, 1)
    /\ UNCHANGED <<provider, job, ask, hold, base, whole, expect>>

\* replace_date_snapshot: the rows of the date are deleted in every table of
\* the snapshot.
Clear ==
    /\ phase = "clear"
    /\ LET s == [do |-> "clear", place |-> At]
       IN \E o \in Execute(h, s) :
            IF o.ok
              THEN /\ Spent(o.faults) /\ h' = o.db
                   /\ phase' = "rows" /\ expect' = Apply("sqlite", expect, s)
                   /\ UNCHANGED <<link, plan, buf, failed, raised, result, torn>>
            ELSE Error(o.db, FALSE, o.faults) /\ UNCHANGED expect
    /\ UNCHANGED <<provider, job, ask, hold, base, whole>>

\* Rejected before any statement: a mining row outside its snapshot list, a
\* header that contradicts itself, an incomplete primary key.
Rejected(r) == r.place[1] = "mining" \/ r.flaw # "none"

\* _process_single_record: a database error is a rejection, a schema or domain
\* error is raised.
ProcessRecord(g, r) ==
    IF Rejected(r) THEN {[db |-> g, is |-> "rejected", faults |-> 0]}
    ELSE {[db |-> o.db, is |-> IF o.ok THEN "accepted" ELSE "rejected", faults |-> o.faults]
          : o \in Execute(g, r)}
         \cup {[db |-> g, is |-> "raised", faults |-> 1]}

\* Rejections are counted and judged in the end, or end the run at once.
Counts(is) ==
    \/ is = "rejected" /\ driver = "quickspeed"
    \/ is # "accepted" /\ driver = "daily"

Row ==
    /\ phase = "rows" /\ buf # <<>> /\ driver # "capture"
    /\ \E o \in ProcessRecord(h, Head(buf)) :
         IF o.is = "accepted" \/ Counts(o.is)
           THEN /\ Spent(o.faults) /\ h' = o.db /\ buf' = Tail(buf)
                /\ failed' = (failed \/ o.is # "accepted")
                /\ expect' = IF o.is = "accepted" THEN Apply("sqlite", expect, Head(buf))
                             ELSE expect
                /\ UNCHANGED <<link, phase, plan, raised, result, torn>>
         ELSE Error(o.db, FALSE, o.faults) /\ UNCHANGED expect
    /\ UNCHANGED <<provider, job, ask, hold, base, whole>>

\* The response is exhausted and its stream closed.
EndResponse ==
    /\ phase = "rows" /\ buf = <<>>
    /\ \E c \in Closing : Spent(c.faults) /\ link' = c.link
    /\ plan' = Tail(plan) /\ phase' = "open"
    /\ whole' = whole \cup (IF At[1] \in Odds THEN {<<At, provider[At[2]]>>} ELSE {})
    /\ UNCHANGED <<h, provider, job, ask, data, failed, raised, result, base, torn,
                   expect>>

-----------------------------------------------------------------------------
\* process_parsed_records_batch

\* One statement of a batch: the rows of a table, or a row, which is raised
\* for when it cannot be stored.
Store(g, s) ==
    IF s.do = "many" THEN InsertMany(g, s)
    ELSE IF s.flaw # "none" THEN {Err(g, 0)} ELSE Execute(g, s)

\* Statements executed in order; the first that raises ends them.
InOrder(g, S) ==
    LET after[n \in 0 .. Len(S)] ==
            IF n = 0 THEN {Ok(g, 0)} ELSE Then(after[n - 1], LAMBDA x : Store(x, S[n]))
    IN after[Len(S)]

Owned(own, g, Body(_)) ==
    IF own THEN Then(Then(Begin(g), Body), Commit) ELSE Body(g)

\* With an erase in it a batch is applied row by row, in provider order; its
\* transaction begins outside the protected block.
OrderedBatch(g, B) ==
    LET own == ~Pending(g)
        Body(x) == IF own THEN Then(InOrder(x, B), Commit) ELSE InOrder(x, B)
    IN Then(IF own THEN Begin(g) ELSE {Ok(g, 0)},
            LAMBDA x : Handling(Body(x), RollbackFailedImport))

\* Otherwise one insert for every table; rows without a complete key are left
\* out, and only counted once the others are committed.
GroupedBatch(g, B) ==
    LET good == {r \in Range(B) : r.flaw = "none"}
        tables == SetToSeq({r.slot : r \in good})
        Many(t) == [do |-> "many", rows |-> {r \in good : r.slot = t}]
        Body(x) == InOrder(x, [i \in DOMAIN tables |-> Many(tables[i])])
        own == ~Pending(g) /\ good # {}
    IN {[o EXCEPT !.ok = @ /\ good = Range(B)]
        : o \in Handling(Owned(own, g, Body), RollbackFailedImport)}

\* A row whose header is refused invalidates the batch.
ProcessBatch(g, B) ==
    IF B = <<>> THEN {Ok(g, 0)}
    ELSE IF \E i \in DOMAIN B : B[i].flaw = "header"
      THEN {Err(o.db, o.faults)
            : o \in (IF Pending(g) THEN {Ok(g, 0)} ELSE RollbackFailedImport(g))}
    ELSE IF \E i \in DOMAIN B : B[i].do = "erase" THEN OrderedBatch(g, B)
    ELSE GroupedBatch(g, B)

\* The rows B are flushed; one that is not stored ends the command.
Flush(B, p) ==
    \E o \in ProcessBatch(h, B) :
        /\ Spent(o.faults) /\ h' = o.db
        /\ hold' = <<>>
        /\ IF o.ok THEN /\ phase' = p /\ UNCHANGED raised
                        /\ expect' = FoldLeft(LAMBDA d, r : Apply("sqlite", d, r), expect, B)
           ELSE phase' = "exit" /\ raised' = TRUE /\ UNCHANGED expect

FullBatch(B) == Len(B) >= SaveBatch

\* The next row of a complete response joins the batch, which is flushed when
\* it is full.
Collect ==
    /\ phase = "rows" /\ buf # <<>> /\ driver = "capture"
    /\ LET B == Append(hold, Head(buf))
       IN IF FullBatch(B) THEN Flush(B, "rows")
          ELSE hold' = B /\ UNCHANGED <<h, phase, raised, expect, faults>>
    /\ buf' = Tail(buf) /\ torn' = torn \cup Odds
    /\ UNCHANGED <<link, provider, job, ask, plan, failed, result, base, whole>>

-----------------------------------------------------------------------------
\* End of a run

Leave(o, res, r) ==
    /\ Spent(o.faults) /\ h' = o.db
    /\ phase' = "exit" /\ raised' = r
    /\ result' = res
    /\ UNCHANGED <<link, provider, job, ask, plan, data, failed, aux, expect>>

AllOpened == phase = "open" /\ plan = <<>>

\* Mutant: a spec that failed does not keep the others from being committed.
MutantFinishSpecs ==
    /\ AllOpened /\ driver = "quicktime"
    /\ \E o \in Commit(h) : Leave(o, IF failed THEN "failed" ELSE "success", ~o.ok)

\* _run_fetch_timeseries_rich: one spec that failed undoes them all.
FinishSpecs ==
    /\ AllOpened /\ driver = "quicktime"
    /\ \E o \in (IF failed THEN Rollback(h) ELSE Commit(h)) :
         Leave(o, IF failed THEN "failed" ELSE "success", ~o.ok)

\* Mutant: rejected rows are reported, not rolled back.
MutantFinishSpec ==
    /\ AllOpened /\ driver = "quickspeed"
    /\ Leave(Ok(h, 0), IF failed THEN "failed" ELSE "success", FALSE)

\* _fetch_single_realtime_spec: the commit is left to the context.
FinishSpec ==
    /\ AllOpened /\ driver = "quickspeed"
    /\ \E o \in (IF failed THEN Rollback(h) ELSE {Ok(h, 0)}) :
         Leave(o, IF failed THEN "failed" ELSE "success", ~o.ok)

\* _sync_realtime_spec, _run_realtime_update and _run_time_series_update: any
\* exception, that of the commit too, has the transaction rolled back.
FinishRun ==
    /\ AllOpened /\ driver \in {"daily", "background", "bgtime"}
    /\ \E o \in (IF failed THEN {Err(h, 0)} ELSE Commit(h)) :
         \E p \in (IF o.ok \/ driver # "daily" THEN {o} ELSE Handling({o}, Rollback)) :
           Leave(p, "success", ~p.ok)

\* Mutant: the last, partial batch is dropped.
MutantFinishCapture ==
    /\ AllOpened /\ driver = "capture"
    /\ phase' = "exit" /\ hold' = <<>> /\ result' = "success"
    /\ expect' = FoldLeft(LAMBDA d, r : Apply("sqlite", d, r), expect, hold)
    /\ UNCHANGED <<h, link, provider, job, ask, plan, buf, failed, raised, aux, faults>>

FinishCapture ==
    /\ AllOpened /\ driver = "capture"
    /\ Flush(hold, "exit") /\ result' = "success"
    /\ UNCHANGED <<link, provider, job, ask, plan, buf, failed, aux>>

\* The with block ends; what it leaves of the connection is dropped.
Dropped(g) == [g EXCEPT !.p = Closed(@), !.s = Closed(@)]

Exit ==
    /\ phase = "exit"
    /\ \E o \in ContextExit(h, raised) :
         /\ Spent(o.faults) /\ h' = Dropped(o.db)
         /\ result' = IF raised THEN IF driver = "capture" THEN "stopped" ELSE "failed"
                      ELSE IF o.ok \/ result = "failed" THEN result ELSE "unclear"
    /\ phase' = "idle" /\ hold' = <<>> /\ buf' = <<>> /\ driver' = "none" /\ raised' = FALSE
    /\ plan' = <<>> /\ link' = "closed" /\ failed' = FALSE
    /\ UNCHANGED <<provider, run, ask, aux, expect>>

\* The process dies, whatever it was doing.
Crash ==
    /\ phase \notin {"idle", "select"} /\ Spent(1)
    /\ h' = Dropped(h) /\ result' = "crashed"
    /\ phase' = "idle" /\ hold' = <<>> /\ buf' = <<>> /\ driver' = "none" /\ raised' = FALSE
    /\ plan' = <<>> /\ link' = "closed" /\ failed' = FALSE
    /\ UNCHANGED <<provider, run, ask, aux, expect>>

Next ==
    \/ Start \/ Select
    \/ OpenData \/ OpenNoData \/ OpenFails
    \/ Gather \/ ReadFails \/ Clear \/ Row \/ EndResponse \/ Collect
    \/ FinishSpecs \/ FinishSpec \/ FinishRun \/ FinishCapture
    \/ Exit \/ Crash

Spec == Init /\ [][Next]_vars

-----------------------------------------------------------------------------
\* Properties

\* What whole responses make of no rows, in the order they were published.
Have(rows) == {r \in DOMAIN rows : rows[r] # 0}

WholeRows ==
    LET Answer(kind, c, v) ==
            FoldLeft(LAMBDA d, r : [d EXCEPT ![<<r.pub, r.slot>>] = IF r.do = "put" THEN v ELSE 0],
                     IF kind = "date" THEN [r \in Cells(kind) |-> 0] ELSE c, Answers[kind][v])
        After(kind, S) ==
            FoldLeft(LAMBDA c, v : IF v \in S THEN Answer(kind, c, v) ELSE c,
                     [r \in Cells(kind) |-> 0], [v \in 1 .. MaxVersion |-> v])
    IN [kind \in Kinds |-> {After(kind, S) : S \in SUBSET (1 .. MaxVersion)}]

\* What is durable is whole responses, whatever was rejected, broke off or
\* crashed after how many rows of which key: a race day's changes are never
\* half of one answer and half of another.
StoredResponsesWhole ==
    \A e \in Places : e[1] \notin torn =>
        IF e[1] \in Odds
          THEN \E rows \in WholeRows[e[1]] : Have(h.p.store[e]) = Have(rows)
        ELSE h.p.store[e] \in WholeRows[e[1]]

\* An odds row is stored only if its response was read to its end.
StoredOddsRead ==
    \A e \in Places : \A r \in Have(h.p.store[e]) :
        e[1] \in Odds => <<e, r[1]>> \in whole

\* A collector that reports failure has changed nothing, except where a commit
\* went unanswered; "capture" stores batch by batch and stops.
FailedRunStoresNothing ==
    (phase = "idle" /\ result = "failed" /\ ~h.p.lost) => h.p.store = base

\* A collector that reports success has stored every row it accepted, and
\* nothing else.
SuccessIsStored ==
    (phase = "idle" /\ result = "success") => h.p.store = expect

\* "CollectedAt is evidence of first possession": a row, once stored, never
\* gets a later stamp, however often and by whichever command its publication is
\* collected again.
CaptureIsFirst ==
    [][\A e \in Odds \X Keys : \A r \in Cells(e[1]) :
         \A b \in {"p", "s"} :
            LET old == h[b].store[e][r]  new == h'[b].store[e][r]
            IN old # 0 /\ new # 0 => new <= old]_vars

\* The races a command opens are those whose current row says they are run and
\* whose post time lies in the window asked for.
Current(R, row) ==
    row \in R /\ (row.src = "RT" \/ ~\E rt \in R : rt.src = "RT" /\ Full(rt) = Full(row))

Due(R, w, k) ==
    \E row \in R :
        /\ row.key = k /\ Current(R, row) /\ row.kubun = "active"
        /\ row.post \notin {NoPost, BadPost}
        /\ LET post == DayOf[k] * DayMinutes + row.post
           IN /\ w.within # NoLimit => post <= w.now + w.within
              /\ w.past # NoLimit => post >= w.now - w.past

OpensCurrentRaces ==
    [][(phase = "select" /\ phase' = "open" /\ Requested(ask.window)) =>
         {plan'[i][2] : i \in DOMAIN plan'} = {k \in Keys : Due(ask.rows, ask.window, k)}]_vars

-----------------------------------------------------------------------------
\* The invariant of the proofs

\* What the session writes is not durable before a COMMIT: pg8000 needs BEGIN.
InTransaction(b) == b.driver \in {"sqlite", "psycopg"} \/ b.active

\* The collectors that store a run in one transaction.
Single == driver \notin {"none", "capture"}
Busy == phase \in {"open", "gather", "clear", "rows"}

\* A run of that kind writes inside its transaction until it is judged, and its
\* connection sees what was accepted unless a failure was counted.
InsideOneTransaction ==
    Busy /\ Single =>
        /\ h.p.store = base /\ InTransaction(h.p)
        /\ ~failed => h.p.seen = expect /\ ~h.p.failed

\* Once judged, a failed run has nothing left to commit, a successful one either
\* has committed or will in the end of its context.
JudgedFirst ==
    phase = "exit" /\ Single =>
        /\ raised \/ result = "failed" => h.p.lost \/ h.p.store = base
        /\ ~raised /\ result = "failed" => h.p.seen = h.p.store
        /\ ~raised /\ result = "success" =>
             /\ h.p.seen = expect /\ ~h.p.failed
             /\ InTransaction(h.p) \/ h.p.store = h.p.seen

CollectInv ==
    /\ phase # "idle" => driver \in Collectors
    /\ phase = "select" => driver = "capture"
    /\ driver = "capture" => result # "failed"
    /\ Single => ~h.invalid
    /\ Busy \/ phase = "select" => result = "running"
    /\ InsideOneTransaction /\ JudgedFirst
    /\ FailedRunStoresNothing
    /\ "capture" \notin Collectors => SuccessIsStored

\* What a command was asked for is rows and a window.
AsksInv ==
    /\ run \in Nat
    /\ phase = "select" => ask \in [rows : SUBSET RaceRows, window : Bounds]

=============================================================================
