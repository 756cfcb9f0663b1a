--------------------------- MODULE StorageUpgrade ---------------------------
(***************************************************************************)
(* Preparing the storage before a record is written: create_all_tables and *)
(* SchemaManager (src/database/schema.py), the create-tables command, and  *)
(* the importer's standard-name preparation, over one or two databases     *)
(* whose tables an earlier release left behind.  Every step may meet a     *)
(* failing statement, and the process may die between any two.             *)
(***************************************************************************)
EXTENDS Naturals, Sequences, FiniteSets, StorageContract

CONSTANTS
    Order,        \* the tables, in the order of SCHEMAS
    Cases,        \* the situations explored: a set of records, see Init
    MaxCalls      \* bound: commands run one after another

ASSUME StorageAssumption ==
    MaxCalls \in Nat /\ Len(Order) > 0

Tables == {Order[i] : i \in DOMAIN Order}
ASSUME OrderAssumption == Order \in Seq(Tables)

----------------------------------------------------------------------------
\* Which record types are treated how

Kind(h, t) == h.p.store.cat[t].kind

\* Verified by _preflight_existing_strict_storage; the second set may still
\* lack the columns the migration adds.
STRICT_STORAGE == {"SE", "WE", "AV", "HR", "HS", "HC", "HN", "SK", "UM", "H1",
                   "H6", "O1", "TC", "CC", "JC"}
ADDED_LATER == {"SE", "AV", "HS"}
STRICT_RECREATE == {"CK"}

\* Verified again by create_all_tables once the table is there.
StrictAfterCreate == STRICT_STORAGE \ {"H6", "O1"}

NONADDITIVE_STANDARD == {"BT", "JG", "HR", "HS", "HC", "HN", "SK", "TC", "CC",
                         "JC", "AV", "WE", "WC", "WF"}
ORDERED_MASTER == {"RC", "YS"}
LEGACY_NAMES == {"BT", "JG", "AV", "JC", "TC", "SK", "HY", "WF"}

\* What a new table looks like.
Created(t) == [t EXCEPT !.there = TRUE, !.type = t.want, !.flaws = {}]

----------------------------------------------------------------------------
(***************************************************************************)
(* What a database makes of a row written to a table with an upsert: kept, *)
(* refused, or accepted and harmed (another row replaced, one identity     *)
(* stored twice, a value changed).  SQLite enforces no width and keeps     *)
(* numbers as they are; it turns '01' into 1 in a numeric column.          *)
(***************************************************************************)
ValueIn(driver, t) ==
    LET w == t.want  a == t.type  lite == driver = "sqlite" IN
    IF w.kind \in {"text", "varchar", "char"} THEN
        IF a.kind = "text" \/ (lite /\ Bounded(a)) THEN "kept"
        ELSE IF ~Bounded(a) THEN "harmed"
        ELSE IF w.kind = "text" \/ a.n < w.n THEN "refused"
        ELSE IF a.kind = "varchar" \/ (a.n = w.n /\ (t.fixed \/ w.kind = "char")) THEN "kept"
        ELSE "harmed"
    ELSE IF IsIntegral(w) THEN
        IF ~IsIntegral(a) THEN "harmed"
        ELSE IF lite \/ integral_rank[a.kind] >= integral_rank[w.kind] THEN "kept" ELSE "refused"
    ELSE IF w.kind = "numeric" THEN
        IF a.kind # "numeric" \/ (~lite /\ a.s < w.s) THEN "harmed"
        ELSE IF ~lite /\ a.n + w.s < w.n + a.s THEN "refused" ELSE "kept"
    ELSE IF a = w THEN "kept" ELSE "harmed"

RowIn(driver, t) ==
    IF ~t.there \/ Has(t, Addable \cup {"generated", "check"}) THEN "refused"
    ELSE IF driver # "sqlite" /\ Has(t, {"key", "unique", "deferred"}) THEN "refused"
    ELSE IF Has(t, {"key", "unique", "keyType", "nullKey", "old", "orphan"}) THEN "harmed"
    ELSE ValueIn(driver, t)

\* A database: cat[t] its tables, row[t] what was written to t, own: the row
\* its caller wrote before the call.
Put(driver, rows, s) ==
    CASE s.do = "create" ->
           IF rows.cat[s.table].there THEN rows
           ELSE [rows EXCEPT !.cat[s.table] = Created(@)]
      [] s.do = "add" -> [rows EXCEPT !.cat[s.table].flaws = @ \ {s.column}]
      [] s.do = "row" ->
           [rows EXCEPT !.row[s.table] = RowIn(driver, rows.cat[s.table]),
                        !.cat[s.table].rows = TRUE]
      [] s.do = "own" -> [rows EXCEPT !.own = TRUE]
      [] OTHER -> rows

INSTANCE DualDatabase WITH Write <- Put

VARIABLES
    db,       \* the handle of the caller
    job,      \* the command under way
    ready,    \* _jravan_tables_ready of the importer
    verified, \* the tables its writers verified: never invalidated
    calls,    \* bound: commands started
    faults,   \* bound: faults that may still happen
    before    \* auxiliary: durable tables, and the caller's row, at the start

vars == <<db, job, ready, verified, calls, faults, before>>

----------------------------------------------------------------------------
\* Calls on one backend that the other components do not make

\* A read: psycopg opens a transaction for it; a read that fails rolls SQLite
\* back like any statement.
fetch(b) ==
    LET Undo(x) == IF x.active THEN {Ok(x, 0)} ELSE postgresql_rollback(x)
    IN IF ~b.open THEN {Err(b, 0)}
       ELSE IF ~IsServer(b) THEN {Ok(b, 0)} \cup Handling({Err(b, 1)}, sqlite_rollback)
       ELSE IF b.broken \/ b.failed THEN Handling({Err(b, 0)}, Undo)
       ELSE {Ok([b EXCEPT !.dirty = @ \/ b.driver = "psycopg"], 0)}
              \cup Handling({Err([b EXCEPT !.failed = b.active \/ b.driver = "psycopg"], 1),
                             Err(Gone(b), 1)}, Undo)

\* Python's sqlite3 opens no transaction for DDL: outside one it is durable.
ddl(b, s) ==
    IF IsServer(b) \/ b.dirty THEN execute(b, s)
    ELSE {IF o.ok THEN Ok([o.db EXCEPT !.store = o.db.seen, !.dirty = FALSE], o.faults)
          ELSE o : o \in execute(b, s)}

\* A statement the table itself refuses.
upsert(b, t) ==
    LET Undo(x) == IF IsServer(x) /\ x.active THEN {Ok(x, 0)} ELSE rollback(x)
        refused == RowIn(b.driver, b.seen.cat[t]) = "refused"
    IN IF b.open /\ ~b.broken /\ ~b.failed /\ refused
         THEN Handling({Err([b EXCEPT !.failed = IsServer(b)], 0)}, Undo)
         ELSE execute(b, [do |-> "row", table |-> t])

\* table_exists: a catalog that cannot be read is an absent table.
table_exists(b, t, F(_), Absent(_)) ==
    UNION {{[p EXCEPT !.faults = @ + o.faults]
            : p \in IF o.ok /\ o.db.seen.cat[t].there THEN F(o.db) ELSE Absent(o.db)}
           : o \in fetch(b)}

\* A verification of one backend: a read, and SchemaMigrationError.
Check(b, P(_)) ==
    {IF o.ok /\ ~P(o.db.seen.cat) THEN Err(o.db, o.faults) ELSE o : o \in fetch(b)}

\* _migration_targets: the secondary counts only while it is connected.
OnTargets(h, F(_)) ==
    Then(OnPrimary(h, F),
         LAMBDA g : IF g.dual /\ g.s.open THEN OnSecondary(g, F) ELSE {Ok(g, 0)})

CheckTargets(h, P(_)) == OnTargets(h, LAMBDA b : Check(b, P))

\* Mutant: the caller's own transaction is closed as well.
MutantCreatedHere(was, b) == has_pending_transaction(b)

\* A transaction the call itself opened: none was pending at its entry.
CreatedHere(was, b) == ~was /\ has_pending_transaction(b)

\* _snapshot_validation_transactions
Snapshot(h) == [p |-> has_pending_transaction(h.p), s |-> has_pending_transaction(h.s)]

\* _rollback_call_created_validation_transactions: every target is tried; one
\* that cannot roll back is dropped.
CloseCreated(h, snap) ==
    LET Recover(b) == UNION {IF o.ok THEN {o}
                             ELSE {[d EXCEPT !.faults = @ + o.faults] : d \in disconnect(o.db)}
                             : o \in rollback(b)}
        Close(was, b) == IF CreatedHere(was, b) THEN Recover(b) ELSE {Ok(b, 0)}
        Second(g, ok) ==
            {[o EXCEPT !.ok = @ /\ ok]
             : o \in IF g.dual /\ g.s.open THEN OnSecondary(g, LAMBDA b : Close(snap.s, b))
                     ELSE {Ok(g, 0)}}
    IN UNION {{[q EXCEPT !.faults = @ + o.faults] : q \in Second(o.db, o.ok)}
              : o \in OnPrimary(h, LAMBDA b : Close(snap.p, b))}

\* F, whose failure closes what it opened and is raised.
Guarded(h, F(_)) == Handling(F(h), LAMBDA g : CloseCreated(g, Snapshot(h)))

----------------------------------------------------------------------------
\* Migration of one table

\* _add_missing_columns: the caller's transaction is made a real one first;
\* one ALTER per column, in any order.
AddColumns(b, t, commits) ==
    LET Begun(x) ==
            IF commits THEN {Ok(x, 0)}
            ELSE IF IsServer(x) THEN begin_transaction(x)
            ELSE IF x.dirty THEN {Ok(x, 0)}
            ELSE execute(x, [do |-> "BEGIN"])
        left(x) == x.seen.cat[t].flaws \cap Addable
        One(x) == IF left(x) = {} THEN {Ok(x, 0)}
                  ELSE UNION {ddl(x, [do |-> "add", table |-> t, column |-> c]) : c \in left(x)}
    IN Then(Then(Then(Then(Begun(b), One), One), One),
            LAMBDA x : IF commits THEN commit(x) ELSE {Ok(x, 0)})

\* A primary key that differs is only warned about.
MigrateOne(b, t, commits) ==
    LET Existing(x) ==
            UNION {IF ~o.ok THEN {o}
                   ELSE LET tab == o.db.seen.cat[t] IN
                        {[p EXCEPT !.faults = @ + o.faults]
                         : p \in IF Has(tab, {"capture"}) THEN {Err(o.db, 0)}
                                 ELSE IF Has(tab, Addable) /\ ~Has(tab, {"key"})
                                   THEN AddColumns(o.db, t, commits)
                                 ELSE {Ok(o.db, 0)}}
                   : o \in fetch(x)}
    IN table_exists(b, t, Existing, LAMBDA x : {Ok(x, 0)})

migrate_table_if_needed(h, t, commits) ==
    OnTargets(h, LAMBDA b : MigrateOne(b, t, commits))

\* CREATE TABLE IF NOT EXISTS on both databases, then the verification of
\* what is there.
CreateTable(h, t, After(_)) ==
    Then(Mirrored(h, LAMBDA b : ddl(b, [do |-> "create", table |-> t])),
         LAMBDA g : CheckTargets(g, LAMBDA cat :
             verify_table_schema(cat[t], FALSE, FALSE) /\ After(cat[t])))

----------------------------------------------------------------------------
\* The preflights

\* _preflight_existing_strict_storage
NativePreflight(h) ==
    Guarded(h, LAMBDA g : CheckTargets(g, LAMBDA cat :
        \A t \in Tables : cat[t].kind \in STRICT_STORAGE /\ cat[t].there =>
            verify_storage(cat[t], cat[t].kind \in ADDED_LATER)))

\* An empty COURSE may lack one column; its distance is an integer.
CourseStorage(t) == (Has(t, Addable) => ~t.rows) /\ ~Has(t, {"keyType"})

\* Mutant: columns may be missing from a table nothing will be added to.
MutantStandardContract(t) ==
    /\ t.kind = "CS" => CourseStorage(t)
    /\ verify_table_schema(t, TRUE, t.kind \in ORDERED_MASTER)
    /\ t.kind \in {"SE", "WE", "AV", "HC", "HN", "SK", "TC", "CC", "JC", "WF"} =>
         verify_storage(t, t.kind = "SE")
    /\ t.kind \in {"UM", "CS"} => ReplacementKey(t)

\* The body of _preflight_standard_schema_migrations.
StandardContract(t) ==
    /\ t.kind = "CS" => CourseStorage(t)
    /\ verify_table_schema(t, t.kind \notin NONADDITIVE_STANDARD, t.kind \in ORDERED_MASTER)
    /\ t.kind \in {"SE", "WE", "AV", "HR", "HS", "HC", "HN", "SK", "TC", "CC", "JC", "WF"} =>
         verify_storage(t, t.kind = "SE")
    /\ t.kind \in {"UM", "CS"} => ReplacementKey(t)

\* A table that exists only under its former name is refused.
LegacyOnly(t) == t.kind \in LEGACY_NAMES /\ ~t.there /\ Has(t, {"alias"})

resolve_standard_table_name(h, t) ==
    LET Known(b) == table_exists(b, t, LAMBDA x : {Ok(x, 0)},
                        LAMBDA x : {IF LegacyOnly(x.seen.cat[t]) THEN Err(x, 0)
                                    ELSE Ok(x, 0)})
    IN IF Kind(h, t) \in {"AV", "TC"} THEN OnTargets(h, Known) ELSE OnPrimary(h, Known)

\* What the importer does to a table its primary has.
IfThere(h, t, F(_)) ==
    UNION {{[q EXCEPT !.faults = @ + o.faults]
            : q \in IF o.ok /\ o.db.p.seen.cat[t].there THEN F(o.db) ELSE {Ok(o.db, 0)}}
           : o \in OnPrimary(h, fetch)}

StandardPreflight(h, t) ==
    LET Verify(g) == CheckTargets(g, LAMBDA cat : StandardContract(cat[t]))
    IN Then(resolve_standard_table_name(h, t), LAMBDA g : IfThere(g, t, Verify))

\* _migrate_existing_jravan_tables for one table: an ordered master is left to
\* its writer.
StandardMigrate(h, t, commits) ==
    LET Migrate(g) == IF Kind(h, t) \in NONADDITIVE_STANDARD THEN {Ok(g, 0)}
                      ELSE migrate_table_if_needed(g, t, commits)
        Verify(g) == IF Kind(h, t) \in ORDERED_MASTER THEN {Ok(g, 0)}
                     ELSE CheckTargets(g, LAMBDA cat : verify_table_schema(cat[t], FALSE, FALSE))
    IN IfThere(h, t, LAMBDA g : Then(Migrate(g), Verify))

----------------------------------------------------------------------------
\* Commands: what is still to do, step by step

Step(do, t) == [do |-> do, table |-> t]
For(do) == [i \in DOMAIN Order |-> Step(do, Order[i])]
Only(do, S) == LET in(s) == s.table \in S IN SelectSeq(For(do), in)
Once(do) == <<Step(do, Order[1])>>

Additive(h) == {t \in Tables : Kind(h, t) \notin STRICT_RECREATE}

\* create_all_tables, then the import of process_date_range.
FetchScript(h) ==
    Once("preflight") \o Only("migrate", Additive(h)) \o For("create")
    \o Once("coupled") \o Once("begin") \o For("row") \o Once("commit")

\* SchemaManager.create_all_tables, as the realtime monitor calls it.
ManagerScript(h) ==
    Once("preflight") \o Only("migrate", Additive(h)) \o For("create")
    \o Once("coupled") \o Once("report")

\* The create-tables command.
CreateTablesScript == For("migrate") \o For("create") \o Once("report")

\* import_records of an importer with standard names.
Preparation ==
    Once("enter") \o For("check") \o Once("close") \o For("upgrade")
    \o Once("close") \o Once("ready")

ImportScript(auto, prepared) ==
    (IF auto THEN <<>> ELSE Once("begin"))
    \o (IF prepared THEN <<>> ELSE Preparation)
    \o For("row") \o (IF auto THEN Once("commit") ELSE Once("return"))

Script(h, cmd, prepared) ==
    CASE cmd = "fetch" -> FetchScript(h)
      [] cmd = "manager" -> ManagerScript(h)
      [] cmd = "create-tables" -> CreateTablesScript
      [] cmd = "import" -> ImportScript(FALSE, prepared)
      [] cmd = "import-auto" -> ImportScript(TRUE, prepared)


\* Errors a command only notes and reports at its end.
Contained(cmd, do) == cmd \in {"manager", "create-tables"} /\ do \in {"create", "coupled"}

Idle == [cmd |-> "none", at |-> "idle", todo |-> <<>>, snap |-> [p |-> FALSE, s |-> FALSE],
         failed |-> FALSE, clean |-> TRUE, unsure |-> FALSE, own |-> FALSE]

----------------------------------------------------------------------------
\* The state machine

Durable(h) == [p |-> h.p.store, s |-> h.s.store]

\* The databases the handle reaches.
Targets(h) == {h.p} \cup (IF h.dual THEN {h.s} ELSE {})
OpenTargets(h) == {b \in Targets(h) : b.open}

\* A case: the handle, what the tables of each database look like, the
\* commands that may run and how many faults may happen.
Situation(c) ==
    LET rows(cat) == [cat |-> cat, row |-> [t \in Tables |-> "none"], own |-> FALSE]
        h == Handle(c.dual, c.p, c.s, rows(c.pcat))
        g == IF c.dual THEN [h EXCEPT !.s = Backend(c.s, rows(c.scat))] ELSE h
    IN [g EXCEPT !.p.open = TRUE, !.s.open = c.dual /\ c.sopen]

ASSUME CasesAreTyped ==
    \A c \in Cases : /\ c.dual \in BOOLEAN /\ c.p \in Drivers /\ c.s \in Drivers
                     /\ c.sopen \in BOOLEAN
                     /\ c.pcat \in [Tables -> TableStates] /\ c.scat \in [Tables -> TableStates]

Init ==
    \E c \in Cases :
        /\ db = Situation(c)
        /\ job = [Idle EXCEPT !.cmd = c.cmd]
        /\ ready = FALSE /\ verified = {} /\ calls = 0 /\ faults = c.faults
        /\ before = Durable(Situation(c))

\* The outcome of a step; what a failure leaves undone is for Fail.
Take(o) ==
    /\ o.faults <= faults
    /\ faults' = faults - o.faults
    /\ db' = o.db

Doing(do) == job.at = "run" /\ job.todo # <<>> /\ Head(job.todo).do = do
This == Head(job.todo).table

\* Go on with the next step, or with the command's own error handling.
Advance(o) ==
    LET noted == ~o.ok /\ Contained(job.cmd, Head(job.todo).do)
    IN job' = [job EXCEPT !.todo = IF o.ok \/ noted THEN Tail(@) ELSE @,
                          !.at = IF o.ok \/ noted THEN @ ELSE "raising",
                          !.failed = @ \/ noted,
                          !.clean = @ /\ o.faults = 0,
                          !.unsure = @ \/ (o.ok /\ o.faults > 0)]

Do(S) == \E o \in S : Take(o) /\ Advance(o)
Same == UNCHANGED <<calls, before>>

\* The caller of an importer writes a row of its own first, once.
CallerWrites ==
    /\ job.at = "idle" /\ job.cmd = "import" /\ is_connected(db)
    /\ \A b \in Targets(db) : ~b.seen.own
    /\ calls < MaxCalls
    /\ \E o \in Then(Begin(db), LAMBDA g : Execute(g, [do |-> "own"])) :
           /\ Take(o)
           /\ job' = IF o.ok THEN [job EXCEPT !.own = TRUE] ELSE [job EXCEPT !.at = "raised"]
    /\ UNCHANGED <<ready, verified>> /\ Same

Start ==
    /\ job.at = "idle" /\ is_connected(db) /\ calls < MaxCalls
    /\ calls' = calls + 1
    /\ job' = [job EXCEPT !.at = "run", !.todo = Script(db, job.cmd, ready),
                          !.failed = FALSE, !.clean = ~db.p.broken /\ ~db.s.broken]
    /\ before' = Durable(db)
    /\ UNCHANGED <<db, ready, verified, faults>>

Preflight == Doing("preflight") /\ Do(NativePreflight(db)) /\ Same /\ UNCHANGED <<ready, verified>>

Migrate ==
    /\ Doing("migrate")
    /\ Do(migrate_table_if_needed(db, This, TRUE))
    /\ Same /\ UNCHANGED <<ready, verified>>

Create ==
    /\ Doing("create")
    /\ LET strict == CASE job.cmd = "create-tables" -> {}
                       [] job.cmd = "manager" -> STRICT_STORAGE
                       [] OTHER -> StrictAfterCreate
       IN Do(CreateTable(db, This, LAMBDA t : t.kind \in strict => verify_storage(t, FALSE)))
    /\ Same /\ UNCHANGED <<ready, verified>>

\* verify_ck_coupled_tables
Coupled ==
    /\ Doing("coupled")
    /\ Do(CheckTargets(db, LAMBDA cat :
              \A t \in Tables : cat[t].kind \in STRICT_RECREATE => verify_storage(cat[t], FALSE)))
    /\ Same /\ UNCHANGED <<ready, verified>>

\* A command that noted errors raises at its end.
Report ==
    /\ Doing("report")
    /\ job' = IF job.failed THEN [job EXCEPT !.at = "raising"]
              ELSE [job EXCEPT !.todo = <<>>, !.at = "done"]
    /\ UNCHANGED <<db, ready, verified, faults>> /\ Same

BeginImport == Doing("begin") /\ Do(Begin(db)) /\ Same /\ UNCHANGED <<ready, verified>>

Enter ==
    /\ Doing("enter")
    /\ job' = [job EXCEPT !.snap = Snapshot(db), !.todo = Tail(@)]
    /\ UNCHANGED <<db, ready, verified, faults>> /\ Same

\* A step of the preparation; a failure closes what the preparation opened.
Prepared(S) == Handling(S, LAMBDA g : CloseCreated(g, job.snap))

CheckStandard ==
    /\ Doing("check")
    /\ Do(Prepared(StandardPreflight(db, This)))
    /\ Same /\ UNCHANGED <<ready, verified>>

UpgradeStandard ==
    /\ Doing("upgrade")
    /\ Do(Prepared(StandardMigrate(db, This, job.cmd = "import-auto")))
    /\ Same /\ UNCHANGED <<ready, verified>>

Close == Doing("close") /\ Do(CloseCreated(db, job.snap)) /\ Same /\ UNCHANGED <<ready, verified>>

\* Mutant: prepared whether or not the upgrade is committed.
MutantReadyNow == TRUE

\* An upgrade inside the caller's transaction may still be rolled back.
ReadyNow == job.cmd = "import-auto"

Ready ==
    /\ Doing("ready")
    /\ ready' = (ready \/ ReadyNow)
    /\ job' = [job EXCEPT !.todo = Tail(@)]
    /\ UNCHANGED <<db, verified, faults>> /\ Same

\* The first record of a type: its table is verified, then the row is written.
WriteRow ==
    /\ Doing("row")
    /\ LET Verify(g) == IF This \in verified THEN {Ok(g, 0)}
                        ELSE CheckTargets(g, LAMBDA cat : verify_storage(cat[This], FALSE))
       IN \E o \in Then(Verify(db), LAMBDA g : Mirrored(g, LAMBDA b : upsert(b, This))) :
              /\ Take(o) /\ Advance(o)
              /\ verified' = IF o.ok THEN verified \cup {This} ELSE verified
    /\ Same /\ UNCHANGED ready

CommitImport == Doing("commit") /\ Do(Commit(db)) /\ Same /\ UNCHANGED <<ready, verified>>

\* import_records returns to a caller that still owns the transaction.
Return ==
    /\ Doing("return")
    /\ job' = [job EXCEPT !.at = "returned", !.todo = <<>>]
    /\ UNCHANGED <<db, ready, verified, faults>> /\ Same

Finished ==
    /\ job.at = "run" /\ job.todo = <<>>
    /\ job' = [job EXCEPT !.at = "done"]
    /\ UNCHANGED <<db, ready, verified, faults>> /\ Same

\* import_records rolls the caller's transaction back; process_date_range its own.
Fail ==
    /\ job.at = "raising"
    /\ \E o \in (IF job.cmd = "import" THEN RollbackFailedImport(db)
                 ELSE IF job.cmd = "fetch" THEN Rollback(db) ELSE {Ok(db, 0)}) : Take(o)
    /\ job' = [job EXCEPT !.at = "raised"]
    /\ UNCHANGED <<ready, verified>> /\ Same

CallerEnds ==
    /\ job.at = "returned"
    /\ \E o \in Commit(db) \cup Rollback(db) :
           /\ Take(o)
           /\ job' = [job EXCEPT !.at = IF o.ok THEN "idle" ELSE "raised", !.own = FALSE]
    /\ UNCHANGED <<ready, verified>> /\ Same

\* The end of `with database`, and of the process.
Ended(h) == [h EXCEPT !.p = Closed(h.p), !.s = Closed(h.s), !.active = FALSE, !.invalid = FALSE]

Leave ==
    /\ job.at \in {"raised", "done"}
    /\ \E o \in ContextExit(db, job.at = "raised") :
           /\ o.faults <= faults /\ faults' = faults - o.faults
           /\ db' = Ended(o.db)
    /\ job' = [Idle EXCEPT !.cmd = job.cmd]
    /\ ready' = FALSE /\ verified' = {}
    /\ Same

Crash ==
    /\ job.at # "idle" /\ faults > 0
    /\ faults' = faults - 1
    /\ db' = Ended(db)
    /\ job' = [Idle EXCEPT !.cmd = job.cmd]
    /\ ready' = FALSE /\ verified' = {}
    /\ Same

\* The next process connects; dual databases keep going without a secondary.
Reconnect ==
    /\ job.at = "idle" /\ ~is_connected(db) /\ calls < MaxCalls
    /\ \E o \in Connect(db) : o.ok /\ Take(o)
    /\ UNCHANGED <<job, ready, verified>> /\ Same

Next ==
    \/ CallerWrites \/ Start \/ Preflight \/ Migrate \/ Create \/ Coupled \/ Report
    \/ BeginImport \/ Enter \/ CheckStandard \/ UpgradeStandard \/ Close \/ Ready
    \/ WriteRow \/ CommitImport \/ Return \/ Finished \/ Fail \/ CallerEnds
    \/ Leave \/ Crash \/ Reconnect

Spec == Init /\ [][Next]_vars

----------------------------------------------------------------------------
\* Properties

TypeOK ==
    /\ job.at \in {"idle", "run", "raising", "raised", "returned", "done"}
    /\ ready \in BOOLEAN /\ verified \subseteq Tables
    /\ calls \in 0..MaxCalls /\ faults \in Nat

\* The tables that may harm a row: of a record type that is not strict, and of
\* the other verified types none under another primary key, and none a further
\* unique index spoils unless its type is not checked for one.
MayHarm(tab) ==
    /\ tab.kind \notin STRICT_STORAGE \cup STRICT_RECREATE
    /\ tab.kind # "RA" => ~Has(tab, {"key"})
    /\ tab.kind \notin {"RA", "BT", "HY", "YS"} => ~Has(tab, {"unique"})

\* No row is written, on either database, to a table of a strict record type
\* that would change a value, split an identity or replace another row, nor to
\* another verified one under a key its verification refuses
\* (verify_*_storage_schema, run by create_all_tables or by the writer).
WrittenIsSound ==
    \A b \in Targets(db), t \in Tables :
        b.seen.row[t] = "harmed" => MayHarm(b.seen.cat[t])

\* "Reject every known incompatibility before the first additive ALTER": when
\* the standard preparation refuses the storage, or create_all_tables refuses a
\* table whose contract is strict, no table has been altered yet.
RefusedChangesNothing ==
    /\ job.at = "raising" /\ job.clean
    /\ job.todo # <<>> /\ Head(job.todo).do \in {"preflight", "check", "upgrade"}
    => \A d \in {"p", "s"} : Durable(db)[d].cat = before[d].cat

\* What a command does not repair: anything but columns it may add, and the
\* tables a standard import expects to be there.
Standard(cmd) == cmd \in {"import", "import-auto"}
Extends(cmd, tab) ==
    IF Standard(cmd) THEN tab.kind \notin NONADDITIVE_STANDARD /\ (tab.kind = "CS" => ~tab.rows)
    ELSE \/ cmd = "create-tables"
         \/ tab.kind = "HS" /\ "missing" \notin tab.flaws /\ ~tab.rows
         \/ tab.kind # "HS" /\ (tab.kind \in ADDED_LATER
                                \/ tab.kind \notin STRICT_STORAGE \cup STRICT_RECREATE)
Unrepaired(cmd, tab) ==
    \/ tab.flaws \ Addable # {} \/ tab.type # tab.want
    \/ tab.flaws # {} /\ ~Extends(cmd, tab)
    \/ Standard(cmd) /\ ~tab.there

\* An upgrade that was interrupted between two columns is finished by the next
\* run: without faults a command raises only over something it does not repair.
ResumesAfterInterruption ==
    job.at = "raising" /\ job.clean =>
        \/ db.dual /\ ~db.s.open
        \/ \E d \in {"p", "s"}, t \in Tables : Unrepaired(job.cmd, before[d].cat[t])

\* The standard preparation neither commits nor loses what its caller wrote
\* before, leaves no transaction behind that it opened itself, and an import
\* that raises leaves nothing of the caller's transaction (unless a catalog
\* that could not be read was taken for an absent table).
CallerKeepsTransaction ==
    /\ job.own /\ job.at \in {"run", "returned"} /\ ~job.unsure =>
         \A b \in OpenTargets(db) : b.seen.own /\ ~b.store.own
    /\ job.cmd = "import" /\ job.at = "raised" /\ job.todo # <<>> /\ job.own =>
         \A b \in Targets(db) : ~b.store.own
    /\ job.cmd = "import-auto" /\ job.at = "run" /\ job.todo # <<>> /\ Head(job.todo).do = "ready"
       => ~Pending(db)

\* An importer that remembers that its tables are ready has them, durably, on
\* every database it is connected to (what its primary does not have it does
\* not look for).
ReadyFlagDurable ==
    ready /\ ~job.unsure =>
        \A b \in OpenTargets(db), t \in Tables :
            LET later == Kind(db, t) \in ORDERED_MASTER
            IN db.p.store.cat[t].there => verify_table_schema(b.store.cat[t], later, later)

----------------------------------------------------------------------------
\* The invariant of the proofs

\* What no upgrade changes of a table that is sound: whatever columns it still
\* gets, it harms no row, or is one of those that may.
Harmless(driver, tab) ==
    ~Has(tab, {"key", "unique", "keyType", "nullKey", "old", "orphan"})
    /\ ValueIn(driver, tab) # "harmed"
Sound(driver, tab) == tab.there => MayHarm(tab) \/ Harmless(driver, tab)

RowsSafe(rows) == \A t \in Tables : rows.row[t] = "harmed" => MayHarm(rows.cat[t])

\* new comes from old: tables were created, and columns added to others.
Alike(a, b) ==
    /\ b.there /\ b.kind = a.kind /\ b.want = a.want /\ b.type = a.type /\ b.fixed = a.fixed
    /\ b.flaws \cup Addable = a.flaws \cup Addable
Grown(old, new) == \A t \in Tables : old.cat[t].there => Alike(old.cat[t], new.cat[t])

\* What a caller wrote is durable, or in a transaction that only a commit ends.
OwnSound(b) ==
    /\ b.store.own => b.seen.own
    /\ b.seen.own /\ ~b.store.own =>
         (b.driver = "sqlite" => b.dirty) /\ (b.driver = "pg8000" => b.active)

\* A session under which the tables V were verified.  What a rollback brings
\* back is what its tables grew from, so they stay sound.
SafeSession(b, V) ==
    /\ RowsSafe(b.store) /\ RowsSafe(b.seen) /\ Grown(b.store, b.seen)
    /\ b.open => \A t \in V \cap Tables : Sound(b.driver, b.seen.cat[t])
    /\ OwnSound(b)

StorageInv ==
    /\ SafeSession(db.p, verified) /\ SafeSession(db.s, verified)
    /\ job.at = "idle" => verified = {} \/ db.p.open

\* The caller's transaction, with its row, on every database.
OwnHeld(b) == b.open /\ b.active /\ b.seen.own /\ ~b.store.own
Holding(h) == OwnHeld(h.p) /\ (h.dual => h.active /\ OwnHeld(h.s))

\* The caller's row stays in its transaction while the import runs, and is
\* never durable before it ends; one that ended leaves none.
OwnInv ==
    /\ job.own => job.cmd = "import"
    /\ job.own /\ job.at # "done" => \A b \in Targets(db) : ~b.store.own
    /\ job.own /\ (job.at = "idle" \/ (job.at \in {"run", "returned"} /\ ~job.unsure)) => Holding(db)
    /\ job.at = "idle" /\ ~job.own => ~is_transaction_active(db)
    /\ job.cmd = "import-auto" => ~db.active /\ job.at # "returned"
    /\ job.cmd = "import-auto" /\ job.at = "idle" =>
         ~has_pending_transaction(db.p) /\ ~has_pending_transaction(db.s)

\* What the preparation closes is what was pending when it was entered.
Snapped ==
    IF job.cmd = "import" THEN job.snap.p /\ (db.dual => job.snap.s)
    ELSE ~job.snap.p /\ ~job.snap.s

\* The steps an import has left.
StepsOf(cmd) == {"enter", "check", "close", "upgrade", "ready", "row"}
                \cup IF cmd = "import" THEN {"begin", "return"} ELSE {"commit"}

ScriptInv ==
    Standard(job.cmd) /\ job.at = "run" =>
        LET todo == job.todo  auto == job.cmd = "import-auto" IN
        /\ todo \in Seq([do : StepsOf(job.cmd), table : Tables])
        /\ auto \/ (job.own /\ ~job.unsure) =>
             \A i \in DOMAIN todo : todo[i].do \in {"check", "close", "upgrade"} =>
                 Snapped \/ \E j \in 1..i : todo[j].do = "enter"
        /\ \A i \in DOMAIN todo : todo[i].do = "ready" => i = 1 \/ todo[i - 1].do = "close"
        /\ auto => /\ \A i \in DOMAIN todo : todo[i].do = "enter" =>
                        i = 1 /\ ~has_pending_transaction(db.p) /\ ~has_pending_transaction(db.s)
                   /\ todo # <<>> /\ Head(todo).do = "ready" => ~Pending(db)

KeepsInv == OwnInv /\ ScriptInv

\* What a migration makes of a table, rows aside; the other way round as well,
\* what a row makes of it.
Finer(a, b) ==
    /\ b.there = a.there /\ b.kind = a.kind /\ b.want = a.want /\ b.type = a.type
    /\ b.flaws \subseteq a.flaws

\* No column of a session waits for its commit.
Even(b) == \A t \in Tables : /\ Finer(b.seen.cat[t], b.store.cat[t])
                             /\ Finer(b.store.cat[t], b.seen.cat[t])

\* A session that reads its catalog, unless something happens to it.
Well(b) == b.open /\ ~b.broken /\ ~b.failed

\* Table t is what its writer expects wherever the primary has it.
Fit(h, t) ==
    LET later == Kind(h, t) \in ORDERED_MASTER
    IN h.p.store.cat[t].there =>
           \A b \in OpenTargets(h) : verify_table_schema(b.store.cat[t], later, later)

\* The step of the preparation that decides on table t.
Decides(h, t) == Step(IF Kind(h, t) \in ORDERED_MASTER THEN "check" ELSE "upgrade", t)

Left(todo) == {todo[i] : i \in DOMAIN todo}

\* The preparation is followed by the rows and the commit.
InOrderOf(todo) ==
    \E k \in DOMAIN todo :
        /\ todo[k].do = "ready"
        /\ \A i \in DOMAIN todo :
             /\ i < k => todo[i].do \in {"enter", "check", "close", "upgrade"}
             /\ i > k => todo[i].do \in {"row", "commit"}
WritesOnly(todo) == \A i \in DOMAIN todo : todo[i].do \in {"row", "commit"}

\* An import that commits for itself alters nothing that its next step does not
\* find committed; every table is fit once the step that decides on it is done.
ReadyInv ==
    /\ ready => job.cmd = "import-auto" /\ job.at # "idle"
    /\ job.cmd = "import-auto" =>
         /\ job.at = "run" => IF ready THEN WritesOnly(job.todo) ELSE InOrderOf(job.todo)
         /\ job.at = "idle" => Even(db.p) /\ Even(db.s) /\ ~db.p.broken /\ ~db.p.failed
         /\ ~job.unsure /\ (ready \/ job.at = "run") => Even(db.p) /\ Even(db.s)
         /\ ~job.unsure /\ ready => \A t \in Tables : Fit(db, t)
         /\ ~job.unsure /\ ~ready /\ job.at = "run" =>
              /\ Well(db.p)
              /\ \A t \in Tables : Decides(db, t) \notin Left(job.todo) => Fit(db, t)

============================================================================
