---------------------------- MODULE CoupledWrite ----------------------------
(***************************************************************************)
(* The importer's writers (src/importer/importer.py, importer_optimized.py)*)
(* on a single or dual database handle.  A record of a coupled type is a   *)
(* header row and the rows of one or two child tables; its writer issues   *)
(* one statement after another, in a transaction of its own (auto_commit)  *)
(* or of its caller, and recovers by rollback, invalidation, retries       *)
(* record by record or the generic row-by-row fallback.                    *)
(*                                                                         *)
(* One table is imported per behaviour: kind names its writer.  Statements *)
(* may be refused, connections lost, commits unanswered, rollbacks fail.   *)
(***************************************************************************)
EXTENDS Integers, Sequences, SequencesExt

CONSTANTS
    Keys,
    Kinds,          \* writers to check, a subset of AllKinds
    Stream,         \* Stream[k]: the records of writer k, in provider order
    FullRows,       \* child rows a type with a fixed layout must carry
    Handles,        \* <<dual, primary driver, secondary driver>>
    BatchSize,
    MaxCalls,       \* bound: import calls on the connection
    MaxFaults       \* bound: injected failures

AllKinds == {"rows", "tk", "wf", "wfnative", "ch", "ks", "ck", "ordered",
             "odds", "vote", "snapshot"}
Split == {"odds", "vote"}

\* Row numbers of a malformed record: no key, a bet type nobody knows.
NoKey == 0
NoBet == 9

ASSUME KindsAreKnown == Kinds \subseteq AllKinds

\* The records that were parsed; "ver" tells one text of a record from another.
ASSUME StreamIsParsed ==
    \A k \in Kinds :
        Stream[k] \in Seq([key : Keys, ver : Nat, kubun : STRING, count : Nat, rows : Seq(Nat)])

-----------------------------------------------------------------------------
\* Rows: for every key a header [ver, sealed] and the child rows <<num, ver>>.
Tabs == {"a", "b"}
NoHead == [ver |-> 0, sealed |-> TRUE]
NoRows == [k \in Keys |-> [head |-> NoHead, kids |-> [t \in Tabs |-> {}]]]

Version(r) == {<<r.rows[i], r.ver>> : i \in DOMAIN r.rows}

\* "parent" is the row-by-row fallback's insert, which does not know
\* CKStorageVersion: SQLite replaces the row, PostgreSQL keeps the column.
Apply(driver, c, s) ==
    CASE s.do = "many"   -> [k \in Keys |->
                                IF k \in DOMAIN s.new
                                  THEN [c[k] EXCEPT !.head = [ver |-> s.new[k], sealed |-> TRUE]]
                                  ELSE c[k]]
      [] s.do = "parent" -> [c EXCEPT ![s.key].head =
                                [ver |-> s.ver,
                                 sealed |-> driver # "sqlite" /\ @.ver # 0 /\ @.sealed]]
      [] s.do = "head"   -> [c EXCEPT ![s.key].head = [ver |-> s.ver, sealed |-> TRUE]]
      [] s.do = "open"   -> [c EXCEPT ![s.key].head = [ver |-> s.ver, sealed |-> FALSE]]
      [] s.do = "seal"   -> [c EXCEPT ![s.key].head.sealed = TRUE]
      [] s.do = "unhead" -> [c EXCEPT ![s.key].head = NoHead]
      [] s.do = "kids"   -> [c EXCEPT ![s.key].kids[s.tab] =
                                {x \in @ : \A y \in s.new : x[1] # y[1]} \cup s.new]
      [] s.do = "unkids" -> [c EXCEPT ![s.key].kids[s.tab] = {}]

INSTANCE DualDatabase WITH Write <- Apply

ASSUME HandlesAreKnown == Handles \subseteq BOOLEAN \X Drivers \X Drivers

Stmt(do, r, tab) ==
    [do |-> do, key |-> r.key, ver |-> r.ver, tab |-> tab,
     new |-> IF do = "kids" THEN Version(r) ELSE {}]
PutHead(r) == Stmt("head", r, "a")
DelHead(r) == Stmt("unhead", r, "a")
PutKids(r, t) == Stmt("kids", r, t)
DelKids(r, t) == Stmt("unkids", r, t)
Erases(r) == r.kubun = "0"

\* Mutant: the horses of the previous version are not deleted.
MutantTkScript(r) ==
    IF Erases(r) THEN <<DelKids(r, "a"), DelHead(r)>>
    ELSE <<PutHead(r), PutKids(r, "a")>>

\* The statements of one record, writer by writer.
TkScript(r) ==
    <<DelKids(r, "a")>> \o
    (IF Erases(r) THEN <<DelHead(r)>> ELSE <<PutHead(r), PutKids(r, "a")>>)

WfScript(r) ==
    IF Erases(r) THEN <<DelKids(r, "a"), DelHead(r)>>
    ELSE <<PutHead(r), DelKids(r, "a"), PutKids(r, "a")>>

KsScript(r) ==
    IF Erases(r) THEN <<DelKids(r, "a"), DelHead(r)>>
    ELSE <<PutHead(r), PutKids(r, "a")>>

\* CH has no erase: its DataKubun is stored like the rest of the record.
ChScript(r) == <<PutHead(r), PutKids(r, "a")>>

\* The parent is not complete until CKStorageVersion is set again.
CkScript(r) ==
    IF Erases(r) THEN <<DelKids(r, "a"), DelKids(r, "b"), DelHead(r)>>
    ELSE <<Stmt("open", r, "a"), DelKids(r, "a"), DelKids(r, "b"),
           PutKids(r, "a"), PutKids(r, "b"), Stmt("seal", r, "a")>>

\* Split standard odds and votes: all children first, then the header.
SplitScript(r) ==
    <<DelKids(r, "a"), DelKids(r, "b")>> \o
    (IF Erases(r) THEN <<DelHead(r)>>
     ELSE <<PutHead(r), PutKids(r, "a"), PutKids(r, "b")>>)

\* Native DM/TM and O1-O6 snapshots have no header.
SnapshotScript(r) ==
    <<DelKids(r, "a")>> \o (IF Erases(r) THEN <<>> ELSE <<PutKids(r, "a")>>)

\* One insert of many rows: the last row of a key wins.
ManyRows(R) ==
    [do |-> "many", new |->
        [k \in {R[i].key : i \in DOMAIN R} |->
            R[CHOOSE i \in DOMAIN R : R[i].key = k
                /\ \A j \in DOMAIN R : R[j].key = k => j <= i].ver]]

RowScript(r) == IF Erases(r) THEN <<DelHead(r)>> ELSE <<PutHead(r)>>

Script(k, r) ==
    CASE k = "tk" -> TkScript(r)
      [] k = "wf" -> WfScript(r)
      [] k = "ks" -> KsScript(r)
      [] k = "ch" -> ChScript(r)
      [] k = "ck" -> CkScript(r)
      [] k \in Split -> SplitScript(r)
      [] k = "snapshot" -> SnapshotScript(r)
      [] OTHER -> RowScript(r)

\* What a writer accepts before its first statement.
PreparedTk(r) ==
    /\ r.kubun \in {"0", "1", "2"}
    /\ Len(r.rows) = r.count
    /\ \A i \in DOMAIN r.rows : r.rows[i] = i
    /\ Erases(r) => r.count = 0

PreparedWf(r) == ~Erases(r) => r.rows = FullRows

PreparedCh(r) == r.rows = FullRows

PreparedKs(r) == Erases(r) \/ r.rows = FullRows

PreparedCk(r) ==
    \/ Erases(r) /\ r.rows = <<>>
    \/ r.kubun \in {"1", "2"} /\ r.rows = FullRows

PreparedOdds(r) == Erases(r) \/ NoKey \notin Range(r.rows)

PreparedVote(r) == Erases(r) \/ {NoKey, NoBet} \cap Range(r.rows) = {}

PreparedSnapshot(r) ==
    Erases(r) \/ (r.rows # <<>> /\ \A i, j \in DOMAIN r.rows :
                                     r.rows[i] = r.rows[j] => i = j)

PreparedOrdered(r) == r.kubun \in {"0", "1", "2"}

Prepared(k, r) ==
    CASE k = "tk" -> PreparedTk(r)
      [] k = "wf" -> PreparedWf(r)
      [] k = "ch" -> PreparedCh(r)
      [] k = "ks" -> PreparedKs(r)
      [] k = "ck" -> PreparedCk(r)
      [] k = "odds" -> PreparedOdds(r)
      [] k = "vote" -> PreparedVote(r)
      [] k = "snapshot" -> PreparedSnapshot(r)
      [] k = "ordered" -> PreparedOrdered(r)
      [] OTHER -> TRUE

-----------------------------------------------------------------------------
VARIABLES
    h,          \* the database handle
    importer,   \* "plain": DataImporter, "optimized": OptimizedDataImporter
    kind, auto,
    single,     \* import_single_record instead of import_records
    phase,
    raised,     \* the last call ended by an exception
    pos,        \* records taken from the stream
    batch,      \* positions of the batch being written
    todo,       \* statements still to execute, record by record
    at,         \* element of batch being retried
    generic,    \* the retries are the row-by-row fallback
    imported, failed,   \* positions counted
    check,      \* _single_record_stats_checkpoint: <<generation, imported>>
    base,       \* auxiliary: primary rows when the call began
    stuck,      \* auxiliary: a session could be neither rolled back nor dropped
    carried,    \* auxiliary: a call began with something pending
    calls, faults

what == <<importer, kind, auto, single>>
work == <<batch, todo, at, generic>>
stats == <<imported, failed, check>>
aux == <<base, stuck, carried, calls>>
vars == <<h, what, phase, raised, pos, work, stats, aux, faults>>

Records == Stream[kind]
Rec(i) == Records[i]

\* An erase that is applied at once, outside any writer.
Direct(i) == Erases(Rec(i)) /\ kind \in {"rows", "wfnative", "snapshot"}
DirectBatch == batch # <<>> /\ Direct(batch[1])

\* Writers that begin their own transaction under auto_commit.
Coupled == kind # "rows" /\ ~DirectBatch
\* Writers with a loop over their records once the batch has failed.
Retrying == kind \in {"ch", "ks", "ck"}

\* Mutant: a writer that does not own the commit retries its records too.
MutantMayRetry == Retrying

MayRetry == Retrying /\ auto

Spent(o) ==
    /\ faults + o.faults <= MaxFaults
    /\ faults' = faults + o.faults

Init ==
    /\ \E c \in Handles : \E o \in Connect(Handle(c[1], c[2], c[3], NoRows)) :
         o.ok /\ h = o.db /\ faults = o.faults
    /\ importer \in {"plain", "optimized"}
    /\ kind \in Kinds /\ auto \in BOOLEAN
    /\ single \in BOOLEAN /\ (single => importer = "plain")
    /\ phase = "idle" /\ raised = FALSE
    /\ pos = 0 /\ batch = <<>> /\ todo = <<>> /\ at = 0 /\ generic = FALSE
    /\ imported = {} /\ failed = {} /\ check = <<0, {}>>
    /\ base = NoRows /\ stuck = FALSE /\ carried = FALSE /\ calls = 0

-----------------------------------------------------------------------------
\* How failed work is undone.

\* rollback_or_invalidate of the coupled writers: the rollback error replaces
\* the first one.
RollbackOrInvalidate(g) == Handling(Rollback(g), Invalidate)

\* rollback_pending_retry_or_raise
RollbackPendingOrRaise(g) ==
    IF Pending(g) THEN Handling(Rollback(g), Invalidate) ELSE {Ok(g, 0)}

\* A snapshot that was not written is rolled back, then its import rolls back
\* once more; one that could not be committed only the latter.
SnapshotUndo(g) ==
    LET Again(x) == {Ok(o.db, o.faults) : o \in Rollback(x)}
    IN IF todo = <<>> THEN Again(g) ELSE Then(RollbackFailedImport(g), Again)

\* The writer's own handler; "rows" and direct erases have none.
WriterUndo(g) ==
    IF ~Coupled THEN {Ok(g, 0)}
    ELSE IF kind = "snapshot" THEN SnapshotUndo(g)
    ELSE IF kind = "wfnative" THEN RollbackFailedImport(g)
    ELSE RollbackOrInvalidate(g)

\* The undo failed and its session is still there, with whatever it holds.
Stuck(o) == ~o.ok /\ is_connected(o.db)

\* TransactionRecoveryError: nobody handles it.
Unrecovered(o) == Coupled /\ kind \in {"snapshot", "wfnative"} /\ ~o.ok

End(r) == phase' = "over" /\ raised' = r

-----------------------------------------------------------------------------
\* import_records or the first import_single_record: fresh statistics, and the
\* caller's transaction when it owns the commit.
Start ==
    /\ phase \in {"idle", "over"} /\ calls < MaxCalls
    /\ calls' = calls + 1
    /\ \E o \in (IF auto THEN {Ok(h, 0)} ELSE Begin(h)) :
         /\ Spent(o) /\ h' = o.db
         /\ phase' = IF o.ok THEN "loop" ELSE "over"
         /\ raised' = ~o.ok
    /\ base' = h.p.store /\ carried' = (carried \/ Pending(h))
    /\ pos' = 0 /\ batch' = <<>> /\ todo' = <<>> /\ at' = 0 /\ generic' = FALSE
    /\ imported' = {} /\ failed' = {} /\ check' = <<0, {}>>
    /\ UNCHANGED <<what, stuck>>

\* Positions pos+1..n make the next batch: an erase flushes what is buffered
\* and stands alone, so does a split or native snapshot.
Flushes(n) ==
    /\ n \in pos + 1 .. Len(Records) /\ n - pos <= BatchSize
    /\ n > pos + 1 => /\ ~single /\ kind \notin Split \cup {"snapshot"}
                      /\ \A i \in pos + 1 .. n : ~Direct(i)

Batch(n) == [i \in 1 .. n - pos |-> pos + i]

\* All headers, then all result rows.
ChStatements(B) ==
    [i \in 1..Len(B) |-> <<PutHead(Rec(B[i]))>>]
        \o [i \in 1..Len(B) |-> <<PutKids(Rec(B[i]), "a")>>]

Statements(B) ==
    IF kind = "ch" THEN ChStatements(B)
    ELSE IF kind \in {"rows", "wfnative"} /\ ~Direct(B[1])
      THEN <<<<ManyRows([i \in 1..Len(B) |-> Rec(B[i])])>>>>
    ELSE [i \in 1..Len(B) |-> Script(kind, Rec(B[i]))]

\* The next statement, and what remains after it.
Current == Head(Head(todo))
Remaining == IF Len(Head(todo)) = 1 THEN Tail(todo) ELSE <<Tail(Head(todo))>> \o Tail(todo)

\* Every record is validated and converted before the first statement.  A
\* malformed one raises; the split writers have begun by then and roll back; what
\* the caller's transaction holds is rolled back.
RefuseUndo(g) ==
    LET After(S, F(_)) == UNION {{[p EXCEPT !.faults = @ + o.faults] : p \in F(o.db)} : o \in S}
        Begun == IF auto THEN Begin(g) ELSE {Ok(g, 0)}
        Undone == IF kind \notin Split THEN {Ok(g, 0)} ELSE After(Begun, RollbackOrInvalidate)
    IN IF auto THEN Undone ELSE After(Undone, RollbackFailedImport)

Refuse(n) ==
    /\ \E i \in pos + 1 .. n : ~Prepared(kind, Rec(i))
    /\ \E o \in RefuseUndo(h) : Spent(o) /\ h' = o.db /\ stuck' = (stuck \/ Stuck(o))
    /\ imported' = IF auto THEN imported ELSE IF single THEN check[2] ELSE {}
    /\ End(TRUE)
    /\ UNCHANGED <<what, pos, work, failed, check, base, carried, calls>>

\* _begin_single_record_transaction: begin or join, and remember the counters
\* of a transaction seen for the first time.
JoinSingle(g) ==
    IF check[1] = get_transaction_generation(g) THEN check
    ELSE <<get_transaction_generation(g), imported>>

Take(n) ==
    /\ \A i \in pos + 1 .. n : Prepared(kind, Rec(i))
    /\ \E o \in (IF auto /\ kind # "rows" /\ ~Direct(n) THEN Begin(h) ELSE {Ok(h, 0)}) :
         /\ Spent(o) /\ h' = o.db
         /\ phase' = IF o.ok THEN "write" ELSE "undo"
    /\ todo' = Statements(Batch(n))
    /\ check' = IF single /\ ~auto THEN JoinSingle(h) ELSE check
    /\ pos' = n /\ batch' = Batch(n)
    /\ UNCHANGED <<what, raised, at, generic, imported, failed, aux>>

\* A single record whose transaction was rolled back begins another.
BeginSingle ==
    /\ phase = "loop" /\ single /\ ~auto
    /\ ~is_transaction_active(h) /\ pos < Len(Records)
    /\ \E o \in Begin(h) :
         /\ Spent(o) /\ h' = o.db
         /\ IF o.ok THEN UNCHANGED <<phase, raised>> ELSE End(TRUE)
    /\ UNCHANGED <<what, pos, work, stats, aux>>

NextBatch ==
    /\ phase = "loop" /\ (single /\ ~auto => is_transaction_active(h))
    /\ \E n \in pos + 1 .. pos + BatchSize : Flushes(n) /\ (Take(n) \/ Refuse(n))

\* The stream is exhausted.
Return ==
    /\ phase = "loop" /\ pos = Len(Records)
    /\ End(FALSE)
    /\ UNCHANGED <<h, what, pos, work, stats, aux, faults>>

\* One statement of the batch or of the record being retried.  A single row is
\* counted before it is committed.
Step ==
    /\ phase \in {"write", "retry"} /\ todo # <<>>
    /\ \E o \in (IF Current.do \in {"many", "head", "open", "kids"} THEN InsertMany(h, Current)
                 ELSE Execute(h, Current)) :
         /\ Spent(o) /\ h' = o.db
         /\ todo' = IF o.ok THEN Remaining ELSE todo
         /\ phase' = IF o.ok THEN phase
                     ELSE IF phase = "write" THEN "undo" ELSE "unretry"
         /\ imported' = IF o.ok /\ single /\ kind = "rows" /\ ~DirectBatch
                          THEN imported \cup Range(batch) ELSE imported
    /\ UNCHANGED <<what, raised, pos, batch, at, generic, failed, check, aux>>

\* The whole batch was written; it is counted once it is committed.
Finish ==
    /\ phase = "write" /\ todo = <<>>
    /\ \E o \in (IF auto THEN Commit(h) ELSE {Ok(h, 0)}) :
         /\ Spent(o) /\ h' = o.db
         /\ phase' = IF o.ok THEN "loop" ELSE "undo"
         /\ imported' = IF o.ok THEN imported \cup Range(batch) ELSE imported
    /\ UNCHANGED <<what, raised, pos, work, failed, check, aux>>

-----------------------------------------------------------------------------
Continue(B) ==
    /\ at' = 1 /\ batch' = B
    /\ phase' = "each" /\ UNCHANGED raised

\* CH, KS and CK: once the batch is undone, its records are written again one
\* by one, each in a transaction of its own.
UndoAndRetry ==
    /\ phase = "undo" /\ MayRetry
    /\ \E o \in WriterUndo(h) : o.ok /\ Spent(o) /\ h' = o.db
    /\ Continue(batch) /\ generic' = FALSE
    /\ UNCHANGED <<what, pos, todo, stats, aux>>

\* The outcomes after which the writer raises.
WriterRaises == {o \in WriterUndo(h) : ~(o.ok /\ MayRetry)}

\* The row-by-row fallback.  OptimizedDataImporter tries it for generic rows only;
\* DataImporter's list of tables that never enter it does not name CK.
OptimizedFallsBack == kind = "rows" /\ ~DirectBatch
PlainFallsBack == (kind = "rows" /\ ~DirectBatch) \/ kind = "ck"
FallsBack == IF importer = "plain" THEN PlainFallsBack ELSE OptimizedFallsBack

\* import_records under auto_commit: the generic fallback, or the error ends the
\* import.
AutoUndo ==
    /\ phase = "undo" /\ auto /\ ~single
    /\ \E o \in WriterRaises :
         IF FallsBack
           THEN \E p \in RollbackPendingOrRaise(o.db) :
                  /\ Spent([p EXCEPT !.faults = @ + o.faults]) /\ h' = p.db
                  /\ stuck' = (stuck \/ Stuck(o) \/ Stuck(p))
                  /\ IF p.ok THEN Continue(batch) /\ generic' = TRUE
                     ELSE End(TRUE) /\ UNCHANGED <<batch, at, generic>>
         ELSE /\ Spent(o) /\ h' = o.db /\ stuck' = (stuck \/ Stuck(o))
              /\ End(TRUE) /\ UNCHANGED <<batch, at, generic>>
    /\ UNCHANGED <<what, pos, todo, stats, base, carried, calls>>

\* A writer whose caller owns the commit undoes and raises; import_records
\* rolls back once more and forgets its statistics.
OwnedUndo ==
    /\ phase = "undo" /\ ~auto /\ ~single
    /\ \E o \in WriterRaises :
         \E p \in (IF Unrecovered(o) THEN {Err(o.db, 0)} ELSE RollbackFailedImport(o.db)) :
           /\ Spent([p EXCEPT !.faults = @ + o.faults]) /\ h' = p.db
           /\ stuck' = (stuck \/ Stuck(p))
           /\ imported' = IF p.ok THEN {} ELSE imported
           /\ failed' = IF p.ok THEN {} ELSE failed
    /\ End(TRUE)
    /\ UNCHANGED <<what, pos, work, check, base, carried, calls>>

\* import_single_record returns False: in the caller's transaction everything
\* since the checkpoint is rolled back and no longer counted; under auto_commit
\* a record that its writer did not undo stays pending.
SingleUndo ==
    /\ phase = "undo" /\ single
    /\ \E o \in WriterRaises :
         \E p \in (IF Unrecovered(o) THEN {Err(o.db, 0)}
                  ELSE IF auto THEN {Ok(o.db, 0)} ELSE RollbackFailedImport(o.db)) :
           /\ Spent([p EXCEPT !.faults = @ + o.faults]) /\ h' = p.db
           /\ IF p.ok
                THEN /\ phase' = "loop" /\ UNCHANGED raised
                     /\ failed' = failed \cup Range(batch)
                ELSE End(TRUE) /\ UNCHANGED failed
           /\ imported' = IF auto \/ ~p.ok THEN imported ELSE check[2]
           /\ check' = IF auto \/ ~p.ok THEN check ELSE <<0, {}>>
           /\ stuck' = (stuck \/ Stuck(IF auto THEN o ELSE p))
    /\ UNCHANGED <<what, pos, work, base, carried, calls>>

\* The next record of the failed batch, in a transaction of its own; the
\* generic fallback knows only the parent row.
Each ==
    /\ phase = "each" /\ at <= Len(batch)
    /\ \E o \in (IF generic THEN {Ok(h, 0)} ELSE Begin(h)) :
         /\ Spent(o) /\ h' = o.db
         /\ phase' = IF o.ok THEN "retry" ELSE "unretry"
    /\ todo' = IF generic /\ kind = "ck" THEN <<<<Stmt("parent", Rec(batch[at]), "a")>>>>
               ELSE IF generic THEN <<<<PutHead(Rec(batch[at]))>>>>
               ELSE <<Script(kind, Rec(batch[at]))>>
    /\ UNCHANGED <<what, raised, pos, batch, at, generic, stats, aux>>

EachDone ==
    /\ phase = "each" /\ at > Len(batch)
    /\ phase' = "loop" /\ at' = 0 /\ generic' = FALSE
    /\ UNCHANGED <<h, what, raised, pos, batch, todo, stats, aux, faults>>

\* Mutant: a retried row is counted before it is committed.
MutantRetried ==
    /\ phase = "retry" /\ todo = <<>>
    /\ \E o \in Commit(h) :
         /\ Spent(o) /\ h' = o.db
         /\ phase' = IF o.ok THEN "each" ELSE "unretry"
         /\ at' = IF o.ok THEN at + 1 ELSE at
    /\ imported' = imported \cup {batch[at]}
    /\ UNCHANGED <<what, raised, pos, batch, todo, generic, failed, check, aux>>

\* Each retried record is committed before it is counted.
Retried ==
    /\ phase = "retry" /\ todo = <<>>
    /\ \E o \in Commit(h) :
         /\ Spent(o) /\ h' = o.db
         /\ phase' = IF o.ok THEN "each" ELSE "unretry"
         /\ at' = IF o.ok THEN at + 1 ELSE at
         /\ imported' = IF o.ok THEN imported \cup {batch[at]} ELSE imported
    /\ UNCHANGED <<what, raised, pos, batch, todo, generic, failed, check, aux>>

\* A retried record fails: it is rolled back and counted, or the rollback error
\* ends the writer's loop.
RetryUndo == IF generic THEN RollbackPendingOrRaise(h) ELSE RollbackOrInvalidate(h)

RetryFails ==
    /\ phase = "unretry"
    /\ \E o \in RetryUndo : o.ok /\ Spent(o) /\ h' = o.db
    /\ phase' = "each" /\ at' = at + 1
    /\ failed' = failed \cup {batch[at]}
    /\ UNCHANGED <<what, raised, pos, batch, todo, generic, imported, check, aux>>

RetryRaises ==
    /\ phase = "unretry"
    /\ \E o \in RetryUndo :
         /\ ~o.ok
         /\ IF FallsBack /\ ~generic /\ ~single
              THEN \E p \in RollbackPendingOrRaise(o.db) :
                     /\ Spent([p EXCEPT !.faults = @ + o.faults]) /\ h' = p.db
                     /\ stuck' = (stuck \/ Stuck(o) \/ Stuck(p))
                     /\ IF p.ok THEN Continue(batch) /\ generic' = TRUE
                        ELSE End(TRUE) /\ UNCHANGED <<batch, at, generic>>
                     /\ UNCHANGED failed
            ELSE /\ Spent(o) /\ h' = o.db /\ UNCHANGED <<batch, at, generic>>
                 /\ stuck' = (stuck \/ Stuck(o))
                 /\ IF single
                      THEN /\ phase' = "loop" /\ UNCHANGED raised
                           /\ failed' = failed \cup Range(batch)
                      ELSE End(TRUE) /\ UNCHANGED failed
    /\ UNCHANGED <<what, pos, todo, imported, check, base, carried, calls>>

\* The caller of a caller-owned import commits what was returned.
CallerCommits ==
    /\ phase = "over" /\ ~auto /\ ~raised /\ is_transaction_active(h)
    /\ \E o \in Commit(h) : /\ Spent(o) /\ h' = o.db
                            /\ raised' = ~o.ok
    /\ UNCHANGED <<what, phase, pos, work, stats, aux>>

\* The with block ends; a process whose exit raises leaves it to the database
\* to drop the connection.
Exit ==
    /\ phase = "over"
    /\ \E o \in ContextExit(h, raised) :
         /\ Spent(o)
         /\ h' = [o.db EXCEPT !.p = Closed(@), !.s = Closed(@)]
    /\ phase' = "out"
    /\ UNCHANGED <<what, raised, pos, work, stats, aux>>

Next ==
    \/ Start \/ BeginSingle \/ NextBatch \/ Return
    \/ Step \/ Finish
    \/ UndoAndRetry \/ AutoUndo \/ OwnedUndo \/ SingleUndo
    \/ Each \/ EachDone \/ Retried \/ RetryFails \/ RetryRaises
    \/ CallerCommits \/ Exit

Spec == Init /\ [][Next]_vars

-----------------------------------------------------------------------------
\* Properties

\* The child tables of a record type.
ChildTables ==
    CASE kind \in {"tk", "wf", "ch", "ks", "snapshot"} -> {"a"}
      [] kind \in Split \cup {"ck"} -> {"a", "b"}
      [] OTHER -> {}

\* A key no record wrote, and one whose last record is r.
NoEntry == [head |-> NoHead, kids |-> [t \in Tabs |-> {}]]
Entry(r) ==
    [head |-> IF kind = "snapshot" THEN NoHead ELSE [ver |-> r.ver, sealed |-> TRUE],
     kids |-> [t \in Tabs |-> IF t \in ChildTables THEN Version(r) ELSE {}]]
Told(r) == IF Erases(r) /\ kind # "ch" THEN NoEntry ELSE Entry(r)

WholeKey(e, k) ==
    e = NoEntry \/ \E i \in DOMAIN Records : Rec(i).key = k /\ e = Told(Rec(i))

\* What is durable of a coupled record, in either database, is one version of
\* it: a header marked complete with exactly its child rows, or nothing.  The
\* writers issue up to six statements a record, and any of them, the commit and
\* the rollback may fail or go unanswered.
CoupledComplete ==
    ~stuck => \A k \in Keys :
        /\ WholeKey(h.p.store[k], k)
        /\ h.dual => WholeKey(h.s.store[k], k)

\* What the records at positions S make of the rows: the last one of a key
\* decides about it.
Replay(rows, S) ==
    [k \in Keys |->
        LET P == {i \in S : Rec(i).key = k}
        IN IF P = {} THEN rows[k] ELSE Told(Rec(Max(P)))]

\* A committed import returned: the rows are what the records it counted make
\* of the rows it found, no more and no less, however its batches were retried.
CountsHonest ==
    (phase = "over" /\ auto /\ ~raised /\ ~single /\ ~h.p.lost /\ ~stuck)
        => h.p.store = Replay(base, imported)

\* An import that does not own the commit leaves what is durable alone, in both
\* databases, whatever fails in it: only its caller makes it durable.
OwnedWaits ==
    [][(~auto /\ <<h.p.store, h.s.store>>' # <<h.p.store, h.s.store>>)
         => CallerCommits \/ Exit]_vars

\* With nothing pending and no commit unanswered, a secondary in sync holds the
\* rows of the primary ("Whether every secondary operation has succeeded since
\* startup", dual_handler.py:367-370).
MirrorInSync ==
    (/\ h.dual /\ h.sync /\ h.s.driver = "psycopg" /\ ~(single /\ auto)
     /\ ~Pending(h)
     /\ ~h.p.lost /\ ~h.s.lost /\ ~stuck /\ ~carried)
        => h.s.store = h.p.store

=============================================================================
