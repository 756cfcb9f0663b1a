------------------------------ MODULE ImportTxn -----------------------------
(***************************************************************************)
(* BatchProcessor.process_date_range (src/importer/batch.py) driving       *)
(* DataImporter.import_records with auto_commit=False                      *)
(* (src/importer/importer.py) on one SQLite or PostgreSQL connection: per- *)
(* table buffers, erase and snapshot records that are written at once, one *)
(* transaction per data spec or per SETUP_COMMIT_INTERVAL records, failing *)
(* statements, rollback, a lost connection, a crash, and later runs on the *)
(* same database.                                                          *)
(*                                                                         *)
(* A record's write maps the rows it sets to their value and the rows it   *)
(* erases to "none"; buffers hold the positions of records in the stream.  *)
(***************************************************************************)
EXTENDS Naturals, Sequences, FiniteSets

CONSTANTS
    Tables,
    Keys,
    Values,     \* stored rows; "none" where there is no row
    Specs,      \* data specs of a run
    Stream,     \* Stream[s]: the records the fetcher yields for spec s
    BatchSize,
    Interval,   \* SETUP_COMMIT_INTERVAL
    MaxRuns     \* bound: process_date_range calls

Locs == Tables \X Keys
Rows == [Locs -> Values]
Kinds == {"row",        \* buffered, written with its batch
          "nokey",      \* buffered, skipped by the flush: incomplete key
          "direct",     \* erase or native snapshot: written at once
          "follower",   \* expanded row of a snapshot written already
          "unknown",    \* record type without a table
          "invalid"}    \* header or body refused by validation

VARIABLES
    phase,
    backend,    \* driver of this database
    run,        \* process_date_range calls so far
    spec, split,
    idx,        \* records taken from the fetcher
    groupEnd,   \* last record of the current commit group
    buffer,     \* batch_buffers
    rejected,   \* records counted in records_failed
    committed,  \* rows a new connection would see
    working,    \* rows this connection sees
    active,     \* _transaction_active
    poisoned,   \* PostgreSQL refuses statements until a rollback
    base,       \* auxiliary: committed when the run began
    durable     \* auxiliary: records of this run that are committed

run_ == <<backend, run, spec, split, base>>
conn == <<working, active, poisoned>>
store == <<committed, durable>>
vars == <<phase, run_, idx, groupEnd, buffer, rejected, conn, store>>

Resting == {"idle", "done", "failed"}

Rec(i) == Stream[spec][i]
Total == Len(Stream[spec])

\* Rows after the records S on top of b: the last record that writes a row
\* decides (INSERT OR REPLACE / ON CONFLICT DO UPDATE in stream order; a batch
\* with one key twice keeps the last, _dedupe_rows_by_primary_key).
Writers(s, S, l) == {i \in S : l \in DOMAIN Stream[s][i].write}
Last(S) == CHOOSE i \in S : \A j \in S : j <= i
Content(b, s, S) ==
    [l \in Locs |-> IF Writers(s, S, l) = {} THEN b[l]
                    ELSE Stream[s][Last(Writers(s, S, l))].write[l]]

NoBuffers == [t \in Tables |-> {}]
Pending == UNION {buffer[t] : t \in Tables}

ASSUME NoRowIsAValue == "none" \in Values

ASSUME SizesArePositive == BatchSize \in Nat \ {0} /\ Interval \in Nat \ {0}

\* Records of a stream: what is buffered or written at once belongs to one
\* table, the rest writes nothing.
Record(r) ==
    /\ r.kind \in Kinds /\ r.table \in Tables
    /\ DOMAIN r.write \subseteq {r.table} \X Keys
    /\ \A l \in DOMAIN r.write : r.write[l] \in Values
    /\ r.kind \notin {"row", "direct"} => DOMAIN r.write = {}

ASSUME StreamsAreTyped ==
    \A s \in Specs : /\ Len(Stream[s]) \in Nat
                     /\ \A i \in 1..Len(Stream[s]) : Record(Stream[s][i])

Init ==
    /\ phase = "idle"
    /\ backend \in {"sqlite", "postgresql"}
    /\ run = 0
    /\ spec \in Specs /\ split \in BOOLEAN
    /\ idx = 0 /\ groupEnd = 0
    /\ buffer = NoBuffers /\ rejected = {}
    /\ committed = [l \in Locs |-> "none"] /\ durable = 0
    /\ working = committed /\ base = committed
    /\ active = FALSE /\ poisoned = FALSE

\* process_date_range is called; option 4 commits per interval.
StartRun(s, p) ==
    /\ phase \in Resting /\ run < MaxRuns
    /\ run' = run + 1
    /\ spec' = s /\ split' = p
    /\ base' = committed /\ durable' = 0
    /\ idx' = 0 /\ groupEnd' = 0
    /\ phase' = "group"
    /\ UNCHANGED <<backend, buffer, rejected, conn, committed>>

\* A group of records is taken, begin_transaction, a fresh import interval.
\* An empty stream is one empty group.
NextGroup ==
    /\ phase = "group"
    /\ groupEnd < Total \/ Total = 0
    /\ groupEnd' = IF split /\ groupEnd + Interval < Total
                     THEN groupEnd + Interval ELSE Total
    /\ active' = TRUE
    /\ buffer' = NoBuffers /\ rejected' = {}
    /\ phase' = "import"
    /\ UNCHANGED <<run_, idx, working, poisoned, store>>

\* The fetcher fails: while a split group is collected, before its
\* transaction begins, or under the importer's loop.
FetchFails ==
    /\ phase = IF split THEN "group" ELSE "import"
    /\ phase' = "abort"
    /\ UNCHANGED <<run_, idx, groupEnd, buffer, rejected, conn, store>>

Take(kinds) ==
    /\ phase = "import" /\ idx < groupEnd
    /\ Rec(idx + 1).kind \in kinds
    /\ idx' = idx + 1

\* validate_import_record_header or a body check raises.
ImportInvalid ==
    /\ Take({"invalid"})
    /\ phase' = "abort"
    /\ UNCHANGED <<run_, groupEnd, buffer, rejected, conn, store>>

\* Record type without a table: counted, skipped.
SkipUnknown ==
    /\ Take({"unknown"})
    /\ rejected' = rejected \cup {idx'}
    /\ UNCHANGED <<phase, run_, groupEnd, buffer, conn, store>>

SkipFollower ==
    /\ Take({"follower"})
    /\ UNCHANGED <<phase, run_, groupEnd, buffer, rejected, conn, store>>

\* _flush_batch of the buffered records B, then the records D written at once.
Write(B, D) ==
    /\ ~poisoned
    /\ working' = Content(Content(working, spec, B), spec, D)
    /\ rejected' = rejected \cup {i \in B : Rec(i).kind = "nokey"}

\* The row joins its table's buffer; a full buffer is written.
BufferRow ==
    /\ Take({"row", "nokey"})
    /\ LET t == Rec(idx').table
           B == buffer[t] \cup {idx'}
       IN IF Cardinality(B) < BatchSize
            THEN /\ buffer' = [buffer EXCEPT ![t] = B]
                 /\ UNCHANGED <<working, rejected>>
            ELSE /\ buffer' = [buffer EXCEPT ![t] = {}]
                 /\ Write(B, {})
    /\ UNCHANGED <<phase, run_, groupEnd, active, poisoned, store>>

\* Mutant: the erase or snapshot overtakes the buffered rows of its table.
MutantImportDirect ==
    /\ Take({"direct"})
    /\ Write({}, {idx'})
    /\ UNCHANGED <<phase, run_, groupEnd, buffer, active, poisoned, store>>

\* Erase or snapshot: the buffered rows of its table go first.
ImportDirect ==
    /\ Take({"direct"})
    /\ LET t == Rec(idx').table
       IN /\ Write(buffer[t], {idx'})
          /\ buffer' = [buffer EXCEPT ![t] = {}]
    /\ UNCHANGED <<phase, run_, groupEnd, active, poisoned, store>>

\* The group is exhausted: the remaining batches, table by table.
FlushRest(t) ==
    /\ phase = "import" /\ idx = groupEnd
    /\ buffer[t] # {}
    /\ Write(buffer[t], {})
    /\ buffer' = [buffer EXCEPT ![t] = {}]
    /\ UNCHANGED <<phase, run_, idx, groupEnd, active, poisoned, store>>

\* A failing statement: SQLite's handler rolls the transaction back itself,
\* PostgreSQL refuses the rest of it.
StatementFails ==
    IF backend = "sqlite"
      THEN working' = committed /\ active' = FALSE /\ UNCHANGED poisoned
      ELSE poisoned' = TRUE /\ UNCHANGED <<working, active>>

\* A flush, an erase or a snapshot fails: auto_commit=False re-raises, there
\* are no individual retries.
WriteFails ==
    /\ phase = "import"
    /\ StatementFails
    /\ phase' = "abort"
    /\ UNCHANGED <<run_, idx, groupEnd, buffer, rejected, store>>

\* _raise_if_rejected
Accepted == rejected = {}

Imported == phase = "import" /\ idx = groupEnd /\ Pending = {}

RejectGroup ==
    /\ Imported /\ ~Accepted
    /\ phase' = "abort"
    /\ UNCHANGED <<run_, idx, groupEnd, buffer, rejected, conn, store>>

\* Commit of the group; the last one ends the run.
CommitGroup ==
    /\ Imported /\ Accepted
    /\ committed' = working /\ durable' = idx
    /\ active' = FALSE
    /\ phase' = IF groupEnd = Total THEN "done" ELSE "group"
    /\ UNCHANGED <<run_, idx, groupEnd, buffer, rejected, working, poisoned>>

\* The commit raises; a server may have made it durable all the same.
CommitFails ==
    /\ Imported /\ Accepted
    /\ \/ UNCHANGED store
       \/ backend = "postgresql" /\ committed' = working /\ durable' = idx
    /\ phase' = "abort"
    /\ UNCHANGED <<run_, idx, groupEnd, buffer, rejected, conn>>

\* Mutant: nothing is rolled back when the handler already did.
MutantAbort ==
    /\ phase = "abort"
    /\ working' = IF active THEN working ELSE committed
    /\ poisoned' = FALSE
    /\ buffer' = NoBuffers /\ rejected' = {}
    /\ phase' = "failed"
    /\ UNCHANGED <<run_, idx, groupEnd, active, store>>

\* rollback_failed_import in the importer, then rollback in the processor.  A
\* session whose rollback fails is invalidated: the server drops its work.
Abort ==
    /\ phase = "abort"
    /\ working' = committed /\ active' = FALSE /\ poisoned' = FALSE
    /\ buffer' = NoBuffers /\ rejected' = {}
    /\ phase' = "failed"
    /\ UNCHANGED <<run_, idx, groupEnd, store>>

\* The process dies; the database forgets what was not committed.
Crash ==
    /\ phase \notin Resting
    /\ working' = committed /\ active' = FALSE /\ poisoned' = FALSE
    /\ buffer' = NoBuffers /\ rejected' = {}
    /\ phase' = "failed"
    /\ UNCHANGED <<run_, idx, groupEnd, store>>

Next ==
    \/ \E s \in Specs, p \in BOOLEAN : StartRun(s, p)
    \/ NextGroup \/ FetchFails
    \/ ImportInvalid \/ SkipUnknown \/ SkipFollower
    \/ BufferRow \/ ImportDirect
    \/ \E t \in Tables : FlushRest(t)
    \/ WriteFails \/ RejectGroup
    \/ CommitGroup \/ CommitFails
    \/ Abort \/ Crash

Spec == Init /\ [][Next]_vars

-----------------------------------------------------------------------------

TypeOK ==
    /\ phase \in {"group", "import", "abort"} \cup Resting
    /\ backend \in {"sqlite", "postgresql"}
    /\ run \in Nat
    /\ spec \in Specs /\ split \in BOOLEAN
    /\ groupEnd \in 0..Total /\ idx \in 0..groupEnd /\ durable \in 0..idx
    /\ buffer \in [Tables -> SUBSET (1..idx)]
    /\ rejected \subseteq 1..idx
    /\ committed \in Rows /\ working \in Rows /\ base \in Rows
    /\ active \in BOOLEAN /\ poisoned \in BOOLEAN

\* Records importers refuse, at once or when their batch is written.
Rejects(s, S) == {i \in S : Stream[s][i].kind \in {"invalid", "unknown", "nokey"}}

\* Where a commit may fall: after the whole spec, or after a whole interval.
WholeIntervals(n) == \E k \in 0..n : n = k * Interval
CommitPoints(s, p) ==
    {n \in 0..Len(Stream[s]) : n = Len(Stream[s]) \/ (p /\ WholeIntervals(n))}

\* The inductive invariant.

\* What is committed is a prefix of the stream that ends at a commit point.
CommittedPrefix ==
    /\ committed = Content(base, spec, 1..durable)
    /\ durable = 0 \/ durable \in CommitPoints(spec, split)
    /\ Rejects(spec, 1..durable) = {}

\* What waits in a buffer is later than everything its table has been given.
BufferOrder ==
    \A t \in Tables : \A i \in buffer[t] :
        /\ i > durable /\ Rec(i).table = t
        /\ Rec(i).kind \in {"row", "nokey"}
        /\ \A j \in 1..idx : /\ Rec(j).table = t /\ j \notin buffer[t]
                            /\ Rec(j).kind \in {"row", "nokey", "direct"}
                            => j < i

\* In a running group the connection sees the records read so far, less what
\* the buffers hold, and every rejected record has been noted.
WorkingPrefix ==
    phase = "import" =>
        /\ active /\ ~poisoned
        /\ working = Content(base, spec, (1..idx) \ Pending)
        /\ rejected = Rejects(spec, (1..idx) \ Pending)

\* Between groups nothing is open.
GroupClosed ==
    /\ phase = "group" =>
         /\ idx = durable /\ groupEnd = durable
         /\ groupEnd < Total \/ Total = 0
    /\ phase \in Resting \cup {"group"} =>
         /\ working = committed /\ ~poisoned
         /\ buffer = NoBuffers /\ rejected = {}
    /\ phase = "done" => durable = Total
    /\ phase = "import" =>
         /\ groupEnd \in CommitPoints(spec, split)
         /\ (groupEnd = durable => Total = 0)

ImportInv ==
    /\ TypeOK
    /\ CommittedPrefix
    /\ BufferOrder
    /\ WorkingPrefix
    /\ GroupClosed

\* Whatever fails and wherever the process dies, the rows a run leaves behind
\* are those of a prefix of its stream applied record by record, cut at a
\* commit point: buffering, erases that flush, retries of the handler and
\* rollbacks never show (batch.py:187-227, importer.py:8468-8528, 8971-8976).
CommittedIsPrefix ==
    \E n \in CommitPoints(spec, split) \cup {0} :
        committed = Content(base, spec, 1..n)

\* A run that reports success has stored every record of its spec, and there
\* was none that an importer refuses (batch.py:237-243).
DoneIsComplete ==
    phase = "done" =>
        /\ committed = Content(base, spec, 1..Total)
        /\ Rejects(spec, 1..Total) = {}

\* When a run is over, nothing is left in the transaction that the next run on
\* the same connection would commit (batch.py:249-253, importer.py:41-57).
NothingLeftPending ==
    phase \in Resting => working = committed /\ buffer = NoBuffers

Status ==
    IF phase \in Resting THEN phase ELSE "running"

\* The processor implements the import log: only whole commit groups in
\* provider order appear, and success means the whole spec.
Log == INSTANCE ImportLog WITH db <- committed, status <- Status

ImplementsImportLog == Log!AbsSpec

=============================================================================
