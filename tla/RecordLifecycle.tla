--------------------------- MODULE RecordLifecycle --------------------------
(***************************************************************************)
(* The ways from a JV-Data record to rows: realtime/updater.py (raw        *)
(* records, parsed rows and batches of them) and the record loop of        *)
(* DataImporter.import_records inside a caller's transaction (importer.py) *)
(* for the native and for the standard schema.                             *)
(*                                                                         *)
(* A behaviour follows one kind of record along one way, with the caller's *)
(* transaction around it.  The storage may refuse any statement, and then  *)
(* it rolls the whole transaction back by itself.                          *)
(***************************************************************************)
EXTENDS RecordMeaning, SequencesExt, FiniteSets

CONSTANTS Records,     \* the records of each type that may come
          Batches,     \* sequences that are handed over together, by the first's type
          BatchSize,   \* rows an import buffers before it writes them
          MaxRecords   \* bound: how often something is handed over

ASSUME RecordsAreTyped ==
    /\ DOMAIN Records \subseteq RecordTypes
    /\ \A t \in DOMAIN Records : /\ Records[t] \subseteq {p \in Dictionaries : p.type = t}
                                 /\ Batches[t] \subseteq Seq(Dictionaries)

VARIABLES
    kind,     \* what is stored, by which way
    kept,     \* the rows as of the last commit
    work,     \* the rows as the connection sees them
    open,     \* a transaction is pending
    buf,      \* records an import has buffered
    finger,   \* the last record that became one wide row, or nothing
    told,     \* what the caller knows: "fine", "rejected", "broken" or "done"
    taken,    \* how often something was handed over
    last      \* what was taken last

vars == <<kind, kept, work, open, buf, finger, told, taken, last>>

Kinds == {k \in [type : DOMAIN Records, route : Imports \cup Live, ts : BOOLEAN] :
              k.ts => k.type \in OddsTypes /\ k.route \in Live}

Init ==
    /\ kind \in Kinds
    /\ kept = {} /\ work = {}
    /\ open = FALSE
    /\ buf = <<>> /\ finger = <<>>
    /\ told = "fine"
    /\ taken = 0 /\ last = <<>>

Importing == kind.route \in Imports
Handed == taken < MaxRecords /\ taken' = taken + 1
Between == last' = <<>> /\ UNCHANGED <<kind, taken>>
Rejects == told' = (IF told = "broken" THEN "broken" ELSE "rejected")
Refuses == Rejects /\ last' = <<>>
Breaks == told' = "broken" /\ last' = <<>>
\* Nothing counts in a transaction that its caller will not commit.
Takes(q) == last' = IF told = "broken" /\ open' THEN <<>> ELSE q

\* rollback_failed_import, or the handler's own rollback of a failed statement.
RolledBack == work' = kept /\ open' = FALSE /\ UNCHANGED kept
Into(b) == work' = b /\ open' = TRUE /\ UNCHANGED kept
OnItsOwn(b) == work' = b /\ kept' = b /\ open' = FALSE
Untouched == UNCHANGED <<kept, work, open>>

---------------------------------------------------------------------------
(* RealtimeUpdater: one row. *)

STRICT_RECORD_TABLES == {"SE", "WE", "AV", "H6", "HR", "TC", "CC", "JC", "WF"}
CANCELLATION_STATE_RECORD_TYPES == {"RA", "SE", "HR", "WF"} \cup SplitTypes

_canonicalize_strict_record_aliases(p) == validate_record_header(p, "realtime")
\* Mutant: only an erase is held against its contract.
MutantRejectStrictRecord(p) == p.type \in STRICT_RECORD_TABLES /\ Erase(p) /\ ~ Validated(p)

_reject_strict_record(p) == p.type \in STRICT_RECORD_TABLES /\ ~ Validated(p)

\* 9 stays queryable for the types that can be cancelled.
IsDelete(p) == Erase(p) \/ (p.kubun = "9" /\ p.type \notin CANCELLATION_STATE_RECORD_TYPES)

\* Some row of the record reports a failure, and then every row does.
Refused(k, p) ==
    \/ ~ _canonicalize_strict_record_aliases(p)
    \/ p.type \in MiningTypes /\ ~ Erase(p)
    \/ p.type \notin RECORD_TYPE_TABLE
    \/ _reject_strict_record(p)
    \/ IsDelete(p) /\ ~ NamesKey(k, p)
    \/ ~ IsDelete(p) /\ \E slot \in Incoming(p) : ~ _has_complete_primary_key(k, p, slot)

_handle_delete_record(k, p, b) == Without(k, p, b)
_handle_new_record(k, p, slots, b) ==
    Upsert(b, {_prepare_data_for_db(k, p, slot) : slot \in slots})
_process_single_record(k, p, slots, b) ==
    CASE slots = {} -> b
      [] slots # {} /\ IsDelete(p) -> _handle_delete_record(k, p, b)
      [] OTHER -> _handle_new_record(k, p, slots, b)

replace_mining_native_snapshot(k, p, b) ==
    _handle_new_record(k, p, Incoming(p), Without(k, p, b))
replace_odds_native_snapshot(k, p, b) ==
    _handle_new_record(k, p, Incoming(p), Without(k, p, b))

\* Mutant: the rows of a snapshot are written over those of the last one.
MutantReplaceNativeSnapshot(k, p, b) == _handle_new_record(k, p, Incoming(p), b)

_replace_native_snapshot(k, p, b) ==
    IF p.type \in MiningTypes THEN replace_mining_native_snapshot(k, p, b)
                              ELSE replace_odds_native_snapshot(k, p, b)

---------------------------------------------------------------------------
(* process_record: a raw record.  Its callers read on after a failure and  *)
(* end the transaction when they have read everything.                     *)

SnapshotRecord(k, p) ==
    ~ Erase(p) /\ (p.type \in MiningTypes \/ (p.type \in OddsTypes /\ ~ k.ts))

Unstorable(k, p) ==
    \/ Parse(p) = {}
    \/ ~ _canonicalize_strict_record_aliases(p)
    \/ p.type \notin RECORD_TYPE_TABLE
    \/ IF SnapshotRecord(k, p) THEN ~ Validated(p) ELSE Refused(k, p)

Listed(p) == kind.route = "list" /\ p.wire /\ Handed /\ UNCHANGED <<kind, buf, finger>>

ListRefused(p) == Listed(p) /\ Unstorable(kind, p) /\ Refuses /\ Untouched

ListRows(p) ==
    /\ Listed(p)
    /\ ~ Unstorable(kind, p) /\ ~ SnapshotRecord(kind, p)
    /\ Into(_process_single_record(kind, p, Incoming(p), work))
    /\ Takes(<<p>>) /\ UNCHANGED told

\* Joins the pending transaction, or has one of its own.
ListSnapshot(p) ==
    /\ Listed(p)
    /\ ~ Unstorable(kind, p) /\ SnapshotRecord(kind, p)
    /\ IF open THEN Into(_replace_native_snapshot(kind, p, work))
               ELSE OnItsOwn(_replace_native_snapshot(kind, p, work))
    /\ Takes(<<p>>) /\ UNCHANGED told

\* A statement fails: the rows behind it are still written, in a transaction
\* that nobody began.
ListBreaks(p) ==
    /\ Listed(p)
    /\ ~ Unstorable(kind, p)
    /\ Breaks
    /\ \/ RolledBack
       \/ \E slots \in SUBSET Incoming(p) \ {{}, Incoming(p)} :
             ~ SnapshotRecord(kind, p) /\ Into(_process_single_record(kind, p, slots, kept))

---------------------------------------------------------------------------
(* process_parsed_record: rows somebody else parsed, one by one.  Its      *)
(* callers stop at the first failure.                                      *)

Rowed(p) ==
    /\ kind.route = "rows" /\ told = "fine" /\ Incoming(p) # {}
    /\ Handed /\ UNCHANGED <<kind, buf, finger>>

RowsRefused(p) == Rowed(p) /\ Refused(kind, p) /\ Refuses /\ Untouched

RowsWritten(p) ==
    /\ Rowed(p)
    /\ ~ Refused(kind, p)
    /\ Into(_process_single_record(kind, p, Incoming(p), work))
    /\ Takes(<<p>>) /\ UNCHANGED told

RowsBreak(p) == Rowed(p) /\ ~ Refused(kind, p) /\ Breaks /\ RolledBack

---------------------------------------------------------------------------
(* process_parsed_records_batch. *)

Some(q, Test(_)) == \E i \in DOMAIN q : Test(q[i])

Malformed(q) ==
    Some(q, LAMBDA p : ~ _canonicalize_strict_record_aliases(p) \/ _reject_strict_record(p))
HasMining(q) == Some(q, LAMBDA p : p.type \in MiningTypes)
HasWF(q) == Some(q, LAMBDA p : p.type = "WF")
HasErase(q) == Some(q, IsDelete)
LostSnapshot(p) == p.type \in MiningTypes /\ ~ Erase(p) /\ ~ p.wire

OddsSnapshot(k, p) == p.type \in OddsTypes /\ p.wire /\ ~ k.ts

\* One operation after the other, all or none.
Ordered(q) == HasMining(q) \/ HasErase(q)
Whole(p) == p.type \in MiningTypes /\ ~ Erase(p)
Performed(k, p, b) ==
    IF Whole(p) THEN _replace_native_snapshot(k, p, b)
                ELSE _process_single_record(k, p, Incoming(p), b)
InOrder(k, q, b) ==
    LET after[i \in 0..Len(q)] == IF i = 0 THEN b ELSE Performed(k, q[i], after[i - 1])
    IN  after[Len(q)]

\* First every snapshot of odds, then the rows of the other records by table;
\* beside WIN5 records nothing is a snapshot, and what has no table or no key
\* is dropped.
Leads(k, q, p) == OddsSnapshot(k, p) /\ ~ HasWF(q)
Groupable(k, p) ==
    p.type \in RECORD_TYPE_TABLE /\ \A slot \in Incoming(p) : _has_complete_primary_key(k, p, slot)

Replaced(k, q, p, b) == IF Leads(k, q, p) THEN _replace_native_snapshot(k, p, b) ELSE b
SnapshotsFirst(k, q, b) ==
    LET after[i \in 0..Len(q)] == IF i = 0 THEN b ELSE Replaced(k, q, q[i], after[i - 1])
    IN  after[Len(q)]

ByTable(k, q, p, b) ==
    IF ~ Leads(k, q, p) /\ Groupable(k, p) THEN _handle_new_record(k, p, Incoming(p), b) ELSE b
RowsByTable(k, q, b) ==
    LET after[i \in 0..Len(q)] == IF i = 0 THEN b ELSE ByTable(k, q, q[i], after[i - 1])
    IN  after[Len(q)]

\* Mutant: the snapshots go last.
MutantGrouped(k, q, b) == SnapshotsFirst(k, q, RowsByTable(k, q, b))

Grouped(k, q, b) == RowsByTable(k, q, SnapshotsFirst(k, q, b))

BatchRefused(k, q) ==
    \/ Malformed(q)
    \/ Some(q, LostSnapshot)
    \/ ~ Ordered(q) /\ ~ HasWF(q) /\ Some(q, LAMBDA p : OddsSnapshot(k, p) /\ ~ Validated(p))

Handover(q) ==
    /\ kind.route = "batch" /\ told = "fine"
    /\ \A i \in DOMAIN q : Incoming(q[i]) # {}
    /\ Handed /\ UNCHANGED <<kind, buf, finger>>

RefuseBatch(q) == Handover(q) /\ BatchRefused(kind, q) /\ Refuses /\ Untouched

\* Inside the caller's transaction, or committed at once.
Ends(b) == IF open THEN Into(b) ELSE OnItsOwn(b)

ApplyInOrder(q) ==
    /\ Handover(q)
    /\ ~ BatchRefused(kind, q) /\ Ordered(q)
    /\ IF Some(q, LAMBDA p : ~ Whole(p) /\ Refused(kind, p))
       THEN RolledBack /\ Refuses
       ELSE Ends(InOrder(kind, q, work)) /\ Takes(q) /\ UNCHANGED told

ApplyGrouped(q) ==
    /\ Handover(q)
    /\ ~ BatchRefused(kind, q) /\ ~ Ordered(q)
    /\ Ends(Grouped(kind, q, work)) /\ Takes(q)
    /\ IF Some(q, LAMBDA p : ~ Groupable(kind, p)) THEN Rejects ELSE UNCHANGED told

BatchBreaks(q) == Handover(q) /\ ~ BatchRefused(kind, q) /\ Breaks /\ RolledBack

---------------------------------------------------------------------------
(* DataImporter.import_records: one record of the iterator. *)

_OFFICIAL_ERASE_KEY_COLUMNS ==
    {"RA", "SE", "WE", "AV", "JC", "HR", "HS", "HC", "HN", "SK", "UM", "HY", "BT", "JG", "WC", "WF"}
        \cup SplitTypes

_is_standard_split(k, p) == k.route = "standard" /\ p.type \in SplitTypes
_is_official_record_erase(k, p) ==
    Erase(p) /\ p.type \in _OFFICIAL_ERASE_KEY_COLUMNS \ (IF k.route = "standard" THEN {"WF"} ELSE {})
_is_mining_race_delete(p) == Erase(p) /\ p.type \in MiningTypes
ErasesAtOnce(k, p) == _is_official_record_erase(k, p) \/ _is_mining_race_delete(p)
ReplacesAtOnce(k, p) ==
    ~ Erase(p) /\ p.wire /\ k.route = "native" /\ p.type \in OddsTypes \cup MiningTypes

_expanded_record_fingerprint(k, p) ==
    IF k.route = "standard" /\ p.type \in WideTypes /\ ~ Erase(p) THEN <<p>> ELSE <<>>

\* Written in the order they came, a status of "0" as a deletion.
_ORDERED_STORAGE(k) ==
    {"RC", "YS", "TK", "CK", "KS"} \cup (IF k.route = "standard" THEN {"WF"} ELSE {})
_ORDERED_MASTER_STORAGE_TABLES == {"RC", "YS", "TK"}

insert_standard_odds_batch(k, p, b) == Without(k, p, b) \cup Filed(k, p)
insert_standard_vote_batch(k, p, b) == Without(k, p, b) \cup Filed(k, p)
Written(k, b, p) ==
    CASE _is_standard_split(k, p) /\ p.type \in OddsTypes -> insert_standard_odds_batch(k, p, b)
      [] _is_standard_split(k, p) /\ p.type \in VoteTypes -> insert_standard_vote_batch(k, p, b)
      [] Erase(p) /\ p.type \in _ORDERED_STORAGE(k) -> Without(k, p, b)
      [] OTHER -> Upsert(b, Filed(k, p))
_flush_batch(k, b, q) ==
    LET after[i \in 0..Len(q)] == IF i = 0 THEN b ELSE Written(k, after[i - 1], q[i])
    IN  after[Len(q)]

Incomplete(k, q) ==
    Some(q, LAMBDA p : \E slot \in Places(k, p) : ~ _has_complete_primary_key(k, p, slot))
Unflushable(k, q) == k.type \in _ORDERED_MASTER_STORAGE_TABLES /\ Incomplete(k, q)
Full(k, q) == FoldLeft(LAMBDA n, p : n + Cardinality(Places(k, p)), 0, q) >= BatchSize

\* The rows of a repeated array, and the child rows that TK, KS and CK carry,
\* are those of a parser: only single rows are also built by hand.
Parsed(p) == p.wire \/ p.type \notin ExpandedTypes \cup {"TK", "KS", "CK"}

Imported(p) ==
    /\ Importing /\ open /\ told \in {"fine", "rejected"}
    /\ Incoming(p) # {} /\ Parsed(p)
    /\ Handed /\ UNCHANGED kind

Counts(q) == IF Incomplete(kind, q) THEN Rejects ELSE UNCHANGED told
Raises == RolledBack /\ buf' = <<>> /\ finger' = <<>> /\ Breaks

\* What is read behind a failure, a refusal included, is not read any more.
ImportRefused(p) ==
    /\ Imported(p)
    /\ ~ validate_import_record_header(p) \/ (ErasesAtOnce(kind, p) /\ ~ NamesKey(kind, p))
    /\ Raises

Importable(p) ==
    Imported(p) /\ validate_import_record_header(p) /\ (ErasesAtOnce(kind, p) => NamesKey(kind, p))

\* Rows that are buffered go first.
ImportErase(p) ==
    /\ Importable(p) /\ Takes(<<p>>)
    /\ ErasesAtOnce(kind, p)
    /\ Into(Without(kind, p, _flush_batch(kind, work, buf)))
    /\ Counts(buf)
    /\ buf' = <<>> /\ finger' = <<>>

ImportSnapshot(p) ==
    /\ Importable(p) /\ Takes(<<p>>)
    /\ ReplacesAtOnce(kind, p)
    /\ Into(_replace_native_snapshot(kind, p, _flush_batch(kind, work, buf)))
    /\ Counts(buf)
    /\ buf' = <<>> /\ UNCHANGED finger

\* The rows of one physical record of odds or votes wait for the next one.
ImportSplit(p) ==
    /\ Importable(p) /\ Takes(<<p>>)
    /\ _is_standard_split(kind, p) /\ ~ Erase(p)
    /\ Into(_flush_batch(kind, work, buf))
    /\ buf' = <<p>>
    /\ UNCHANGED <<finger, told>>

Plain(p) == ~ ErasesAtOnce(kind, p) /\ ~ ReplacesAtOnce(kind, p) /\ ~ _is_standard_split(kind, p)
Repeated(p) == finger # <<>> /\ finger = _expanded_record_fingerprint(kind, p)

ImportRepeated(p) ==
    Importable(p) /\ Plain(p) /\ Repeated(p) /\ Takes(<<p>>) /\ Untouched /\ UNCHANGED <<buf, finger, told>>

ImportRow(p) ==
    /\ Importable(p) /\ Takes(<<p>>)
    /\ Plain(p) /\ ~ Repeated(p)
    /\ finger' = (IF _expanded_record_fingerprint(kind, p) = <<>> THEN finger
                  ELSE _expanded_record_fingerprint(kind, p))
    /\ LET q == Append(buf, p)
       IN IF Full(kind, q)
          THEN ~ Unflushable(kind, q) /\ Into(_flush_batch(kind, work, q)) /\ buf' = <<>> /\ Counts(q)
          ELSE Untouched /\ buf' = q /\ UNCHANGED told

\* A statement fails, or the buffered rows have no key to write them under.
ImportBreaks(p) ==
    /\ Importable(p)
    /\ \/ ErasesAtOnce(kind, p)
       \/ ReplacesAtOnce(kind, p)
       \/ _is_standard_split(kind, p) /\ buf # <<>>
       \/ Plain(p) /\ ~ Repeated(p) /\ Full(kind, Append(buf, p))
    /\ Raises

ImportEnds ==
    /\ Importing /\ open /\ told \in {"fine", "rejected"}
    /\ Between
    /\ \/ /\ ~ Unflushable(kind, buf)
          /\ Into(_flush_batch(kind, work, buf))
          /\ buf' = <<>> /\ finger' = <<>>
          /\ told' = (IF told = "rejected" \/ Incomplete(kind, buf) THEN "rejected" ELSE "done")
       \/ buf # <<>> /\ Raises

---------------------------------------------------------------------------
(* The caller's transaction. *)

Begin ==
    /\ ~ open /\ told = "fine" /\ taken < MaxRecords
    /\ open' = TRUE
    /\ Between /\ UNCHANGED <<kept, work, buf, finger, told>>

Commit ==
    /\ open /\ told = (IF Importing THEN "done" ELSE "fine")
    /\ kept' = work /\ open' = FALSE /\ told' = "fine"
    /\ Between /\ UNCHANGED <<work, buf, finger>>

Abort ==
    /\ open \/ told # "fine"
    /\ RolledBack /\ buf' = <<>> /\ finger' = <<>> /\ told' = "fine"
    /\ Between

Next ==
    \/ \E p \in Records[kind.type] :
          \/ ListRefused(p) \/ ListRows(p) \/ ListSnapshot(p) \/ ListBreaks(p)
          \/ RowsRefused(p) \/ RowsWritten(p) \/ RowsBreak(p)
          \/ ImportRefused(p) \/ ImportErase(p) \/ ImportSnapshot(p) \/ ImportSplit(p)
          \/ ImportRepeated(p) \/ ImportRow(p) \/ ImportBreaks(p)
    \/ \E q \in Batches[kind.type] : RefuseBatch(q) \/ ApplyInOrder(q) \/ ApplyGrouped(q) \/ BatchBreaks(q)
    \/ ImportEnds
    \/ Begin
    \/ Commit
    \/ Abort

Spec == Init /\ [][Next]_vars

---------------------------------------------------------------------------
(* A race has one snapshot at a time: no horse or combination of an        *)
(* earlier one stays between the rows of a later one (the native replace   *)
(* of mining and odds, the split and wide tables of the standard schema).  *)
Snapshotted(k) ==
    /\ ~ k.ts
    /\ \/ k.route = "list" /\ k.type \in OddsTypes \cup MiningTypes
       \/ k.route = "native" /\ k.type \in OddsTypes \cup MiningTypes
       \/ k.route = "standard" /\ k.type \in SplitTypes
OneSnapshot(b) == \A r, s \in b : r.id = s.id => r.is = s.is
OneSnapshotPerRace == Snapshotted(kind) => OneSnapshot(kept) /\ OneSnapshot(work)

(* What reaches a table passed its official contract, on whichever way:    *)
(* but for the realtime votes of the win types, odds kept by time or taken *)
(* row by row, and horse weights somebody else parsed.                     *)
Unguarded(k, t) ==
    /\ k.route \in Live
    /\ \/ t = "H1"
       \/ t \in OddsTypes /\ (k.ts \/ k.route # "list")
       \/ t = "WH" /\ k.route # "list"
OfficialRows(k, b) == \A r \in b : r.is = "odd" => Unguarded(k, r.type)
OnlyOfficialStored == OfficialRows(kind, kept) /\ OfficialRows(kind, work)

(* Whatever way records take, the stored rows are what the abstract board  *)
(* holds: nothing buffered, grouped, deduplicated, retried or rolled back  *)
(* by the storage shows, and what is not stored is reported.  Where the    *)
(* code keeps less than record_contracts.md says, Overlaid and Unsettled   *)
(* of RecordMeaning name it.                                               *)
Shown == IF told = "broken" THEN kept ELSE _flush_batch(kind, work, buf)
Board == INSTANCE RecordBoard WITH work <- Shown, ok <- told \in {"fine", "done"}
BoardKept == Board!BoardSpec

=============================================================================
