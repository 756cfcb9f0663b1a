------------------------------- MODULE NlCache ------------------------------
(***************************************************************************)
(* The raw-record cache of one data spec (CacheManager, NL_ part, in       *)
(* src/cache/manager.py) under the fetches that read and fill it           *)
(* (HistoricalFetcher.fetch, fetch_with_cache) and the clear command, in   *)
(* one process: append-only files per event date, an index of complete     *)
(* dates, rollback to checkpoints, crashes.                                *)
(*                                                                         *)
(* A record is its position in Provider, the order of publication; of two  *)
(* records with one key the later is the correction.                       *)
(***************************************************************************)
EXTENDS Integers, Sequences

CONSTANTS
    LastDate,   \* dates are 1..LastDate
    Provider,   \* Provider[i]: [day, date, key] of the i-th published record
    MaxOps      \* bound: fetches and clears

Dates == 1..LastDate
Undated == 0            \* _extract_record_date returns None
Torn == 0               \* the part of a record that a crash left in a file
NoCheckpoint == -1      \* date not in cache.checkpoints
Records == 1..Len(Provider)

ASSUME ProviderIsTyped ==
    /\ LastDate \in Nat \ {0} /\ Len(Provider) \in Nat
    /\ \A i \in Records : /\ Provider[i].date \in Dates \cup {Undated}
                          /\ Provider[i].day \in Dates

\* Publication goes forward in time, and the event date is part of the key.
ASSUME PublishedInOrder ==
    \A i, j \in Records : i <= j => Provider[i].day <= Provider[j].day

ASSUME KeysHaveOneDate ==
    \A i, j \in Records :
        Provider[i].key = Provider[j].key => Provider[i].date = Provider[j].date

VARIABLES
    byRange,        \* JVOpen is given an end as well: uses_range_fromtime (RACE)
    pc,
    published,      \* records the provider has so far
    bin,            \* bin[d]: records in {d}.v3.bin
    complete,       \* dates the index says are complete
    from, to,       \* range of the running fetch
    upto, pos,      \* records published when it opened; last one handled
    checkpoints, rangeComplete,
    todo,           \* files a running clear has still to unlink
    cleared,        \* dates it drops from the index then
    ops,
    before,         \* auxiliary: bin when the fetch began
    promised,       \* auxiliary: records of a date whose fetch marked it complete
    held,           \* auxiliary: of each key of a date, what the last complete
                    \* fetch that delivered it ended with
    damaged         \* auxiliary: dates a crash or a failed restore has hit

files == <<bin, complete>>
fetch == <<from, to, upto, pos, checkpoints, rangeComplete, before>>
clear == <<todo, cleared>>
aux == <<byRange, promised, held, damaged>>
cacheVars == <<pc, published, files, fetch, clear, ops, aux>>

NoCheckpoints == [d \in Dates |-> NoCheckpoint]

\* JVOpen selects by publication: from a on, or from a to the end of b (the
\* yearly windows of such a fetch meet without a hole).
Opened(a, b, i) ==
    /\ Provider[i].day >= a
    /\ byRange => Provider[i].day <= b

\* Records a fetch of a..b delivers: the client drops what happened after b, and
\* nothing drops what happened before a.
Sent(a, b, n) == {i \in 1..n : Opened(a, b, i) /\ Provider[i].date <= b}

HasRange(a, b) == \A d \in a..b : d \in complete

\* _read_bin: up to the first record that is not whole.
Readable(s) ==
    {n \in 1..Len(s) : \A m \in 1..n : s[m] # Torn}

\* fetch_with_cache of a complete range reads the files date by date and
\* changes nothing.
Replay(a, b) == UNION {{bin[d][n] : n \in Readable(bin[d])} : d \in a..b}

CacheInit ==
    /\ byRange \in BOOLEAN
    /\ pc = "idle"
    /\ published = 0
    /\ bin = [d \in Dates |-> <<>>] /\ complete = {}
    /\ from = 1 /\ to = 1 /\ upto = 0 /\ pos = 0
    /\ checkpoints = NoCheckpoints /\ rangeComplete = TRUE
    /\ before = bin
    /\ todo = {} /\ cleared = {}
    /\ ops = 0
    /\ promised = [d \in Dates |-> {}] /\ held = promised /\ damaged = {}

Publish ==
    /\ published < Len(Provider)
    /\ published' = published + 1
    /\ UNCHANGED <<pc, files, fetch, clear, ops, aux>>

Begin ==
    /\ pc = "idle" /\ ops < MaxOps
    /\ ops' = ops + 1

\* fetch_with_cache or cache build, incomplete range.
BeginFetch(a, b) ==
    /\ Begin /\ ~HasRange(a, b)
    /\ pc' = "fetch"
    /\ from' = a /\ to' = b /\ upto' = published /\ pos' = 0
    /\ checkpoints' = NoCheckpoints /\ rangeComplete' = TRUE
    /\ before' = bin
    /\ UNCHANGED <<published, files, clear, aux>>

IsNext(i) ==
    /\ i \in Sent(from, to, upto) /\ i > pos
    /\ \A j \in Sent(from, to, upto) : j > pos => i <= j

NextRecord(i) == pc = "fetch" /\ IsNext(i) /\ pos' = i

\* checkpoint_nl before the first append to the date's file.
Checkpoint(d) ==
    IF checkpoints[d] # NoCheckpoint THEN checkpoints
    ELSE [checkpoints EXCEPT ![d] = Len(bin[d])]

\* write_nl_record, then the record is yielded.
FetchDated(i) ==
    /\ NextRecord(i)
    /\ LET d == Provider[i].date
       IN /\ d # Undated
          /\ checkpoints' = Checkpoint(d)
          /\ bin' = [bin EXCEPT ![d] = Append(@, i)]
    /\ UNCHANGED <<pc, published, complete, from, to, upto, rangeComplete, before,
                   clear, ops, aux>>

\* A record without a supported date is yielded and not cached.
FetchUndated(i) ==
    /\ NextRecord(i)
    /\ Provider[i].date = Undated
    /\ rangeComplete' = FALSE
    /\ UNCHANGED <<pc, published, files, from, to, upto, checkpoints, before,
                   clear, ops, aux>>

\* One of the windows has no data.
EmptyWindow ==
    /\ pc = "fetch" /\ rangeComplete
    /\ rangeComplete' = FALSE
    /\ UNCHANGED <<pc, published, files, from, to, upto, pos, checkpoints, before,
                   clear, ops, aux>>

\* Mutant: the restore forgets the files of dates outside the range.
MutantRestored(S) ==
    [d \in Dates |-> IF d \in S /\ d \in from..to /\ checkpoints[d] # NoCheckpoint
                       THEN SubSeq(bin[d], 1, checkpoints[d]) ELSE bin[d]]

\* restore_nl of the dates S.
Restored(S) ==
    [d \in Dates |-> IF d \in S /\ checkpoints[d] # NoCheckpoint
                       THEN SubSeq(bin[d], 1, checkpoints[d]) ELSE bin[d]]

Touched == {d \in Dates : checkpoints[d] # NoCheckpoint}

\* The call is over, and its variables are gone.
FetchOver ==
    /\ pc' = "idle"
    /\ from' = 1 /\ to' = 1 /\ upto' = 0 /\ pos' = 0
    /\ checkpoints' = NoCheckpoints /\ rangeComplete' = TRUE
    /\ before' = [d \in Dates |-> <<>>]

ClearOver == pc' = "idle" /\ todo' = {} /\ cleared' = {}

\* The fetch is not marked complete: it failed, was abandoned, or had a gap.
\* A restore that fails (or a crash between two of them) leaves its date.
Rollback(S) ==
    /\ pc = "fetch" /\ S \subseteq Touched
    /\ bin' = Restored(S)
    /\ damaged' = damaged \cup (Touched \ S)
    /\ FetchOver
    /\ UNCHANGED <<published, complete, clear, ops, byRange, promised, held>>

\* The stream is exhausted and had no gap.
Whole ==
    /\ \A i \in Sent(from, to, upto) : i <= pos
    /\ rangeComplete

HasTorn(d) == \E n \in 1..Len(bin[d]) : bin[d][n] = Torn

SentOf(d) == {i \in Sent(from, to, upto) : Provider[i].date = d}

SameKey(i, j) == Provider[i].key = Provider[j].key

\* The last version of each key of date d that the fetch was sent, and what was
\* held of the other keys; where a file was damaged that is not known, and the
\* date starts over.
LastSent(d) == {i \in SentOf(d) : \A j \in SentOf(d) : SameKey(i, j) => j <= i}

HeldAfter(d) ==
    LastSent(d) \cup
        IF d \in damaged /\ d \in from..to THEN {}
        ELSE {i \in held[d] : \A j \in SentOf(d) : ~SameKey(i, j)}

\* mark_nl_range_complete
Finish ==
    /\ pc = "fetch" /\ Whole
    /\ complete' = complete \cup from..to
    /\ promised' = [d \in Dates |-> IF d \in from..to THEN SentOf(d) ELSE promised[d]]
    /\ held' = [d \in Dates |-> HeldAfter(d)]
    /\ damaged' = damaged \ {d \in from..to : ~HasTorn(d)}
    /\ FetchOver
    /\ UNCHANGED <<published, bin, clear, ops, byRange>>

\* The process dies in the middle of a fetch, perhaps while it appends.
CrashFetching(d, torn) ==
    /\ pc = "fetch"
    /\ torn => \E i \in Records : IsNext(i) /\ Provider[i].date = d
    /\ bin' = IF torn THEN [bin EXCEPT ![d] = Append(@, Torn)] ELSE bin
    /\ damaged' = damaged \cup Touched \cup IF torn THEN {d} ELSE {}
    /\ FetchOver
    /\ UNCHANGED <<published, complete, clear, ops, byRange, promised, held>>

\* clear(spec, date) or clear(spec)
BeginClear(D) ==
    /\ Begin
    /\ pc' = "clear" /\ todo' = D /\ cleared' = D
    /\ UNCHANGED <<published, files, fetch, aux>>

ClearFile(d) ==
    /\ pc = "clear" /\ d \in todo
    /\ todo' = todo \ {d}
    /\ bin' = [bin EXCEPT ![d] = <<>>]
    /\ damaged' = damaged \cup {d}
    /\ UNCHANGED <<pc, published, complete, fetch, cleared, ops, byRange, promised, held>>

\* Mutant: the index keeps its mark.
MutantClearIndex ==
    /\ pc = "clear" /\ todo = {}
    /\ ClearOver
    /\ damaged' = damaged \ cleared
    /\ UNCHANGED <<published, files, fetch, ops, byRange, promised, held>>

ClearIndex ==
    /\ pc = "clear" /\ todo = {}
    /\ complete' = complete \ cleared
    /\ damaged' = damaged \ cleared
    /\ promised' = [d \in Dates |-> IF d \in cleared THEN {} ELSE promised[d]]
    /\ held' = [d \in Dates |-> IF d \in cleared THEN {} ELSE held[d]]
    /\ ClearOver
    /\ UNCHANGED <<published, bin, fetch, ops, byRange>>

CrashClearing ==
    /\ pc = "clear"
    /\ ClearOver
    /\ UNCHANGED <<published, files, fetch, ops, aux>>

CacheNext ==
    \/ Publish
    \/ \E a, b \in Dates : a <= b /\ BeginFetch(a, b)
    \/ \E i \in Records : FetchDated(i) \/ FetchUndated(i)
    \/ EmptyWindow
    \/ \E S \in SUBSET Dates : Rollback(S)
    \/ Finish
    \/ \E d \in Dates, torn \in BOOLEAN : CrashFetching(d, torn)
    \/ \E D \in {{d} : d \in Dates} \cup {Dates} : BeginClear(D)
    \/ \E d \in Dates : ClearFile(d)
    \/ ClearIndex \/ CrashClearing

CacheSpec == CacheInit /\ [][CacheNext]_cacheVars

-----------------------------------------------------------------------------

Files == [Dates -> Seq(Records \cup {Torn})]

CacheTypeOK ==
    /\ pc \in {"idle", "fetch", "clear"}
    /\ published \in 0..Len(Provider) /\ upto \in 0..published /\ pos \in 0..upto
    /\ bin \in Files /\ before \in Files
    /\ complete \subseteq Dates /\ todo \subseteq Dates /\ cleared \subseteq Dates
    /\ from \in Dates /\ to \in Dates
    /\ checkpoints \in [Dates -> Nat \cup {NoCheckpoint}]
    /\ rangeComplete \in BOOLEAN
    /\ ops \in Nat
    /\ promised \in [Dates -> SUBSET Records] /\ held \in [Dates -> SUBSET Records]
    /\ damaged \subseteq Dates /\ byRange \in BOOLEAN

\* A running fetch has something to fetch and can be undone: a file is what it
\* was, followed by what the fetch has appended, and its checkpoint is where
\* that begins.
AppendedSinceCheckpoint ==
    pc = "fetch" =>
        /\ ~HasRange(from, to)
        /\ \A d \in Dates :
             IF checkpoints[d] = NoCheckpoint THEN bin[d] = before[d]
             ELSE /\ checkpoints[d] = Len(before[d])
                  /\ checkpoints[d] <= Len(bin[d])
                  /\ before[d] = SubSeq(bin[d], 1, checkpoints[d])

\* The inductive invariant (historical.py:408-418, manager.py:126-149).
CacheInv ==
    /\ CacheTypeOK
    /\ AppendedSinceCheckpoint

\* A fetch that fails, is abandoned or has a gap leaves every file as it was,
\* but those whose restore fails (historical.py:613-628).
FailedFetchLeavesNoTrace ==
    [][pc = "fetch" /\ pc' = "idle" /\ complete' = complete
         => \A d \in Dates \ damaged' : bin'[d] = before[d]]_cacheVars

\* What is read of file s ends with i as the version of its key.
EndsWith(s, i) ==
    \E n \in Readable(s) :
        /\ s[n] = i
        /\ \A m \in Readable(s) : m > n => ~SameKey(s[m], i)

\* For every date the index calls complete, a replay ends, of every key that
\* the fetch that marked it was sent, with the version the last complete fetch
\* to deliver that key delivered, which is what the importer got: whatever
\* fetches of overlapping ranges appended, failed or were rolled back since
\* (manager.py:118-149, historical.py:717-731), except for dates hit by a crash.
\* Where JVOpen takes no end, that is never older than what the date was marked
\* with; where it does (RACE), a clear and a narrower fetch make it older.
CompleteDatesReplay ==
    pc # "fetch" =>
        \A d \in complete \ damaged :
            /\ \A j \in held[d] : EndsWith(bin[d], j)
            /\ \A i \in promised[d] :
                 \E j \in held[d] : SameKey(i, j) /\ (~byRange => j >= i)

\* Why that holds: only a crash tears a file; a promise is about records of
\* its date that were published when the running fetch began; that fetch has
\* appended to each file what it was sent of its date, in order, behind files
\* that end as they should; and a clear has emptied what it is done with.
WholeFiles == \A d \in Dates \ damaged : ~HasTorn(d)

PromisesArePublished ==
    \A d \in Dates : \A i \in promised[d] :
        /\ Provider[i].date = d /\ i <= published
        /\ pc = "fetch" => i <= upto

PromisesHeld ==
    \A d \in Dates : \A i \in promised[d] :
        \E j \in held[d] : SameKey(i, j) /\ (~byRange => j >= i)

\* Behind position b, file s holds the records of D up to p, in order.
InOrder(s, b, D, p) ==
    /\ \A n \in b + 1 .. Len(s) : s[n] \in D /\ s[n] <= p
    /\ \A n, m \in b + 1 .. Len(s) : n < m => s[n] < s[m]
    /\ \A i \in D : i <= p => \E n \in b + 1 .. Len(s) : s[n] = i

AppendedInOrder ==
    pc = "fetch" => \A d \in Dates : InOrder(bin[d], Len(before[d]), SentOf(d), pos)

FilesEndAsHeld ==
    \A d \in Dates \ damaged : \A j \in held[d] :
        EndsWith(IF pc = "fetch" THEN before[d] ELSE bin[d], j)

ClearedAreEmpty == pc = "clear" => \A d \in cleared \ todo : bin[d] = <<>>

ReplayInv ==
    /\ WholeFiles /\ PromisesArePublished /\ PromisesHeld
    /\ AppendedInOrder /\ FilesEndAsHeld
    /\ ClearedAreEmpty

=============================================================================
