-------------------------- MODULE PersistenceProofs -------------------------
(***************************************************************************)
(* Proofs about what is kept: the cache (NlCache) for any dates, provider  *)
(* and number of operations, and the database (ImportTxn) for any streams, *)
(* tables, batch sizes and commit intervals.                               *)
(*                                                                         *)
(* Of the import: reading a set of records in stream order composes        *)
(* (ContentCompose) as long as what is applied later comes later in the    *)
(* stream for every row both write, and the buffers keep that order        *)
(* (BufferOrder) because an erase or snapshot first flushes its table.     *)
(*                                                                         *)
(* Of the cache: a fetch that does not end in a complete mark leaves every *)
(* file as it was, because its checkpoints mark where it began to append.  *)
(* And a complete date replays, of every key, what the last complete fetch *)
(* to deliver it delivered: a fetch appends what it is sent in order, and  *)
(* the last version of a key in a file is the last the fetch was sent.     *)
(* Where JVOpen takes no end that is never older than what the date was    *)
(* marked with, since a fetch from a day on is sent all that followed.     *)
(***************************************************************************)
EXTENDS ImportTxn, NlCache, SequenceTheorems, WellFoundedInduction, TLAPS

---------------------------------------------------------------------------
(* ImportTxn. *)

\* A non-empty set of natural numbers has a smallest one.
LEMMA LeastExists ==
  ASSUME NEW S, S \subseteq Nat, S # {}
  PROVE  \E i \in S : \A j \in S : i <= j
  <1> DEFINE R == OpToRel(<, Nat)
  <1>1. IsWellFoundedOn(R, Nat)
    BY NatLessThanWellFounded
  <1>2. \A x, y \in Nat : <<y, x>> \in R <=> y < x
    BY DEF OpToRel
  <1> HIDE DEF R
  <1>3. \E x \in S : \A y \in S : ~ (<<y, x>> \in R)
    BY <1>1, WFMin
  <1>4. PICK x \in S : \A y \in S : ~ (<<y, x>> \in R)
    BY <1>3
  <1>5. \A y \in S : ~ (y < x)
    BY <1>2, <1>4
  <1>6. QED  BY <1>5


\* A bounded one has a greatest, and Last finds it.
LEMMA LastIsGreatest ==
  ASSUME NEW n \in Nat, NEW S, S \subseteq 1..n, S # {}
  PROVE  Last(S) \in S /\ \A j \in S : j <= Last(S)
  <1> DEFINE T == {n - i : i \in S}
  <1>1. T \subseteq Nat /\ T # {}
    <2>1. \A i \in S : n - i \in Nat
      OBVIOUS
    <2>2. PICK i \in S : TRUE
      OBVIOUS
    <2>3. n - i \in T
      OBVIOUS
    <2>4. QED  BY <2>1, <2>3
  <1>2. PICK t \in T : \A u \in T : t <= u
    BY <1>1, LeastExists
  <1>3. PICK m \in S : t = n - m
    OBVIOUS
  <1>4. \A j \in S : j <= m
    <2>1. SUFFICES ASSUME NEW j \in S PROVE j <= m
      OBVIOUS
    <2>2. n - m <= n - j
      BY <1>2, <1>3
    <2>3. m \in 1..n /\ j \in 1..n
      OBVIOUS
    <2>4. QED  BY ONLY <2>2, <2>3, n \in Nat
  <1>5. QED  BY <1>4 DEF Last

\* The greatest element is unique.
LEMMA LastIsUnique ==
  ASSUME NEW S, S \subseteq Nat, NEW m \in S, \A j \in S : j <= m
  PROVE  Last(S) = m
  <1>1. \E i \in S : \A j \in S : j <= i
    OBVIOUS
  <1>2. Last(S) \in S /\ \A j \in S : j <= Last(S)
    BY <1>1 DEF Last
  <1>3. m <= Last(S) /\ Last(S) <= m /\ m \in Nat /\ Last(S) \in Nat
    BY <1>2
  <1>4. QED  BY <1>3

\* Reading nothing changes nothing.
LEMMA ContentOfNothing ==
  ASSUME NEW b \in Rows, NEW s \in Specs, NEW S,
         \A i \in S : DOMAIN Stream[s][i].write = {}
  PROVE  Content(b, s, S) = b
  <1>1. \A l \in Locs : Writers(s, S, l) = {}
    BY DEF Writers
  <1>2. Content(b, s, S) = [l \in Locs |-> b[l]]
    BY <1>1 DEF Content
  <1>3. QED  BY <1>2 DEF Rows

\* Of two records that write the same row, one in A and one in B, the latter
\* is not the earlier.
Later(s, A, B) ==
    \A l \in Locs : \A i \in Writers(s, A, l), j \in Writers(s, B, l) : i <= j

\* Reading A and then B is reading both at once, when of two records that
\* write the same row the one in B is the later.
LEMMA ContentCompose ==
  ASSUME NEW b, NEW s \in Specs,
         NEW A \in SUBSET (1..Len(Stream[s])), NEW B \in SUBSET (1..Len(Stream[s])),
         Later(s, A, B)
  PROVE  Content(Content(b, s, A), s, B) = Content(b, s, A \cup B)
  <1> DEFINE n == Len(Stream[s])
  <1>0. n \in Nat
    BY StreamsAreTyped
  <1>1. ASSUME NEW l \in Locs
        PROVE  Content(Content(b, s, A), s, B)[l] = Content(b, s, A \cup B)[l]
    <2>1. Writers(s, A \cup B, l) = Writers(s, A, l) \cup Writers(s, B, l)
      BY DEF Writers
    <2>2. CASE Writers(s, B, l) = {}
      BY <2>1, <2>2 DEF Content
    <2>3. CASE Writers(s, B, l) # {}
      <3> DEFINE m == Last(Writers(s, B, l))
      <3>1. Writers(s, B, l) \subseteq 1..n /\ Writers(s, A, l) \subseteq 1..n
        BY DEF Writers
      <3>2. m \in Writers(s, B, l) /\ \A j \in Writers(s, B, l) : j <= m
        BY <1>0, <2>3, <3>1, LastIsGreatest
      <3>3. \A j \in Writers(s, A \cup B, l) : j <= m
        BY <2>1, <3>2 DEF Later
      <3>4. m \in Writers(s, A \cup B, l) /\ Writers(s, A \cup B, l) \subseteq Nat
        <4>1. 1..n \subseteq Nat
          BY <1>0
        <4> HIDE DEF n
        <4>2. QED  BY <4>1, <2>1, <3>1, <3>2
      <3>5. Last(Writers(s, A \cup B, l)) = m
        BY <3>3, <3>4, LastIsUnique
      <3>6. QED  BY <2>3, <3>4, <3>5 DEF Content
    <2>4. QED  BY <2>2, <2>3
  <1>2. QED  BY <1>1 DEF Content

-----------------------------------------------------------------------------

\* What the assumption on streams says of one record.
LEMMA RecordFacts ==
  ASSUME NEW s \in Specs, NEW i \in 1..Len(Stream[s])
  PROVE  /\ Stream[s][i].kind \in Kinds /\ Stream[s][i].table \in Tables
         /\ \A l \in Locs : l \in DOMAIN Stream[s][i].write =>
              l[1] = Stream[s][i].table /\ Stream[s][i].write[l] \in Values
         /\ Stream[s][i].kind \notin {"row", "direct"} =>
              DOMAIN Stream[s][i].write = {}
  BY StreamsAreTyped DEF Record, Locs

\* Rows stay rows.
LEMMA ContentTyped ==
  ASSUME NEW b \in Rows, NEW s \in Specs, NEW S, S \subseteq 1..Len(Stream[s])
  PROVE  Content(b, s, S) \in Rows
  <1>1. Len(Stream[s]) \in Nat
    BY StreamsAreTyped
  <1>2. ASSUME NEW l \in Locs, Writers(s, S, l) # {}
        PROVE  Stream[s][Last(Writers(s, S, l))].write[l] \in Values
    <2>1. Last(Writers(s, S, l)) \in Writers(s, S, l)
      BY <1>1, <1>2, LastIsGreatest DEF Writers
    <2>2. QED  BY <2>1, RecordFacts DEF Writers
  <1>3. \A l \in Locs : b[l] \in Values
    BY DEF Rows
  <1>4. QED  BY <1>2, <1>3 DEF Content, Rows

\* Writing the buffer of a table, with the next record if it is of the same
\* table, gives the rows of everything read but what the other buffers hold.
LEMMA FlushInOrder ==
  ASSUME ImportInv, phase = "import", NEW t \in Tables, NEW B,
         B = buffer[t] \/ ( /\ B = buffer[t] \cup {idx + 1}
                            /\ idx < Total /\ Rec(idx + 1).table = t )
  PROVE  Content(working, spec, B) = Content(base, spec, ((1..idx) \ Pending) \cup B)
  <1> DEFINE A == (1..idx) \ Pending
  <1>1. /\ spec \in Specs /\ Total \in Nat /\ idx \in Nat /\ idx <= Total
        /\ A \subseteq 1..Total /\ buffer[t] \subseteq 1..idx /\ B \subseteq 1..Total
    BY StreamsAreTyped DEF ImportInv, TypeOK, Total
  <1>2. working = Content(base, spec, A)
    BY DEF ImportInv, WorkingPrefix
  <1>3. ASSUME NEW l \in Locs, NEW i \in Writers(spec, A, l), NEW j \in Writers(spec, B, l)
        PROVE  i <= j
    <2>1. /\ i \in A /\ j \in B
          /\ Rec(i).table = l[1] /\ Rec(j).table = l[1]
          /\ Rec(i).kind \in {"row", "direct"}
      BY <1>1, RecordFacts DEF Writers, Rec, Total
    <2>2. Rec(j).table = t
      BY <2>1 DEF ImportInv, BufferOrder
    <2>3. i \in 1..idx /\ i \notin buffer[t]
      BY <2>1 DEF Pending
    <2>4. CASE j \in buffer[t]
      <3>1. i < j
        BY <2>1, <2>2, <2>3, <2>4 DEF ImportInv, BufferOrder
      <3>2. QED  BY <3>1, <1>1, <2>3, <2>4
    <2>5. CASE j = idx + 1
      BY <2>3, <2>5, <1>1
    <2>6. QED  BY <2>1, <2>4, <2>5
  <1>4. Content(Content(base, spec, A), spec, B) = Content(base, spec, A \cup B)
    <2>1. Later(spec, A, B)
      BY <1>3 DEF Later
    <2> HIDE DEF A
    <2>2. QED  BY <1>1, <2>1, ContentCompose DEF Total
  <1>5. QED  BY <1>2, <1>4

\* Buffers of two tables are disjoint, so emptying one leaves the others.
LEMMA PendingAfterFlush ==
  ASSUME ImportInv, NEW t \in Tables, buffer' = [buffer EXCEPT ![t] = {}]
  PROVE  Pending' = Pending \ buffer[t]
  <1>1. \A u \in Tables : buffer'[u] = IF u = t THEN {} ELSE buffer[u]
    BY DEF ImportInv, TypeOK
  <1>2. \A u \in Tables : \A i \in buffer[u] : i \in buffer[t] => u = t
    BY DEF ImportInv, BufferOrder
  <1>3. QED  BY <1>1, <1>2 DEF Pending

-----------------------------------------------------------------------------

\* The run starts in a state of the inductive invariant.
LEMMA InitImportInv == Init => ImportInv
  <1> SUFFICES ASSUME Init PROVE ImportInv
    OBVIOUS
  <1> USE DEF Init
  <1>1. Total \in Nat /\ committed \in Rows
    BY StreamsAreTyped, NoRowIsAValue DEF Total, Rows
  <1>2. TypeOK
    <2>1. 0 \in 0..Total /\ buffer \in [Tables -> SUBSET (1..idx)]
      BY <1>1 DEF NoBuffers
    <2>2. base \in Rows /\ working \in Rows
      BY <1>1
    <2>3. /\ groupEnd \in 0..Total /\ idx \in 0..groupEnd /\ durable \in 0..idx
          /\ rejected \subseteq 1..idx /\ run \in Nat
      BY <2>1
    <2>4. active \in BOOLEAN /\ poisoned \in BOOLEAN /\ split \in BOOLEAN
      OBVIOUS
    <2>5. phase \in {"group", "import", "abort"} \cup Resting
      BY DEF Resting
    <2>6. QED  BY <1>1, <2>1, <2>2, <2>3, <2>4, <2>5, Zenon DEF TypeOK
  <1>3. CommittedPrefix
    <2>1. 1..0 = {}
      OBVIOUS
    <2>2. committed = Content(base, spec, {})
      BY <1>1, ContentOfNothing
    <2>3. Rejects(spec, {}) = {}
      BY DEF Rejects
    <2>4. QED  BY <2>1, <2>2, <2>3 DEF CommittedPrefix
  <1>4. BufferOrder /\ WorkingPrefix /\ GroupClosed
    BY DEF BufferOrder, WorkingPrefix, GroupClosed, NoBuffers, Resting
  <1>5. QED  BY <1>2, <1>3, <1>4 DEF ImportInv

\* Taking the next record of the group.
LEMMA TakeFacts ==
  ASSUME ImportInv, NEW kinds, Take(kinds)
  PROVE  /\ phase = "import" /\ idx' = idx + 1
         /\ idx \in Nat /\ Total \in Nat /\ groupEnd \in Nat /\ durable \in Nat
         /\ durable <= idx /\ idx < groupEnd /\ groupEnd <= Total
         /\ Rec(idx + 1).kind \in kinds /\ Rec(idx + 1).table \in Tables
         /\ 1..(idx + 1) = (1..idx) \cup {idx + 1}
         /\ idx + 1 \notin 1..idx
         /\ Pending \subseteq 1..idx
  <1>1. /\ phase = "import" /\ idx' = idx + 1 /\ idx < groupEnd
        /\ Rec(idx + 1).kind \in kinds
    BY DEF Take
  <1>2. /\ idx \in Nat /\ Total \in Nat /\ groupEnd \in Nat /\ durable \in Nat
        /\ durable <= idx /\ groupEnd <= Total /\ spec \in Specs
    BY StreamsAreTyped DEF ImportInv, TypeOK, Total
  <1>3. Rec(idx + 1).table \in Tables
    BY <1>1, <1>2, RecordFacts DEF Rec, Total
  <1>4. 1..(idx + 1) = (1..idx) \cup {idx + 1} /\ idx + 1 \notin 1..idx
    BY <1>2
  <1>5. Pending \subseteq 1..idx
    BY DEF Pending, ImportInv, TypeOK
  <1>6. QED  BY <1>1, <1>2, <1>3, <1>4, <1>5

\* A flush writes rows and rejects only records it flushes.
LEMMA WriteTyped ==
  ASSUME ImportInv, NEW B \in SUBSET (1..Total), NEW D \in SUBSET (1..Total), Write(B, D)
  PROVE  working' \in Rows /\ rejected' \subseteq rejected \cup B
  <1>1. working \in Rows /\ spec \in Specs
    BY DEF ImportInv, TypeOK
  <1>2. Content(working, spec, B) \in Rows
    BY <1>1, ContentTyped DEF Total
  <1>3. Content(Content(working, spec, B), spec, D) \in Rows
    BY <1>1, <1>2, ContentTyped DEF Total
  <1>4. QED  BY <1>3 DEF Write

\* Every step keeps the variables in their types.
LEMMA StepTypeOK == ImportInv /\ [Next]_vars => TypeOK'
  <1> SUFFICES ASSUME ImportInv, [Next]_vars PROVE TypeOK'
    OBVIOUS
  <1>0. TypeOK /\ Total \in Nat
    BY StreamsAreTyped DEF ImportInv, TypeOK, Total
  <1>1. ASSUME NEW s \in Specs, NEW p \in BOOLEAN, StartRun(s, p) PROVE TypeOK'
    <2> USE <1>0, <1>1 DEF StartRun, TypeOK
    <2>1. Total' \in Nat
      BY StreamsAreTyped DEF Total
    <2>2. groupEnd' \in 0..Total' /\ idx' \in 0..groupEnd' /\ durable' \in 0..idx'
      BY <2>1
    <2>3. buffer' \in [Tables -> SUBSET (1..idx')] /\ rejected' \subseteq 1..idx'
      <3>1. buffer = NoBuffers /\ rejected = {}
        BY DEF ImportInv, GroupClosed
      <3>2. QED  BY <3>1 DEF NoBuffers
    <2>4. QED
      BY <2>2, <2>3 DEF conn, Resting
  <1>2. CASE NextGroup
    <2> USE <1>0, <1>2 DEF NextGroup, TypeOK, run_, store
    <2>1. Total' = Total /\ groupEnd' \in 0..Total /\ groupEnd <= groupEnd'
      BY SizesArePositive DEF Total
    <2>2. buffer' \in [Tables -> SUBSET (1..idx')] /\ rejected' \subseteq 1..idx'
      BY DEF NoBuffers
    <2>3. idx' \in 0..groupEnd' /\ durable' \in 0..idx'
      BY <2>1
    <2>4. phase' \in {"group", "import", "abort"} \cup Resting /\ active' \in BOOLEAN
      OBVIOUS
    <2>5. QED  BY <2>1, <2>2, <2>3, <2>4, Zenon
  <1>3. CASE BufferRow
    <2>1. Take({"row", "nokey"})
      BY <1>3 DEF BufferRow
    <2> DEFINE t == Rec(idx + 1).table
               B == buffer[t] \cup {idx + 1}
    <2>2. /\ t \in Tables /\ B \subseteq 1..(idx + 1) /\ B \subseteq 1..Total
          /\ idx' \in 0..groupEnd /\ durable \in 0..idx' /\ 1..idx \subseteq 1..idx'
          /\ idx' = idx + 1
      BY <1>0, <2>1, TakeFacts DEF TypeOK
    <2>3. \/ buffer' = [buffer EXCEPT ![t] = B] /\ UNCHANGED <<working, rejected>>
          \/ buffer' = [buffer EXCEPT ![t] = {}] /\ Write(B, {})
      BY <1>3, <2>2 DEF BufferRow
    <2>4. UNCHANGED <<phase, run_, groupEnd, active, poisoned, store>>
      BY <1>3 DEF BufferRow
    <2> HIDE DEF t, B
    <2>5. buffer' \in [Tables -> SUBSET (1..idx')]
      BY <1>0, <2>2, <2>3 DEF TypeOK
    <2>6. working' \in Rows /\ rejected' \subseteq 1..idx'
      BY <1>0, <2>2, <2>3, WriteTyped DEF TypeOK
    <2>7. Total' = Total
      BY <2>4 DEF Total, run_
    <2>8. QED  BY <1>0, <2>2, <2>4, <2>5, <2>6, <2>7, Zenon DEF TypeOK, run_, store
  <1>4. CASE ImportDirect
    <2>1. Take({"direct"})
      BY <1>4 DEF ImportDirect
    <2> DEFINE t == Rec(idx + 1).table
    <2>2. /\ t \in Tables /\ buffer[t] \subseteq 1..Total /\ {idx + 1} \subseteq 1..Total
          /\ idx' \in 0..groupEnd /\ durable \in 0..idx' /\ 1..idx \subseteq 1..idx'
          /\ idx' = idx + 1
      BY <1>0, <2>1, TakeFacts DEF TypeOK
    <2>3. /\ Write(buffer[t], {idx + 1})
          /\ buffer' = [buffer EXCEPT ![t] = {}]
      BY <1>4, <2>2 DEF ImportDirect
    <2>4. UNCHANGED <<phase, run_, groupEnd, active, poisoned, store>>
      BY <1>4 DEF ImportDirect
    <2> HIDE DEF t
    <2>5. buffer' \in [Tables -> SUBSET (1..idx')]
      BY <1>0, <2>2, <2>3 DEF TypeOK
    <2>6. working' \in Rows /\ rejected' \subseteq 1..idx'
      BY <1>0, <2>2, <2>3, WriteTyped DEF TypeOK
    <2>7. Total' = Total
      BY <2>4 DEF Total, run_
    <2>8. QED  BY <1>0, <2>2, <2>4, <2>5, <2>6, <2>7, Zenon DEF TypeOK, run_, store
  <1>5. ASSUME NEW t \in Tables, FlushRest(t) PROVE TypeOK'
    <2>1. /\ Write(buffer[t], {}) /\ buffer' = [buffer EXCEPT ![t] = {}]
          /\ UNCHANGED <<phase, run_, idx, groupEnd, active, poisoned, store>>
      BY <1>5 DEF FlushRest
    <2>2. buffer[t] \subseteq 1..Total
      BY <1>0 DEF TypeOK
    <2>3. buffer' \in [Tables -> SUBSET (1..idx')]
      BY <1>0, <2>1 DEF TypeOK
    <2>4. working' \in Rows /\ rejected' \subseteq 1..idx'
      BY <1>0, <2>1, <2>2, WriteTyped DEF TypeOK
    <2>5. Total' = Total
      BY <2>1 DEF Total, run_
    <2>6. QED  BY <1>0, <2>1, <2>3, <2>4, <2>5, Zenon DEF TypeOK, run_, store
  <1>6. CASE SkipUnknown \/ SkipFollower \/ ImportInvalid
    <2>1. PICK kinds : Take(kinds)
      BY <1>6 DEF SkipUnknown, SkipFollower, ImportInvalid
    <2>2. /\ idx' \in 0..groupEnd /\ durable \in 0..idx' /\ 1..idx \subseteq 1..idx'
          /\ idx' \in 1..idx'
      BY <1>0, <2>1, TakeFacts DEF TypeOK
    <2>3. /\ UNCHANGED <<run_, groupEnd, buffer, conn, store>>
          /\ rejected' \subseteq rejected \cup {idx'}
          /\ phase' \in {phase, "abort"}
      BY <1>6 DEF SkipUnknown, SkipFollower, ImportInvalid
    <2>4. buffer' \in [Tables -> SUBSET (1..idx')] /\ rejected' \subseteq 1..idx'
      BY <1>0, <2>2, <2>3 DEF TypeOK
    <2>5. Total' = Total
      BY <2>3 DEF Total, run_
    <2>6. QED  BY <1>0, <2>2, <2>3, <2>4, <2>5, Zenon DEF TypeOK, run_, store, conn
  <1>7. CASE FetchFails \/ WriteFails \/ RejectGroup
    <2>1. /\ UNCHANGED <<run_, idx, groupEnd, buffer, rejected, store>>
          /\ working' \in {working, committed}
          /\ active' \in {active, FALSE} /\ poisoned' \in {poisoned, TRUE}
          /\ phase' = "abort"
      BY <1>7 DEF FetchFails, WriteFails, RejectGroup, StatementFails, conn
    <2>2. Total' = Total
      BY <2>1 DEF Total, run_
    <2>3. QED  BY <1>0, <2>1, <2>2, Zenon DEF TypeOK, run_, store
  <1>8. CASE CommitGroup \/ CommitFails
    <2>1. /\ UNCHANGED <<run_, idx, groupEnd, buffer, rejected, working, poisoned>>
          /\ \/ UNCHANGED store
             \/ committed' = working /\ durable' = idx
          /\ active' \in {active, FALSE}
          /\ phase' \in {"done", "group", "abort"}
      BY <1>8 DEF CommitGroup, CommitFails, conn
    <2>2. Total' = Total
      BY <2>1 DEF Total, run_
    <2>3. durable' \in 0..idx'
      BY <1>0, <2>1 DEF TypeOK, store
    <2>4. QED  BY <1>0, <2>1, <2>2, <2>3, Zenon DEF TypeOK, run_, store, Resting
  <1>9. CASE Abort \/ Crash
    <2>1. /\ UNCHANGED <<run_, idx, groupEnd, store>>
          /\ working' = committed /\ active' = FALSE /\ poisoned' = FALSE
          /\ buffer' = NoBuffers /\ rejected' = {} /\ phase' = "failed"
      BY <1>9 DEF Abort, Crash
    <2>2. Total' = Total
      BY <2>1 DEF Total, run_
    <2>3. buffer' \in [Tables -> SUBSET (1..idx')]
      BY <2>1 DEF NoBuffers
    <2>4. QED  BY <1>0, <2>1, <2>2, <2>3, Zenon DEF TypeOK, run_, store, Resting
  <1>10. CASE UNCHANGED vars
    BY <1>0, <1>10, Zenon DEF vars, run_, conn, store, TypeOK, Total
  <1>11. QED
    BY <1>1, <1>2, <1>3, <1>4, <1>5, <1>6, <1>7, <1>8, <1>9, <1>10 DEF Next

\* A group is complete when everything up to its last record has been written.
LEMMA ImportedFacts ==
  ASSUME ImportInv, Imported, Accepted
  PROVE  /\ idx = groupEnd /\ idx \in CommitPoints(spec, split)
         /\ working = Content(base, spec, 1..idx) /\ Rejects(spec, 1..idx) = {}
         /\ buffer = NoBuffers /\ rejected = {} /\ ~poisoned
         /\ phase = "import" /\ durable \in Nat /\ idx \in Nat /\ Total \in Nat
  <1>1. phase = "import" /\ idx = groupEnd /\ Pending = {} /\ rejected = {}
    BY DEF Imported, Accepted
  <1>2. (1..idx) \ Pending = 1..idx
    BY <1>1
  <1>3. /\ working = Content(base, spec, 1..idx) /\ rejected = Rejects(spec, 1..idx)
        /\ ~poisoned
    BY <1>1, <1>2 DEF ImportInv, WorkingPrefix
  <1>4. groupEnd \in CommitPoints(spec, split)
    BY <1>1 DEF ImportInv, GroupClosed
  <1>5. buffer = NoBuffers
    BY <1>1 DEF Pending, NoBuffers, ImportInv, TypeOK
  <1>6. durable \in Nat /\ idx \in Nat /\ Total \in Nat
    BY StreamsAreTyped DEF ImportInv, TypeOK, Total
  <1>7. QED  BY <1>1, <1>3, <1>4, <1>5, <1>6

\* What the database has changes only at a commit, by a whole group.
LEMMA StepCommittedPrefix == ImportInv /\ [Next]_vars => CommittedPrefix'
  <1> SUFFICES ASSUME ImportInv, [Next]_vars PROVE CommittedPrefix'
    OBVIOUS
  <1>1. ASSUME NEW s \in Specs, NEW p \in BOOLEAN, StartRun(s, p) PROVE CommittedPrefix'
    <2>1. /\ committed' = committed /\ base' = committed /\ durable' = 0 /\ spec' = s
          /\ committed \in Rows
      BY <1>1 DEF StartRun, ImportInv, TypeOK
    <2>2. 1..0 = {} /\ Rejects(s, {}) = {}
      BY DEF Rejects
    <2>3. Content(committed, s, {}) = committed
      BY <2>1, ContentOfNothing
    <2>4. QED  BY <2>1, <2>2, <2>3 DEF CommittedPrefix
  <1>2. CASE committed' = working /\ durable' = idx /\ UNCHANGED run_
             /\ Imported /\ Accepted
    <2>1. /\ idx \in CommitPoints(spec, split)
          /\ working = Content(base, spec, 1..idx) /\ Rejects(spec, 1..idx) = {}
      BY <1>2, ImportedFacts
    <2>2. QED  BY <1>2, <2>1 DEF CommittedPrefix, run_
  <1>3. CASE UNCHANGED <<run_, store>>
    BY <1>3 DEF CommittedPrefix, ImportInv, run_, store
  <1>4. CASE UNCHANGED vars
    BY <1>3, <1>4 DEF vars
  <1>5. CASE CommitGroup \/ CommitFails
    BY <1>2, <1>3, <1>5 DEF CommitGroup, CommitFails
  <1>6. CASE NextGroup \/ FetchFails \/ ImportInvalid \/ SkipUnknown \/ SkipFollower
             \/ BufferRow \/ ImportDirect \/ WriteFails \/ RejectGroup \/ Abort \/ Crash
    BY <1>3, <1>6 DEF NextGroup, FetchFails, ImportInvalid, SkipUnknown, SkipFollower,
       BufferRow, ImportDirect, WriteFails, RejectGroup, Abort, Crash
  <1>7. ASSUME NEW t \in Tables, FlushRest(t) PROVE CommittedPrefix'
    BY <1>3, <1>7 DEF FlushRest
  <1>8. QED
    BY <1>1, <1>4, <1>5, <1>6, <1>7 DEF Next

\* Nothing is buffered.
LEMMA NoBufferOrder == ASSUME buffer' = NoBuffers PROVE BufferOrder'
  BY DEF BufferOrder, NoBuffers

\* Buffers only lose records, or gain the one just taken.
LEMMA StepBufferOrder == ImportInv /\ [Next]_vars => BufferOrder'
  <1> SUFFICES ASSUME ImportInv, [Next]_vars PROVE BufferOrder'
    OBVIOUS
  <1>1. ASSUME NEW kinds, Take(kinds),
               UNCHANGED <<spec, durable>>,
               NEW t \in Tables, t = Rec(idx + 1).table,
               \/ buffer' = [buffer EXCEPT ![t] = {}]
               \/ buffer' = [buffer EXCEPT ![t] = buffer[t] \cup {idx + 1}]
                  /\ kinds = {"row", "nokey"}
               \/ buffer' = buffer /\ kinds \cap {"row", "nokey", "direct"} = {}
        PROVE  BufferOrder'
    <2>1. /\ idx' = idx + 1 /\ idx \in Nat /\ durable \in Nat /\ durable <= idx
          /\ Rec(idx + 1).kind \in kinds /\ 1..(idx + 1) = (1..idx) \cup {idx + 1}
          /\ Rec(idx + 1).table = t
      BY <1>1, TakeFacts
    <2>2. \A i : Rec(i)' = Rec(i)
      BY <1>1 DEF Rec
    <2> SUFFICES ASSUME NEW u \in Tables, NEW i \in buffer'[u]
                 PROVE  /\ i > durable /\ Rec(i).table = u
                        /\ Rec(i).kind \in {"row", "nokey"}
                        /\ \A j \in 1..(idx + 1) :
                             /\ Rec(j).table = u /\ j \notin buffer'[u]
                             /\ Rec(j).kind \in {"row", "nokey", "direct"}
                             => j < i
      BY <1>1, <2>1, <2>2 DEF BufferOrder
    <2>3. buffer \in [Tables -> SUBSET (1..idx)]
      BY DEF ImportInv, TypeOK
    <2>4. \/ i \in buffer[u]
          \/ i = idx + 1 /\ u = t /\ kinds = {"row", "nokey"}
      BY <1>1, <2>3
    <2>5. ASSUME i = idx + 1, u = t, kinds = {"row", "nokey"},
                 NEW j \in 1..(idx + 1), j \notin buffer'[u]
          PROVE  j < i
      <3>1. j \in 1..idx
        BY <2>1, <2>5
      <3>2. QED  BY <2>1, <2>5, <3>1
    <2>6. CASE i \in buffer[u]
      <3>1. /\ i > durable /\ Rec(i).table = u /\ Rec(i).kind \in {"row", "nokey"}
            /\ \A j \in 1..idx : /\ Rec(j).table = u /\ j \notin buffer[u]
                                /\ Rec(j).kind \in {"row", "nokey", "direct"}
                                => j < i
        BY <2>6 DEF ImportInv, BufferOrder
      <3>2. ASSUME NEW j \in 1..(idx + 1), Rec(j).table = u, j \notin buffer'[u],
                   Rec(j).kind \in {"row", "nokey", "direct"}
            PROVE  j < i
        <4>1. CASE j = idx + 1
          <5>1. u = t
            BY <2>1, <3>2, <4>1
          <5>2. QED  BY <1>1, <2>1, <2>3, <2>6, <3>2, <4>1, <5>1
        <4>2. CASE j \in 1..idx /\ j \notin buffer[u]
          BY <3>1, <3>2, <4>2
        <4>3. CASE j \in 1..idx /\ j \in buffer[u]
          <5>1. buffer' = [buffer EXCEPT ![t] = {}] /\ u = t
            BY <1>1, <2>3, <3>2, <4>3
          <5>2. QED  BY <5>1, <2>3
        <4>4. QED  BY <2>1, <3>2, <4>1, <4>2, <4>3
      <3>3. QED  BY <3>1, <3>2
    <2>7. CASE i = idx + 1 /\ u = t /\ kinds = {"row", "nokey"}
      <3>1. i > durable
        BY <2>1, <2>7
      <3>2. QED  BY <2>1, <2>5, <2>7, <3>1
    <2>8. QED  BY <2>4, <2>6, <2>7
  <1>2. CASE BufferRow
    <2>1. Take({"row", "nokey"}) /\ UNCHANGED <<spec, durable>>
      BY <1>2 DEF BufferRow, run_, store
    <2>2. idx' = idx + 1 /\ Rec(idx + 1).table \in Tables
      BY <2>1, TakeFacts
    <2> DEFINE t == Rec(idx + 1).table
    <2>3. \/ buffer' = [buffer EXCEPT ![t] = {}]
          \/ buffer' = [buffer EXCEPT ![t] = buffer[t] \cup {idx + 1}]
      <3>1. Rec(idx') = Rec(idx + 1)
        BY <2>2
      <3>2. QED  BY <1>2, <2>2, <3>1 DEF BufferRow
    <2>4. QED  BY <1>1, <2>1, <2>2, <2>3
  <1>3. CASE ImportDirect
    <2>1. Take({"direct"}) /\ UNCHANGED <<spec, durable>>
      BY <1>3 DEF ImportDirect, run_, store
    <2>2. idx' = idx + 1 /\ Rec(idx + 1).table \in Tables
      BY <2>1, TakeFacts
    <2>3. buffer' = [buffer EXCEPT ![Rec(idx + 1).table] = {}]
      BY <1>3, <2>2 DEF ImportDirect
    <2>4. QED  BY <1>1, <2>1, <2>2, <2>3
  <1>4. CASE SkipUnknown \/ SkipFollower \/ ImportInvalid
    <2>1. PICK kinds : /\ Take(kinds)
                       /\ kinds \cap {"row", "nokey", "direct"} = {}
      BY <1>4 DEF SkipUnknown, SkipFollower, ImportInvalid
    <2>2. buffer' = buffer /\ UNCHANGED <<spec, durable>>
      BY <1>4 DEF SkipUnknown, SkipFollower, ImportInvalid, run_, store
    <2>3. Rec(idx + 1).table \in Tables
      BY <2>1, TakeFacts
    <2>4. QED  BY <1>1, <2>1, <2>2, <2>3
  <1>5. ASSUME NEW t \in Tables, FlushRest(t) PROVE BufferOrder'
    <2>1. /\ buffer' = [buffer EXCEPT ![t] = {}] /\ UNCHANGED <<spec, idx, durable>>
          /\ idx = groupEnd
      BY <1>5 DEF FlushRest, run_, store
    <2>2. \A u \in Tables : buffer'[u] = IF u = t THEN {} ELSE buffer[u]
      BY <2>1 DEF ImportInv, TypeOK
    <2>3. QED  BY <2>1, <2>2 DEF BufferOrder, ImportInv, Rec
  <1>6. CASE CommitGroup \/ CommitFails
    <2>1. Imported /\ Accepted /\ buffer' = buffer
      BY <1>6 DEF CommitGroup, CommitFails
    <2>2. QED  BY <2>1, ImportedFacts, NoBufferOrder
  <1>7. ASSUME NEW s \in Specs, NEW p \in BOOLEAN, StartRun(s, p) PROVE BufferOrder'
    BY <1>7, NoBufferOrder DEF StartRun, ImportInv, GroupClosed
  <1>8. CASE NextGroup \/ Abort \/ Crash
    BY <1>8, NoBufferOrder DEF NextGroup, Abort, Crash
  <1>9. CASE FetchFails \/ WriteFails \/ RejectGroup \/ UNCHANGED vars
    <2>1. UNCHANGED <<spec, idx, durable, buffer>>
      BY <1>9 DEF FetchFails, WriteFails, RejectGroup, run_, store, vars
    <2>2. QED  BY <2>1 DEF ImportInv, BufferOrder, Rec
  <1>10. QED
    BY <1>2, <1>3, <1>4, <1>5, <1>6, <1>7, <1>8, <1>9 DEF Next

\* Writing a table's buffer brings the connection up to date with its table,
\* and notes the records of the buffer that have no complete key.
LEMMA WriteInOrder ==
  ASSUME ImportInv, phase = "import", NEW t \in Tables, NEW B,
         B = buffer[t] \/ ( /\ B = buffer[t] \cup {idx + 1} /\ idx < Total
                            /\ Rec(idx + 1).table = t
                            /\ Rec(idx + 1).kind \in {"row", "nokey"} ),
         Write(B, {})
  PROVE  /\ working' = Content(base, spec, ((1..idx) \ Pending) \cup B)
         /\ rejected' = Rejects(spec, ((1..idx) \ Pending) \cup B)
  <1>1. Content(working, spec, B) = Content(base, spec, ((1..idx) \ Pending) \cup B)
    BY FlushInOrder
  <1>2. /\ spec \in Specs /\ base \in Rows /\ idx \in Nat /\ Total \in Nat /\ idx <= Total
        /\ buffer[t] \subseteq 1..idx
    BY StreamsAreTyped DEF ImportInv, TypeOK, Total
  <1>3. B \subseteq 1..Total
    BY <1>2
  <1>4. Content(base, spec, ((1..idx) \ Pending) \cup B) \in Rows
    <2>1. ((1..idx) \ Pending) \cup B \subseteq 1..Len(Stream[spec])
      BY <1>2, <1>3 DEF Total
    <2>2. QED  BY <1>2, <2>1, ContentTyped
  <1>5. working' = Content(base, spec, ((1..idx) \ Pending) \cup B)
    BY <1>1, <1>2, <1>4, ContentOfNothing DEF Write
  <1>6. \A i \in B : Rec(i).kind \in {"row", "nokey"}
    BY DEF ImportInv, BufferOrder
  <1>7. {i \in B : Rec(i).kind = "nokey"} = Rejects(spec, B)
    BY <1>6 DEF Rejects, Rec
  <1>8. Rejects(spec, ((1..idx) \ Pending) \cup B)
          = Rejects(spec, (1..idx) \ Pending) \cup Rejects(spec, B)
    BY DEF Rejects
  <1>9. rejected' = Rejects(spec, ((1..idx) \ Pending) \cup B)
    BY <1>7, <1>8 DEF Write, ImportInv, WorkingPrefix
  <1>10. QED  BY <1>5, <1>9

\* The connection keeps seeing exactly the records read and not buffered.
LEMMA StepWorkingPrefix == ImportInv /\ [Next]_vars => WorkingPrefix'
  <1> SUFFICES ASSUME ImportInv, [Next]_vars PROVE WorkingPrefix'
    OBVIOUS
  <1> DEFINE A == (1..idx) \ Pending
  <1>0. /\ spec \in Specs /\ base \in Rows /\ idx \in Nat /\ Total \in Nat
        /\ buffer \in [Tables -> SUBSET (1..idx)] /\ idx <= Total
    BY StreamsAreTyped DEF ImportInv, TypeOK, Total
  <1>1. ASSUME phase = "import", UNCHANGED <<phase, active, poisoned, run_>>, NEW S,
               ((1..idx) \ Pending)' = S,
               working' = Content(base, spec, S), rejected' = Rejects(spec, S)
        PROVE  WorkingPrefix'
    <2>1. active /\ ~poisoned
      BY <1>1 DEF ImportInv, WorkingPrefix
    <2>2. QED  BY <1>1, <2>1 DEF WorkingPrefix, run_
  <1>2. CASE NextGroup
    <2>1. /\ idx = durable /\ working = committed /\ ~poisoned
      BY <1>2 DEF NextGroup, ImportInv, GroupClosed
    <2>2. /\ working' = Content(base, spec, 1..idx) /\ Rejects(spec, 1..idx) = {}
          /\ UNCHANGED <<run_, idx, poisoned>>
      BY <1>2, <2>1 DEF NextGroup, ImportInv, CommittedPrefix
    <2>3. active' = TRUE /\ rejected' = {} /\ Pending' = {}
      BY <1>2 DEF NextGroup, Pending, NoBuffers
    <2>4. QED  BY <2>1, <2>2, <2>3 DEF WorkingPrefix, run_
  <1>3. CASE BufferRow
    <2> DEFINE t == Rec(idx + 1).table
               B == buffer[t] \cup {idx + 1}
    <2>1. /\ phase = "import" /\ UNCHANGED <<phase, active, poisoned, run_>>
          /\ Take({"row", "nokey"})
      BY <1>3 DEF BufferRow, Take
    <2>2. /\ idx' = idx + 1 /\ t \in Tables /\ 1..(idx + 1) = (1..idx) \cup {idx + 1}
          /\ Rec(idx + 1).kind \in {"row", "nokey"} /\ idx < Total
          /\ idx + 1 \notin 1..idx /\ Pending \subseteq 1..idx
      BY <1>0, <2>1, TakeFacts
    <2>3. CASE buffer' = [buffer EXCEPT ![t] = B] /\ UNCHANGED <<working, rejected>>
      <3>1. Pending' = Pending \cup {idx + 1}
        BY <1>0, <2>2, <2>3 DEF Pending
      <3>2. ((1..idx) \ Pending)' = A
        BY <2>2, <3>1
      <3>3. working = Content(base, spec, A) /\ rejected = Rejects(spec, A)
        BY <2>1 DEF ImportInv, WorkingPrefix
      <3> HIDE DEF A
      <3>4. QED  BY <1>1, <2>1, <2>3, <3>2, <3>3
    <2>4. CASE buffer' = [buffer EXCEPT ![t] = {}] /\ Write(B, {})
      <3>1. Pending' = Pending \ buffer[t]
        BY <2>2, <2>4, PendingAfterFlush
      <3>2. ((1..idx) \ Pending)' = A \cup B
        BY <1>0, <2>2, <3>1
      <3>3. working' = Content(base, spec, A \cup B) /\ rejected' = Rejects(spec, A \cup B)
        BY <2>1, <2>2, <2>4, WriteInOrder
      <3> HIDE DEF A, B
      <3>4. QED  BY <1>1, <2>1, <3>2, <3>3
    <2>5. QED  BY <1>3, <2>2, <2>3, <2>4 DEF BufferRow
  <1>4. CASE ImportDirect
    <2> DEFINE t == Rec(idx + 1).table
               B == buffer[t] \cup {idx + 1}
    <2>1. /\ phase = "import" /\ UNCHANGED <<phase, active, poisoned, run_>>
          /\ Take({"direct"})
      BY <1>4 DEF ImportDirect, Take
    <2>2. /\ idx' = idx + 1 /\ t \in Tables /\ 1..(idx + 1) = (1..idx) \cup {idx + 1}
          /\ Rec(idx + 1).kind = "direct" /\ idx < Total
          /\ idx + 1 \notin 1..idx /\ Pending \subseteq 1..idx
      BY <1>0, <2>1, TakeFacts
    <2>3. buffer' = [buffer EXCEPT ![t] = {}] /\ Write(buffer[t], {idx + 1})
      BY <1>4, <2>2 DEF ImportDirect
    <2>4. Content(Content(working, spec, buffer[t]), spec, {idx + 1})
            = Content(working, spec, B)
      <3>1. buffer[t] \in SUBSET (1..Len(Stream[spec])) /\ {idx + 1} \in SUBSET (1..Len(Stream[spec]))
        BY <1>0, <2>2 DEF Total
      <3>2. \A i \in buffer[t] : i <= idx + 1
        BY <1>0, <2>2
      <3>3. Later(spec, buffer[t], {idx + 1})
        BY <3>2 DEF Later, Writers
      <3>4. QED  BY <1>0, <3>1, <3>3, ContentCompose
    <2>5. working' = Content(base, spec, A \cup B)
      BY <2>1, <2>2, <2>3, <2>4, FlushInOrder DEF Write
    <2>6. rejected' = Rejects(spec, A \cup B)
      <3>1. rejected = Rejects(spec, A)
        BY <2>1 DEF ImportInv, WorkingPrefix
      <3>2. Rejects(spec, B) = {i \in buffer[t] : Rec(i).kind = "nokey"}
        BY <2>2 DEF Rejects, Rec, ImportInv, BufferOrder
      <3>3. Rejects(spec, A \cup B) = Rejects(spec, A) \cup Rejects(spec, B)
        BY DEF Rejects
      <3>4. QED  BY <2>3, <3>1, <3>2, <3>3 DEF Write
    <2>7. Pending' = Pending \ buffer[t]
      BY <2>2, <2>3, PendingAfterFlush
    <2>8. ((1..idx) \ Pending)' = A \cup B
      BY <1>0, <2>2, <2>7
    <2> HIDE DEF A, B
    <2>9. QED  BY <1>1, <2>1, <2>5, <2>6, <2>8
  <1>5. ASSUME NEW t \in Tables, FlushRest(t) PROVE WorkingPrefix'
    <2>1. /\ phase = "import" /\ UNCHANGED <<phase, idx, active, poisoned, run_>>
          /\ buffer' = [buffer EXCEPT ![t] = {}] /\ Write(buffer[t], {})
      BY <1>5 DEF FlushRest
    <2>2. Pending' = Pending \ buffer[t]
      BY <2>1, PendingAfterFlush
    <2>3. ((1..idx) \ Pending)' = A \cup buffer[t]
      BY <1>0, <2>1, <2>2
    <2>4. /\ working' = Content(base, spec, A \cup buffer[t])
          /\ rejected' = Rejects(spec, A \cup buffer[t])
      BY <2>1, WriteInOrder
    <2> HIDE DEF A
    <2>5. QED  BY <1>1, <2>1, <2>3, <2>4
  <1>6. CASE SkipUnknown \/ SkipFollower
    <2>1. PICK kinds : Take(kinds) /\ kinds \in {{"unknown"}, {"follower"}}
      BY <1>6 DEF SkipUnknown, SkipFollower
    <2>2. /\ idx' = idx + 1 /\ 1..(idx + 1) = (1..idx) \cup {idx + 1} /\ idx < Total
          /\ Rec(idx + 1).kind \in kinds
          /\ idx + 1 \notin 1..idx /\ Pending \subseteq 1..idx /\ phase = "import"
      BY <1>0, <2>1, TakeFacts
    <2>3. UNCHANGED <<phase, run_, buffer, active, poisoned, working>>
      BY <1>6 DEF SkipUnknown, SkipFollower, conn
    <2>4. ((1..idx) \ Pending)' = A \cup {idx + 1}
      BY <2>2, <2>3 DEF Pending
    <2>5. working = Content(base, spec, A) /\ rejected = Rejects(spec, A)
      BY <2>2 DEF ImportInv, WorkingPrefix
    <2>6. DOMAIN Stream[spec][idx + 1].write = {}
      <3>1. idx + 1 \in 1..Len(Stream[spec]) /\ Stream[spec][idx + 1].kind \notin {"row", "direct"}
        BY <1>0, <2>1, <2>2 DEF Total, Rec
      <3>2. QED  BY <1>0, <3>1, RecordFacts
    <2>7. Content(base, spec, A \cup {idx + 1}) = Content(base, spec, A)
      <3> HIDE DEF A
      <3>1. \A l \in Locs : Writers(spec, A \cup {idx + 1}, l) = Writers(spec, A, l)
        BY <2>6 DEF Writers
      <3>2. QED  BY <3>1 DEF Content
    <2>8. rejected' = Rejects(spec, A \cup {idx + 1})
      <3>1. CASE SkipUnknown
        BY <2>2, <2>5, <3>1 DEF SkipUnknown, Take, Rejects, Rec
      <3>2. CASE SkipFollower
        BY <2>2, <2>5, <3>2 DEF SkipFollower, Take, Rejects, Rec
      <3>3. QED  BY <1>6, <3>1, <3>2
    <2> HIDE DEF A
    <2>9. QED  BY <1>1, <2>2, <2>3, <2>4, <2>5, <2>7, <2>8
  <1>7. CASE UNCHANGED vars
    BY <1>7 DEF vars, run_, conn, store, ImportInv, WorkingPrefix, Pending
  <1>8. CASE FetchFails \/ ImportInvalid \/ WriteFails \/ RejectGroup \/ CommitGroup
             \/ CommitFails \/ Abort \/ Crash
    <2>1. phase' # "import"
      BY <1>8 DEF FetchFails, ImportInvalid, WriteFails, RejectGroup, CommitGroup,
         CommitFails, Abort, Crash
    <2>2. QED  BY <2>1 DEF WorkingPrefix
  <1>9. ASSUME NEW s \in Specs, NEW p \in BOOLEAN, StartRun(s, p) PROVE WorkingPrefix'
    BY <1>9 DEF StartRun, WorkingPrefix
  <1>10. QED
    BY <1>2, <1>3, <1>4, <1>5, <1>6, <1>7, <1>8, <1>9 DEF Next

\* Groups end at commit points, and between groups nothing is open.
LEMMA StepGroupClosed == ImportInv /\ [Next]_vars => GroupClosed'
  <1> SUFFICES ASSUME ImportInv, [Next]_vars PROVE GroupClosed'
    OBVIOUS
  <1>0. /\ Total \in Nat /\ groupEnd \in 0..Total /\ idx \in 0..groupEnd
        /\ durable \in 0..idx
    BY StreamsAreTyped DEF ImportInv, TypeOK, Total
  <1>1. ASSUME NEW s \in Specs, NEW p \in BOOLEAN, StartRun(s, p) PROVE GroupClosed'
    <2>1. /\ phase' = "group" /\ idx' = 0 /\ durable' = 0 /\ groupEnd' = 0
          /\ UNCHANGED <<working, committed, poisoned, buffer, rejected>>
          /\ phase \in Resting /\ Total' \in Nat
      BY <1>1, StreamsAreTyped DEF StartRun, conn, Total
    <2>2. working = committed /\ ~poisoned /\ buffer = NoBuffers /\ rejected = {}
      BY <2>1 DEF ImportInv, GroupClosed
    <2>3. 0 < Total' \/ Total' = 0
      BY <2>1
    <2>4. QED  BY <2>1, <2>2, <2>3 DEF GroupClosed, Resting, NoBuffers
  <1>2. CASE NextGroup
    <2>1. /\ phase = "group" /\ phase' = "import" /\ UNCHANGED <<spec, split, durable>>
          /\ groupEnd < Total \/ Total = 0
          /\ groupEnd' = IF split /\ groupEnd + Interval < Total
                           THEN groupEnd + Interval ELSE Total
      BY <1>2 DEF NextGroup, run_, store
    <2>2. /\ groupEnd = durable
          /\ durable = 0 \/ durable = Total \/ WholeIntervals(durable)
      BY <2>1 DEF ImportInv, GroupClosed, CommittedPrefix, CommitPoints, Total
    <2>3. groupEnd' = durable => Total = 0
      BY <1>0, <2>1, <2>2, SizesArePositive
    <2>4. ASSUME groupEnd' # Total
          PROVE  WholeIntervals(groupEnd') /\ split /\ groupEnd' \in 0..Total
      <3>1. split /\ groupEnd' = groupEnd + Interval /\ groupEnd + Interval < Total
        BY <2>1, <2>4
      <3>2. groupEnd = 0 \/ WholeIntervals(groupEnd)
        BY <1>0, <2>2, <3>1, SizesArePositive
      <3>3. PICK k \in Nat : k <= groupEnd /\ groupEnd = k * Interval
        BY <1>0, <3>2, SizesArePositive DEF WholeIntervals
      <3>4. (k + 1) * Interval = k * Interval + Interval /\ k + 1 \in 0..(groupEnd + Interval)
        BY <1>0, <3>3, SizesArePositive
      <3>5. groupEnd + Interval = (k + 1) * Interval
        BY <3>3, <3>4
      <3>6. WholeIntervals(groupEnd + Interval)
        BY <3>4, <3>5 DEF WholeIntervals
      <3>7. QED  BY <1>0, <3>1, <3>6, SizesArePositive
    <2>5. groupEnd' \in CommitPoints(spec, split)
      BY <1>0, <2>4 DEF CommitPoints, Total
    <2>6. CommitPoints(spec, split)' = CommitPoints(spec, split) /\ Total' = Total
      BY <2>1 DEF CommitPoints, Total, WholeIntervals
    <2>7. (CommitPoints(spec, split))' = CommitPoints(spec', split')
      OBVIOUS
    <2>8. QED  BY <2>1, <2>3, <2>5, <2>6 DEF GroupClosed, Resting
  <1>3. CASE BufferRow \/ ImportDirect \/ SkipUnknown \/ SkipFollower
    <2>1. phase = "import" /\ UNCHANGED <<phase, spec, split, groupEnd, durable>>
      BY <1>3 DEF BufferRow, ImportDirect, SkipUnknown, SkipFollower, Take, run_, store
    <2>2. QED
      BY <2>1 DEF ImportInv, GroupClosed, Resting, CommitPoints, Total, WholeIntervals
  <1>4. ASSUME NEW t \in Tables, FlushRest(t) PROVE GroupClosed'
    <2>1. phase = "import" /\ UNCHANGED <<phase, spec, split, groupEnd, durable>>
      BY <1>4 DEF FlushRest, run_, store
    <2>2. QED
      BY <2>1 DEF ImportInv, GroupClosed, Resting, CommitPoints, Total, WholeIntervals
  <1>5. CASE FetchFails \/ ImportInvalid \/ WriteFails \/ RejectGroup \/ CommitFails
    BY <1>5 DEF FetchFails, ImportInvalid, WriteFails, RejectGroup, CommitFails,
       GroupClosed, Resting
  <1>6. CASE CommitGroup
    <2>1. Imported /\ Accepted
      BY <1>6 DEF CommitGroup
    <2>2. /\ committed' = working /\ durable' = idx
          /\ phase' = IF groupEnd = Total THEN "done" ELSE "group"
          /\ UNCHANGED <<idx, groupEnd, buffer, rejected, working, poisoned>>
          /\ Total' = Total
      BY <1>6 DEF CommitGroup, run_, Total
    <2>3. idx = groupEnd /\ buffer = NoBuffers /\ rejected = {} /\ ~poisoned
      BY <2>1, ImportedFacts
    <2>4. phase' = "group" => groupEnd < Total
      BY <1>0, <2>2
    <2>5. QED  BY <2>2, <2>3, <2>4 DEF GroupClosed, Resting, NoBuffers
  <1>7. CASE Abort \/ Crash
    BY <1>7 DEF Abort, Crash, GroupClosed, Resting, NoBuffers, store
  <1>8. CASE UNCHANGED vars
    BY <1>8 DEF vars, run_, conn, store, ImportInv, GroupClosed, Resting, NoBuffers,
       CommitPoints, Total, WholeIntervals
  <1>9. QED
    BY <1>1, <1>2, <1>3, <1>4, <1>5, <1>6, <1>7, <1>8 DEF Next

\* Types, order of the buffers, what the connection sees and what is stored
\* hold throughout every run (batch.py:117-258, importer.py:8266-8658).
THEOREM ImportInvariant == Spec => []ImportInv
  <1>1. ImportInv /\ [Next]_vars => ImportInv'
    BY StepTypeOK, StepCommittedPrefix, StepBufferOrder, StepWorkingPrefix,
       StepGroupClosed DEF ImportInv
  <1>2. QED  BY InitImportInv, <1>1, PTL DEF Spec

\* For any stream, batch size and interval: what a run leaves in the database
\* is a prefix of its stream, cut at a commit point, whatever failed.
THEOREM CommittedIsPrefixAlways == Spec => []CommittedIsPrefix
  <1>1. ImportInv => CommittedIsPrefix
    BY DEF ImportInv, CommittedPrefix, CommittedIsPrefix
  <1>2. QED  BY <1>1, ImportInvariant, PTL

\* Success means every record of the spec is stored and none was refused.
THEOREM DoneIsCompleteAlways == Spec => []DoneIsComplete
  <1>1. ImportInv => DoneIsComplete
    BY DEF ImportInv, CommittedPrefix, GroupClosed, DoneIsComplete
  <1>2. QED  BY <1>1, ImportInvariant, PTL

\* A finished run leaves nothing for the next one to commit.
THEOREM NothingLeftPendingAlways == Spec => []NothingLeftPending
  <1>1. ImportInv => NothingLeftPending
    BY DEF ImportInv, GroupClosed, NothingLeftPending
  <1>2. QED  BY <1>1, ImportInvariant, PTL

-----------------------------------------------------------------------------

\* The abstract definitions read the stream as the detailed ones do.
LEMMA LogReads ==
  ASSUME NEW b, NEW s, NEW S, NEW p
  PROVE  /\ Log!Content(b, s, S) = Content(b, s, S)
         /\ Log!Rejects(s, S) = Rejects(s, S)
         /\ Log!CommitPoints(s, p) = CommitPoints(s, p)
  <1>1. \A T : Log!Last(T) = Last(T)
    BY DEF Log!Last, Last
  <1>2. \A l : Log!Writers(s, S, l) = Writers(s, S, l)
    BY DEF Log!Writers, Writers
  <1>3. \A n : Log!WholeIntervals(n) = WholeIntervals(n)
    BY DEF Log!WholeIntervals, WholeIntervals
  <1>4. Log!Content(b, s, S) = Content(b, s, S)
    BY <1>1, <1>2 DEF Log!Content, Content
  <1>5. Log!CommitPoints(s, p) = CommitPoints(s, p)
    BY <1>3 DEF Log!CommitPoints, CommitPoints
  <1>6. QED  BY <1>4, <1>5 DEF Log!Rejects, Rejects

\* A step that stores a group is a step of the log.
LEMMA CommitIsLogCommit ==
  ASSUME ImportInv, Imported, Accepted,
         committed' = working, durable' = idx, UNCHANGED run_,
         \/ phase' = "group" \/ phase' = "abort"
         \/ phase' = "done" /\ groupEnd = Total
  PROVE  \E n \in 0..Len(Stream[spec]) : Log!Commit(n)
  <1>1. /\ idx = groupEnd /\ idx \in CommitPoints(spec, split)
        /\ working = Content(base, spec, 1..idx) /\ Rejects(spec, 1..idx) = {}
        /\ phase = "import"
    BY ImportedFacts
  <1>2. durable <= idx /\ idx \in 0..Len(Stream[spec])
    BY StreamsAreTyped DEF ImportInv, TypeOK, Total
  <1>3. Status = "running" /\ Status' \in
          IF idx = Len(Stream[spec]) THEN {"running", "done"} ELSE {"running"}
    BY <1>1 DEF Status, Resting, Total
  <1>4. Log!Commit(idx)
    BY <1>1, <1>2, <1>3, LogReads DEF Log!Commit, run_
  <1>5. QED  BY <1>2, <1>4

\* Each step of the processor is a step of the import log, or invisible to it:
\* StartRun begins, commits commit, Abort and Crash fail (batch.py:196-258).
THEOREM ImportRefinesLog == Spec => ImplementsImportLog
  <1>1. Init => Log!AbsInit
    BY DEF Init, Log!AbsInit, Status, Resting
  <1>2. ImportInv /\ [Next]_vars => [Log!AbsNext]_(Log!absVars)
    <2> SUFFICES ASSUME ImportInv, [Next]_vars
                 PROVE  Log!AbsNext \/ UNCHANGED Log!absVars
      OBVIOUS
    <2>1. ASSUME NEW s \in Specs, NEW p \in BOOLEAN, StartRun(s, p) PROVE Log!Begin(s, p)
      BY <2>1 DEF StartRun, Log!Begin, Status, Resting
    <2>2. ASSUME UNCHANGED <<run_, store>>, phase \notin Resting, phase' \notin Resting
          PROVE  UNCHANGED Log!absVars
      BY <2>2 DEF Log!absVars, run_, store, Status
    <2>3. CASE NextGroup \/ FetchFails \/ ImportInvalid \/ SkipUnknown \/ SkipFollower
               \/ BufferRow \/ ImportDirect \/ WriteFails \/ RejectGroup
      <3>1. UNCHANGED <<run_, store>> /\ phase \notin Resting /\ phase' \notin Resting
        BY <2>3 DEF NextGroup, FetchFails, ImportInvalid, SkipUnknown, SkipFollower,
           BufferRow, ImportDirect, WriteFails, RejectGroup, Imported, Take, Resting
      <3>2. QED  BY <2>2, <3>1
    <2>4. ASSUME NEW t \in Tables, FlushRest(t) PROVE UNCHANGED Log!absVars
      BY <2>2, <2>4 DEF FlushRest, Resting
    <2>5. CASE CommitGroup
      <3>1. /\ Imported /\ Accepted /\ committed' = working /\ durable' = idx
            /\ UNCHANGED run_
        BY <2>5, Zenon DEF CommitGroup
      <3>2. phase' = "group" \/ (phase' = "done" /\ groupEnd = Total)
        BY <2>5 DEF CommitGroup
      <3>3. \E n \in 0..Len(Stream[spec]) : Log!Commit(n)
        BY <3>1, <3>2, CommitIsLogCommit
      <3>4. QED  BY <3>3 DEF Log!AbsNext
    <2>6. CASE CommitFails
      <3>1. CASE UNCHANGED store
        BY <2>2, <2>6, <3>1 DEF CommitFails, Imported, Resting
      <3>2. CASE committed' = working /\ durable' = idx
        <4>1. Imported /\ Accepted /\ UNCHANGED run_ /\ phase' = "abort"
          BY <2>6, Zenon DEF CommitFails
        <4>2. \E n \in 0..Len(Stream[spec]) : Log!Commit(n)
          BY <3>2, <4>1, CommitIsLogCommit
        <4>3. QED  BY <4>2 DEF Log!AbsNext
      <3>3. QED  BY <2>6, <3>1, <3>2 DEF CommitFails
    <2>7. CASE Abort \/ Crash
      BY <2>7 DEF Abort, Crash, Log!AbsNext, Log!Fail, Status, Resting, run_, store
    <2>8. CASE UNCHANGED vars
      BY <2>8 DEF vars, run_, store, Log!absVars, Status
    <2>9. QED
      BY <2>1, <2>3, <2>4, <2>5, <2>6, <2>7, <2>8 DEF Next, Log!AbsNext
  <1>3. QED
    BY <1>1, <1>2, ImportInvariant, PTL DEF Spec, ImplementsImportLog, Log!AbsSpec

---------------------------------------------------------------------------
(* NlCache. *)

\* Appending to a file leaves what it began with.
LEMMA AppendKeepsStart ==
  ASSUME NEW S, NEW s \in Seq(S), NEW e \in S, NEW n \in 0..Len(s)
  PROVE  /\ SubSeq(Append(s, e), 1, n) = SubSeq(s, 1, n)
         /\ Append(s, e) \in Seq(S) /\ Len(Append(s, e)) = Len(s) + 1
  <1>1. SubSeq(Append(s, e), 1, n) = SubSeq(s, 1, n)
    <2>1. \A i \in 1..n : Append(s, e)[i] = s[i]
      OBVIOUS
    <2>2. /\ Len(SubSeq(s, 1, n)) = n /\ SubSeq(s, 1, n) \in Seq(S)
          /\ \A i \in 1..n : SubSeq(s, 1, n)[i] = s[i]
      BY SubSeqProperties
    <2>3. /\ Len(SubSeq(Append(s, e), 1, n)) = n /\ SubSeq(Append(s, e), 1, n) \in Seq(S)
          /\ \A i \in 1..n : SubSeq(Append(s, e), 1, n)[i] = Append(s, e)[i]
      BY SubSeqProperties
    <2>4. QED  BY <2>1, <2>2, <2>3, SeqEqual
  <1>2. QED  BY <1>1

\* Cutting a file off gives a file.
LEMMA CutIsFile ==
  ASSUME NEW S, NEW s \in Seq(S), NEW n \in 0..Len(s)
  PROVE  SubSeq(s, 1, n) \in Seq(S)
  BY SubSeqProperties

\* A file that is cut off at its own length stays as it is.
LEMMA CutAtEnd ==
  ASSUME NEW S, NEW s \in Seq(S)
  PROVE  s = SubSeq(s, 1, Len(s)) /\ Len(s) \in Nat
  BY SubSeqFull

\* The cache starts empty.
LEMMA InitCacheInv == CacheInit => CacheInv
  <1> SUFFICES ASSUME CacheInit PROVE CacheInv
    OBVIOUS
  <1>1. bin \in Files
    BY DEF CacheInit, Files
  <1>2. 1 \in Dates /\ 0 \in 0..Len(Provider)
    BY ProviderIsTyped DEF Dates
  <1>3. checkpoints \in [Dates -> Nat \cup {NoCheckpoint}]
    BY DEF CacheInit, NoCheckpoints
  <1>4. pos \in 0..upto /\ upto \in 0..published /\ ops \in Nat /\ pc = "idle"
    BY <1>2 DEF CacheInit
  <1>5. CacheTypeOK
    BY <1>1, <1>2, <1>3, <1>4, Zenon DEF CacheInit, CacheTypeOK
  <1>6. QED  BY <1>4, <1>5 DEF CacheInv, AppendedSinceCheckpoint

\* Appending one record, after the checkpoint of its date has been taken.
LEMMA FetchDatedStep ==
  ASSUME CacheInv, NEW i \in Records, FetchDated(i)
  PROVE  CacheInv'
  <1> DEFINE d == Provider[i].date
  <1>1. /\ pc = "fetch" /\ CacheTypeOK /\ d \in Dates /\ i \in Records \cup {Torn}
        /\ pos' = i /\ i \in 1..upto
    BY ProviderIsTyped DEF FetchDated, NextRecord, IsNext, CacheInv, Sent
  <1>2. /\ checkpoints' = Checkpoint(d) /\ bin' = [bin EXCEPT ![d] = Append(bin[d], i)]
        /\ UNCHANGED <<pc, published, complete, from, to, upto, rangeComplete, before,
                       clear, ops, aux>>
    BY DEF FetchDated
  <1>3. bin[d] \in Seq(Records \cup {Torn}) /\ Len(bin[d]) \in Nat
    BY <1>1 DEF CacheTypeOK, Files
  <1> HIDE DEF d
  <1>4. Append(bin[d], i) \in Seq(Records \cup {Torn})
    BY <1>1, <1>3
  <1>5. bin' \in Files /\ checkpoints' \in [Dates -> Nat \cup {NoCheckpoint}]
    BY <1>1, <1>2, <1>3, <1>4 DEF CacheTypeOK, Files, Checkpoint
  <1>6. pos' \in 0..upto'
    BY <1>1, <1>2
  <1>7. CacheTypeOK'
    BY <1>1, <1>2, <1>5, <1>6, Zenon DEF CacheTypeOK, clear, aux
  <1>8. ASSUME NEW e \in Dates
        PROVE  IF checkpoints'[e] = NoCheckpoint THEN bin'[e] = before[e]
               ELSE /\ checkpoints'[e] = Len(before[e])
                    /\ checkpoints'[e] <= Len(bin'[e])
                    /\ before[e] = SubSeq(bin'[e], 1, checkpoints'[e])
    <2>1. IF checkpoints[e] = NoCheckpoint THEN bin[e] = before[e]
          ELSE /\ checkpoints[e] = Len(before[e])
               /\ checkpoints[e] <= Len(bin[e])
               /\ before[e] = SubSeq(bin[e], 1, checkpoints[e])
      BY <1>1 DEF CacheInv, AppendedSinceCheckpoint
    <2>2. CASE e # d
      <3>1. checkpoints'[e] = checkpoints[e] /\ bin'[e] = bin[e]
        BY <1>1, <1>2, <2>2 DEF CacheTypeOK, Checkpoint
      <3>2. QED  BY <2>1, <3>1
    <2>3. CASE e = d
      <3>1. bin'[d] = Append(bin[d], i)
        BY <1>1, <1>2 DEF CacheTypeOK, Files
      <3>2. CASE checkpoints[d] = NoCheckpoint
        <4>1. checkpoints'[d] = Len(bin[d]) /\ bin[d] = before[d]
          BY <1>1, <1>2, <2>1, <2>3, <3>2 DEF CacheTypeOK, Checkpoint
        <4>2. /\ SubSeq(bin'[d], 1, Len(bin[d])) = bin[d]
              /\ Len(bin[d]) <= Len(bin'[d]) /\ Len(bin[d]) # NoCheckpoint
          <5>1. Len(bin[d]) \in 0..Len(bin[d])
            BY <1>3
          <5>2. /\ SubSeq(Append(bin[d], i), 1, Len(bin[d])) = SubSeq(bin[d], 1, Len(bin[d]))
                /\ Len(Append(bin[d], i)) = Len(bin[d]) + 1
            BY <1>1, <1>3, <5>1, AppendKeepsStart
          <5>3. SubSeq(bin[d], 1, Len(bin[d])) = bin[d]
            BY <1>3, CutAtEnd
          <5>4. QED  BY <1>3, <3>1, <5>2, <5>3 DEF NoCheckpoint
        <4>3. QED  BY <2>3, <4>1, <4>2
      <3>3. CASE checkpoints[d] # NoCheckpoint
        <4>1. /\ checkpoints'[d] = checkpoints[d] /\ checkpoints[d] \in Nat
              /\ checkpoints[d] <= Len(bin[d]) /\ checkpoints[d] = Len(before[d])
              /\ before[d] = SubSeq(bin[d], 1, checkpoints[d])
          BY <1>1, <1>2, <2>1, <2>3, <3>3 DEF CacheTypeOK, Checkpoint
        <4>2. checkpoints[d] \in 0..Len(bin[d])
          BY <1>3, <4>1
        <4>3. /\ SubSeq(Append(bin[d], i), 1, checkpoints[d]) = SubSeq(bin[d], 1, checkpoints[d])
              /\ Len(Append(bin[d], i)) = Len(bin[d]) + 1
          BY <1>1, <1>3, <4>2, AppendKeepsStart
        <4>4. checkpoints[d] <= Len(bin'[d])
          BY <1>3, <3>1, <4>1, <4>3
        <4>5. QED  BY <2>3, <3>1, <3>3, <4>1, <4>3, <4>4
      <3>4. QED  BY <3>2, <3>3
    <2>4. QED  BY <2>2, <2>3
  <1>9. AppendedSinceCheckpoint'
    BY <1>2, <1>8 DEF AppendedSinceCheckpoint, HasRange, CacheInv
  <1>10. QED  BY <1>7, <1>9 DEF CacheInv

\* What a rollback leaves of a file.
LEMMA RestoredFiles ==
  ASSUME CacheInv, pc = "fetch", NEW S
  PROVE  /\ Restored(S) \in Files
         /\ \A d \in Dates : Restored(S)[d] = IF d \in Touched \ S THEN bin[d] ELSE before[d]
  <1>1. ASSUME NEW d \in Dates
        PROVE  /\ Restored(S)[d] = IF d \in Touched \ S THEN bin[d] ELSE before[d]
               /\ bin[d] \in Seq(Records \cup {Torn}) /\ before[d] \in Seq(Records \cup {Torn})
    <2>1. IF checkpoints[d] = NoCheckpoint THEN bin[d] = before[d]
          ELSE before[d] = SubSeq(bin[d], 1, checkpoints[d])
      BY DEF CacheInv, AppendedSinceCheckpoint
    <2>2. bin[d] \in Seq(Records \cup {Torn}) /\ before[d] \in Seq(Records \cup {Torn})
      BY DEF CacheInv, CacheTypeOK, Files
    <2>3. QED  BY <2>1, <2>2 DEF Restored, Touched
  <1>2. Restored(S) = [d \in Dates |-> Restored(S)[d]]
    BY DEF Restored
  <1>3. Restored(S) \in Files
    BY <1>1, <1>2 DEF Files
  <1>4. QED  BY <1>1, <1>3

\* When a fetch is over, nothing of it is left.
LEMMA FetchOverTypes ==
  ASSUME CacheTypeOK, FetchOver, published' = published
  PROVE  /\ pc' = "idle" /\ from' \in Dates /\ to' \in Dates /\ rangeComplete' \in BOOLEAN
         /\ upto' \in 0..published' /\ pos' \in 0..upto' /\ before' \in Files
         /\ checkpoints' \in [Dates -> Nat \cup {NoCheckpoint}]
  <1>1. 1 \in Dates
    BY ProviderIsTyped DEF Dates
  <1>2. upto' \in 0..published' /\ pos' \in 0..upto'
    BY ProviderIsTyped DEF FetchOver, CacheTypeOK
  <1>3. before' \in Files /\ checkpoints' \in [Dates -> Nat \cup {NoCheckpoint}]
    BY DEF FetchOver, Files, NoCheckpoints
  <1>4. QED  BY <1>1, <1>2, <1>3 DEF FetchOver

\* Every step preserves the invariant.
LEMMA StepCacheInv == CacheInv /\ [CacheNext]_cacheVars => CacheInv'
  <1> SUFFICES ASSUME CacheInv, [CacheNext]_cacheVars PROVE CacheInv'
    OBVIOUS
  <1>0. /\ CacheTypeOK /\ Len(Provider) \in Nat
        /\ pos \in 0..upto /\ upto \in 0..published /\ published \in 0..Len(Provider)
    BY ProviderIsTyped DEF CacheInv, CacheTypeOK
  <1>1. CASE Publish
    <2>1. published' \in 0..Len(Provider) /\ upto' \in 0..published'
      BY <1>0, <1>1 DEF Publish, fetch
    <2>2. CacheTypeOK'
      BY <1>0, <1>1, <2>1, Zenon DEF Publish, CacheTypeOK, files, fetch, clear, aux
    <2>3. QED
      BY <1>1, <2>2 DEF Publish, files, fetch, CacheInv, AppendedSinceCheckpoint, HasRange
  <1>2. ASSUME NEW a \in Dates, NEW b \in Dates, BeginFetch(a, b) PROVE CacheInv'
    <2>1. /\ upto' = published /\ pos' = 0 /\ checkpoints' = NoCheckpoints
          /\ from' = a /\ to' = b /\ rangeComplete' = TRUE /\ before' = bin /\ pc' = "fetch"
          /\ UNCHANGED <<published, files, clear, aux>> /\ ops' = ops + 1
      BY <1>2 DEF BeginFetch, Begin
    <2>2. upto' \in 0..published' /\ pos' \in 0..upto' /\ ops' \in Nat
      BY <1>0, <2>1 DEF CacheTypeOK
    <2>3. checkpoints' \in [Dates -> Nat \cup {NoCheckpoint}]
      BY <2>1 DEF NoCheckpoints
    <2>4. CacheTypeOK'
      BY <1>0, <2>1, <2>2, <2>3, Zenon DEF CacheTypeOK, files, clear, aux
    <2>5. AppendedSinceCheckpoint'
      <3>1. ~HasRange(a, b)
        BY <1>2 DEF BeginFetch
      <3>2. QED  BY <2>1, <3>1 DEF AppendedSinceCheckpoint, NoCheckpoints, files, HasRange
    <2>6. QED  BY <2>4, <2>5 DEF CacheInv
  <1>3. ASSUME NEW i \in Records, FetchDated(i) PROVE CacheInv'
    BY <1>3, FetchDatedStep
  <1>4. ASSUME NEW i \in Records, FetchUndated(i) PROVE CacheInv'
    <2>1. /\ pos' = i /\ i \in 1..upto /\ rangeComplete' = FALSE
          /\ UNCHANGED <<pc, published, files, from, to, upto, checkpoints, before,
                         clear, ops, aux>>
      BY <1>4 DEF FetchUndated, NextRecord, IsNext, Sent
    <2>2. pos' \in 0..upto'
      BY <1>0, <2>1
    <2>3. CacheTypeOK'
      BY <1>0, <2>1, <2>2, Zenon DEF CacheTypeOK, files, clear, aux
    <2>4. QED  BY <2>1, <2>3 DEF CacheInv, AppendedSinceCheckpoint, HasRange, files
  <1>5. CASE EmptyWindow
    <2>1. CacheTypeOK'
      BY <1>0, <1>5, Zenon DEF EmptyWindow, CacheTypeOK, files, clear, aux
    <2>2. QED  BY <1>5, <2>1 DEF EmptyWindow, CacheInv, AppendedSinceCheckpoint, HasRange, files
  <1>6. ASSUME NEW S \in SUBSET Dates, Rollback(S) PROVE CacheInv'
    <2>1. /\ pc = "fetch" /\ FetchOver /\ bin' = Restored(S)
          /\ damaged' = damaged \cup (Touched \ S)
          /\ UNCHANGED <<published, complete, clear, ops, byRange, promised, held>>
      BY <1>6 DEF Rollback
    <2>2. bin' \in Files
      BY <2>1, RestoredFiles
    <2>3. damaged' \subseteq Dates
      BY <1>0, <2>1 DEF CacheTypeOK, Touched
    <2>4. CacheTypeOK'
      BY <1>0, <2>1, <2>2, <2>3, FetchOverTypes, Zenon DEF CacheTypeOK, clear
    <2>5. QED  BY <2>1, <2>4 DEF CacheInv, AppendedSinceCheckpoint, FetchOver
  <1>7. CASE Finish
    <2>1. /\ FetchOver /\ complete' = complete \cup from..to
          /\ promised' = [d \in Dates |-> IF d \in from..to THEN SentOf(d) ELSE promised[d]]
          /\ held' = [d \in Dates |-> HeldAfter(d)]
          /\ damaged' \subseteq damaged
          /\ UNCHANGED <<published, bin, clear, ops, byRange>>
      BY <1>7 DEF Finish
    <2>2. complete' \subseteq Dates /\ damaged' \subseteq Dates
      BY <1>0, <2>1, ProviderIsTyped DEF CacheTypeOK, Dates
    <2>3. \A d \in Dates : SentOf(d) \subseteq Records /\ HeldAfter(d) \subseteq Records
      BY <1>0 DEF SentOf, Sent, Records, HeldAfter, LastSent, CacheTypeOK
    <2>4. promised' \in [Dates -> SUBSET Records] /\ held' \in [Dates -> SUBSET Records]
      BY <1>0, <2>1, <2>3 DEF CacheTypeOK
    <2>5. CacheTypeOK'
      BY <1>0, <2>1, <2>2, <2>4, FetchOverTypes, Zenon DEF CacheTypeOK, clear
    <2>6. QED  BY <2>1, <2>5 DEF CacheInv, AppendedSinceCheckpoint, FetchOver
  <1>8. ASSUME NEW d \in Dates, NEW torn \in BOOLEAN, CrashFetching(d, torn) PROVE CacheInv'
    <2>1. /\ bin' = IF torn THEN [bin EXCEPT ![d] = Append(bin[d], Torn)] ELSE bin
          /\ damaged' = damaged \cup Touched \cup IF torn THEN {d} ELSE {}
          /\ FetchOver
          /\ UNCHANGED <<published, complete, clear, ops, byRange, promised, held>>
      BY <1>8 DEF CrashFetching
    <2>2. bin[d] \in Seq(Records \cup {Torn}) /\ Torn \in Records \cup {Torn}
      BY <1>0 DEF CacheTypeOK, Files
    <2>3. Append(bin[d], Torn) \in Seq(Records \cup {Torn})
      BY <2>2, AppendKeepsStart
    <2>4. bin' \in Files
      BY <1>0, <2>1, <2>3 DEF CacheTypeOK, Files
    <2>5. damaged' \subseteq Dates
      BY <1>0, <2>1 DEF CacheTypeOK, Touched
    <2>6. CacheTypeOK'
      BY <1>0, <2>1, <2>4, <2>5, FetchOverTypes, Zenon DEF CacheTypeOK, clear
    <2>7. QED  BY <2>1, <2>6 DEF CacheInv, AppendedSinceCheckpoint, FetchOver
  <1>9. ASSUME NEW D \in {{d} : d \in Dates} \cup {Dates}, BeginClear(D) PROVE CacheInv'
    <2>1. /\ D \subseteq Dates /\ pc' = "clear" /\ todo' = D /\ cleared' = D /\ ops' = ops + 1
          /\ UNCHANGED <<published, files, fetch, aux>>
      BY <1>9 DEF BeginClear, Begin
    <2>2. ops' \in Nat
      BY <1>0, <2>1 DEF CacheTypeOK
    <2>3. CacheTypeOK'
      BY <1>0, <2>1, <2>2, Zenon DEF CacheTypeOK, files, fetch, aux
    <2>4. QED  BY <2>1, <2>3 DEF CacheInv, AppendedSinceCheckpoint
  <1>10. ASSUME NEW d \in Dates, ClearFile(d) PROVE CacheInv'
    <2>1. /\ pc = "clear" /\ todo' = todo \ {d} /\ bin' = [bin EXCEPT ![d] = <<>>]
          /\ damaged' = damaged \cup {d}
          /\ UNCHANGED <<pc, published, complete, fetch, cleared, ops, byRange, promised, held>>
      BY <1>10 DEF ClearFile
    <2>2. bin' \in Files /\ todo' \subseteq Dates /\ damaged' \subseteq Dates
      BY <1>0, <2>1 DEF CacheTypeOK, Files
    <2>3. CacheTypeOK'
      BY <1>0, <2>1, <2>2, Zenon DEF CacheTypeOK, fetch
    <2>4. QED  BY <2>1, <2>3 DEF CacheInv, AppendedSinceCheckpoint
  <1>11. CASE ClearIndex \/ CrashClearing
    <2>1. /\ pc' = "idle" /\ complete' \subseteq complete /\ damaged' \subseteq damaged
          /\ todo' = {} /\ cleared' = {} /\ UNCHANGED <<published, bin, fetch, ops, byRange>>
      BY <1>11 DEF ClearIndex, CrashClearing, ClearOver, files, aux
    <2>2. /\ complete' \subseteq Dates /\ damaged' \subseteq Dates
          /\ promised' \in [Dates -> SUBSET Records] /\ held' \in [Dates -> SUBSET Records]
      BY <1>0, <1>11, <2>1 DEF CacheTypeOK, ClearIndex, CrashClearing, aux
    <2>3. CacheTypeOK'
      BY <1>0, <2>1, <2>2, Zenon DEF CacheTypeOK, fetch
    <2>4. QED  BY <2>1, <2>3 DEF CacheInv, AppendedSinceCheckpoint
  <1>12. CASE UNCHANGED cacheVars
    <2>1. CacheTypeOK'
      BY <1>0, <1>12, Zenon DEF cacheVars, files, fetch, clear, aux, CacheTypeOK
    <2>2. QED  BY <1>12, <2>1 DEF cacheVars, files, fetch, CacheInv, AppendedSinceCheckpoint, HasRange
  <1>13. QED
    BY <1>1, <1>2, <1>3, <1>4, <1>5, <1>6, <1>7, <1>8, <1>9, <1>10, <1>11, <1>12 DEF CacheNext

\* For any dates and any provider: types hold, and a running fetch can always be
\* undone from its checkpoints (historical.py:408-418, manager.py:133-160).
THEOREM CacheInvariant == CacheSpec => []CacheInv
  BY InitCacheInv, StepCacheInv, PTL DEF CacheSpec

\* A fetch that does not end in a complete mark leaves every file as it was, but
\* those a crash or a failing restore hit (historical.py:613-628).
THEOREM NoTrace == CacheSpec => FailedFetchLeavesNoTrace
  <1>1. CacheInv /\ [CacheNext]_cacheVars =>
          [pc = "fetch" /\ pc' = "idle" /\ complete' = complete
             => \A d \in Dates \ damaged' : bin'[d] = before[d]]_cacheVars
    <2> SUFFICES ASSUME CacheInv, CacheNext, pc = "fetch", pc' = "idle", complete' = complete,
                        NEW d \in Dates \ damaged'
                 PROVE  bin'[d] = before[d]
      OBVIOUS
    <2>1. ASSUME NEW S \in SUBSET Dates, Rollback(S) PROVE bin'[d] = before[d]
      <3>1. d \notin Touched \ S
        BY <2>1 DEF Rollback
      <3>2. QED  BY <2>1, <3>1, RestoredFiles DEF Rollback
    <2>2. CASE Finish
      <3>1. from..to \subseteq complete
        BY <2>2 DEF Finish
      <3>2. QED  BY <3>1 DEF CacheInv, AppendedSinceCheckpoint, HasRange
    <2>3. ASSUME NEW e \in Dates, NEW torn \in BOOLEAN, CrashFetching(e, torn)
          PROVE  bin'[d] = before[d]
      <3>1. d \notin Touched /\ (torn => e # d)
        BY <2>3 DEF CrashFetching
      <3>2. bin'[d] = bin[d]
        BY <2>3, <3>1 DEF CrashFetching, CacheInv, CacheTypeOK, Files
      <3>3. QED  BY <3>1, <3>2 DEF Touched, CacheInv, AppendedSinceCheckpoint
    <2>4. QED
      BY <2>1, <2>2, <2>3 DEF CacheNext, Publish, Begin, BeginFetch, FetchDated, FetchUndated,
         EmptyWindow, BeginClear, ClearFile, ClearIndex, CrashClearing, ClearOver
  <1>2. QED  BY <1>1, CacheInvariant, PTL DEF CacheSpec, FailedFetchLeavesNoTrace

-----------------------------------------------------------------------------
\* What a replay ends with: nothing but a crash tears a file, and what a fetch
\* appends to the file of a date is what it was sent of that date, in order.

\* A file that is not torn is read to its end.
LEMMA WholeIsReadable ==
  ASSUME NEW s, \A n \in 1..Len(s) : s[n] # Torn
  PROVE  Readable(s) = 1..Len(s)
  BY DEF Readable

\* While a fetch runs, a file begins with what it was.
LEMMA BeforeIsStart ==
  ASSUME CacheInv, pc = "fetch", NEW d \in Dates
  PROVE  /\ Len(before[d]) \in Nat /\ Len(bin[d]) \in Nat /\ Len(before[d]) <= Len(bin[d])
         /\ \A n \in 1..Len(before[d]) : before[d][n] = bin[d][n]
         /\ \A n \in 1..Len(bin[d]) : bin[d][n] \in Records \cup {Torn}
  <1>1. /\ bin[d] \in Seq(Records \cup {Torn}) /\ before[d] \in Seq(Records \cup {Torn})
        /\ checkpoints[d] \in Nat \cup {NoCheckpoint}
    BY DEF CacheInv, CacheTypeOK, Files
  <1>2. IF checkpoints[d] = NoCheckpoint THEN bin[d] = before[d]
        ELSE /\ checkpoints[d] = Len(before[d])
             /\ checkpoints[d] <= Len(bin[d])
             /\ before[d] = SubSeq(bin[d], 1, checkpoints[d])
    BY DEF CacheInv, AppendedSinceCheckpoint
  <1>3. CASE checkpoints[d] = NoCheckpoint
    BY <1>1, <1>2, <1>3
  <1>4. CASE checkpoints[d] # NoCheckpoint
    BY <1>1, <1>2, <1>4
  <1>5. QED  BY <1>3, <1>4

\* Appending the next record keeps the file in order.
LEMMA AppendInOrder ==
  ASSUME NEW T, NEW s \in Seq(T), NEW b \in 0..Len(s), NEW D \in SUBSET Nat,
         NEW p \in Nat, NEW i \in D, i \in T, p < i, \A j \in D : j > p => i <= j,
         InOrder(s, b, D, p)
  PROVE  InOrder(Append(s, i), b, D, i)
  <1> DEFINE l == Len(s)  a == Append(s, i)
  <1>1. /\ l \in Nat /\ b \in Nat /\ b <= l
        /\ \A n \in b + 1 .. l : s[n] \in D /\ s[n] <= p
        /\ \A n, m \in b + 1 .. l : n < m => s[n] < s[m]
        /\ \A j \in D : j <= p => \E n \in b + 1 .. l : s[n] = j
    BY DEF InOrder
  <1>2. /\ Len(a) = l + 1 /\ a[l + 1] = i
        /\ \A n \in 1..l : a[n] = s[n]
    OBVIOUS
  <1> HIDE DEF l, a
  <1>3. \A n \in b + 1 .. l + 1 : n = l + 1 \/ (n \in b + 1 .. l /\ a[n] = s[n])
    BY <1>1, <1>2
  <1>4. ASSUME NEW n \in b + 1 .. l + 1 PROVE a[n] \in D /\ a[n] <= i
    <2>1. CASE n = l + 1
      BY <1>2, <2>1
    <2>2. CASE n # l + 1
      <3>1. a[n] \in D /\ a[n] <= p
        BY <1>1, <1>3, <2>2
      <3>2. a[n] \in Nat
        BY <3>1
      <3>3. QED  BY <3>1, <3>2
    <2>3. QED  BY <2>1, <2>2
  <1>5. ASSUME NEW n \in b + 1 .. l + 1, NEW m \in b + 1 .. l + 1, n < m
        PROVE  a[n] < a[m]
    <2>1. n \in b + 1 .. l /\ a[n] = s[n] /\ s[n] <= p /\ s[n] \in Nat
      <3>1. n \in b + 1 .. l /\ a[n] = s[n]
        BY <1>1, <1>3, <1>5
      <3>2. s[n] \in D /\ s[n] <= p
        BY <1>1, <3>1
      <3>3. QED  BY <3>1, <3>2
    <2>2. CASE m = l + 1
      BY <1>2, <2>1, <2>2
    <2>3. CASE m # l + 1
      BY <1>1, <1>3, <1>5, <2>1, <2>3
    <2>4. QED  BY <2>2, <2>3
  <1>6. ASSUME NEW j \in D, j <= i
        PROVE  \E n \in b + 1 .. l + 1 : a[n] = j
    <2>1. CASE j = i
      BY <1>1, <1>2, <2>1
    <2>2. CASE j # i
      <3>1. j <= p
        BY <1>6, <2>2
      <3>2. PICK n \in b + 1 .. l : s[n] = j
        BY <1>1, <3>1
      <3>3. n \in 1..l /\ n \in b + 1 .. l + 1
        BY <1>1
      <3>4. QED  BY <1>2, <3>2, <3>3
    <2>3. QED  BY <2>1, <2>2
  <1>7. QED  BY <1>2, <1>4, <1>5, <1>6 DEF InOrder, a

\* A file for which the fetch gets nothing stays in order.
LEMMA SkipInOrder ==
  ASSUME NEW s, NEW b, NEW D \in SUBSET Nat, NEW p \in Nat, NEW i \in Nat, p <= i,
         \A j \in D : j <= i => j <= p, InOrder(s, b, D, p)
  PROVE  InOrder(s, b, D, i)
  <1>1. ASSUME NEW n \in b + 1 .. Len(s) PROVE s[n] \in D /\ s[n] <= i
    <2>1. s[n] \in D /\ s[n] <= p
      BY DEF InOrder
    <2>2. s[n] \in Nat
      BY <2>1
    <2>3. QED  BY <2>1, <2>2
  <1>2. QED  BY <1>1 DEF InOrder

\* The next record of a fetch leaves the files of the other dates in order.
LEMMA NextInOrder ==
  ASSUME CacheInv, AppendedInOrder, NEW i \in Records, NextRecord(i), NEW e \in Dates
  PROVE  /\ SentOf(e) \subseteq Nat /\ pos \in Nat /\ i \in Nat /\ pos < i
         /\ Provider[i].date = e => i \in SentOf(e) /\ \A j \in SentOf(e) : j > pos => i <= j
         /\ Provider[i].date # e => InOrder(bin[e], Len(before[e]), SentOf(e), i)
  <1>1. /\ SentOf(e) \subseteq Nat /\ SentOf(e) \subseteq Sent(from, to, upto)
        /\ pos \in Nat /\ i \in Nat
    BY DEF SentOf, Sent, CacheInv, CacheTypeOK, Records
  <1>2. /\ pc = "fetch" /\ pos < i /\ i \in Sent(from, to, upto)
        /\ \A j \in Sent(from, to, upto) : j > pos => i <= j
    BY <1>1 DEF NextRecord, IsNext
  <1>3. Provider[i].date = e => i \in SentOf(e) /\ \A j \in SentOf(e) : j > pos => i <= j
    BY <1>1, <1>2 DEF SentOf
  <1>4. ASSUME Provider[i].date # e PROVE InOrder(bin[e], Len(before[e]), SentOf(e), i)
    <2>1. ASSUME NEW j \in SentOf(e), j <= i PROVE j <= pos
      <3>1. j # i
        BY <1>4 DEF SentOf
      <3>2. QED  BY <1>1, <1>2, <2>1, <3>1
    <2>2. InOrder(bin[e], Len(before[e]), SentOf(e), pos)
      BY <1>2 DEF AppendedInOrder
    <2>3. pos <= i
      BY <1>1, <1>2
    <2>4. QED  BY <1>1, <2>1, <2>2, <2>3, SkipInOrder
  <1>5. QED  BY <1>1, <1>2, <1>3, <1>4

\* Appending a record keeps what the fetch has appended in order.
LEMMA FetchDatedInOrder ==
  ASSUME CacheInv, AppendedInOrder, NEW i \in Records, FetchDated(i)
  PROVE  AppendedInOrder'
  <1>1. /\ NextRecord(i) /\ pc = "fetch" /\ Provider[i].date \in Dates /\ pos' = i
        /\ bin' = [bin EXCEPT ![Provider[i].date] = Append(bin[Provider[i].date], i)]
        /\ UNCHANGED <<before, from, to, upto, byRange>> /\ bin \in Files
    BY ProviderIsTyped DEF FetchDated, NextRecord, CacheInv, CacheTypeOK, aux
  <1>2. ASSUME NEW e \in Dates
        PROVE  InOrder(bin'[e], Len(before[e]), SentOf(e), i)
    <2>1. CASE Provider[i].date # e
      <3>1. bin'[e] = bin[e]
        BY <1>1, <2>1 DEF Files
      <3>2. QED  BY <1>1, <2>1, <3>1, NextInOrder
    <2>2. CASE Provider[i].date = e
      <3>1. bin'[e] = Append(bin[e], i) /\ bin[e] \in Seq(Records \cup {Torn})
        BY <1>1, <2>2 DEF Files
      <3>2. InOrder(bin[e], Len(before[e]), SentOf(e), pos) /\ Len(before[e]) \in 0..Len(bin[e])
        BY <1>1, BeforeIsStart DEF AppendedInOrder
      <3>3. /\ SentOf(e) \in SUBSET Nat /\ pos \in Nat /\ pos < i /\ i \in SentOf(e)
            /\ \A j \in SentOf(e) : j > pos => i <= j
        BY <1>1, <2>2, NextInOrder
      <3>4. InOrder(Append(bin[e], i), Len(before[e]), SentOf(e), i)
        BY <3>1, <3>2, <3>3, AppendInOrder
      <3>5. QED  BY <3>1, <3>4
    <2>3. QED  BY <2>1, <2>2
  <1>3. \A e \in Dates : SentOf(e)' = SentOf(e)
    BY <1>1 DEF SentOf, Sent, Opened
  <1>4. QED  BY <1>1, <1>2, <1>3 DEF AppendedInOrder

\* When a fetch is complete, the file of an undamaged date ends with the last
\* version it was sent of a key, and with what it ended with before of the rest.
LEMMA CompleteEndsWith ==
  ASSUME CacheInv, AppendedInOrder, pc = "fetch", Whole, NEW d \in Dates, ~HasTorn(d),
         NEW i \in Nat,
         \/ i \in LastSent(d)
         \/ EndsWith(before[d], i) /\ \A j \in SentOf(d) : ~SameKey(i, j)
  PROVE  EndsWith(bin[d], i)
  <1> DEFINE b == Len(before[d])  l == Len(bin[d])  s == bin[d]
  <1>1. /\ b \in Nat /\ l \in Nat /\ b <= l /\ \A n \in 1..b : before[d][n] = s[n]
    BY BeforeIsStart
  <1>2. \A n \in 1..l : s[n] # Torn
    BY DEF HasTorn
  <1>3. Readable(s) = 1..l
    BY <1>2, WholeIsReadable
  <1>4. SentOf(d) \subseteq Nat
    BY DEF SentOf, Sent
  <1>5. /\ \A n \in b + 1 .. l : s[n] \in SentOf(d)
        /\ \A n, m \in b + 1 .. l : n < m => s[n] < s[m]
        /\ \A j \in SentOf(d) : \E n \in b + 1 .. l : s[n] = j
    BY DEF AppendedInOrder, InOrder, Whole, SentOf
  <1>6. SUFFICES \E n \in 1..l : s[n] = i /\ \A m \in 1..l : m > n => ~SameKey(s[m], i)
    BY <1>3 DEF EndsWith
  <1> HIDE DEF b, l, s
  <1>7. CASE i \in LastSent(d)
    <2>1. i \in SentOf(d) /\ \A j \in SentOf(d) : SameKey(i, j) => j <= i
      BY <1>7 DEF LastSent
    <2>2. PICK n \in b + 1 .. l : s[n] = i
      BY <1>5, <2>1
    <2>3. ASSUME NEW m \in 1..l, m > n PROVE ~SameKey(s[m], i)
      <3>1. m \in b + 1 .. l
        BY <1>1, <2>2, <2>3
      <3>2. s[m] \in SentOf(d) /\ s[m] > i /\ s[m] \in Nat
        BY <1>4, <1>5, <2>2, <2>3, <3>1
      <3>3. QED  BY <2>1, <3>2 DEF SameKey
    <2>4. n \in 1..l
      BY <1>1
    <2>5. QED  BY <2>2, <2>3, <2>4
  <1>8. CASE EndsWith(before[d], i) /\ \A j \in SentOf(d) : ~SameKey(i, j)
    <2>1. \A n \in 1..b : before[d][n] # Torn
      BY <1>1, <1>2
    <2>2. Readable(before[d]) = 1..b
      BY <2>1, WholeIsReadable DEF b
    <2>3. PICK n \in 1..b : /\ before[d][n] = i
                            /\ \A m \in 1..b : m > n => ~SameKey(before[d][m], i)
      BY <1>8, <2>2 DEF EndsWith
    <2>4. n \in 1..l /\ s[n] = i
      BY <1>1, <2>3
    <2>5. ASSUME NEW m \in 1..l, m > n PROVE ~SameKey(s[m], i)
      <3>1. CASE m \in 1..b
        BY <1>1, <2>3, <2>5, <3>1
      <3>2. CASE m \notin 1..b
        <4>1. m \in b + 1 .. l
          BY <1>1, <3>2
        <4>2. QED  BY <1>5, <1>8, <4>1 DEF SameKey
      <3>3. QED  BY <3>1, <3>2
    <2>6. QED  BY <2>4, <2>5
  <1>9. QED  BY <1>7, <1>8

\* Of every key a fetch is sent there is a last version.
LEMMA LastSentExists ==
  ASSUME NEW d, NEW i \in SentOf(d), upto \in Nat
  PROVE  \E j \in LastSent(d) : SameKey(i, j) /\ j >= i
  <1> DEFINE S == {k \in SentOf(d) : SameKey(i, k)}
  <1>1. S \subseteq 1..upto /\ i \in S
    BY DEF SentOf, Sent, SameKey
  <1>2. Last(S) \in S /\ \A k \in S : k <= Last(S)
    BY <1>1, LastIsGreatest
  <1>3. \A k \in SentOf(d) : SameKey(Last(S), k) => k \in S
    BY <1>2 DEF SameKey
  <1>4. Last(S) \in LastSent(d)
    BY <1>2, <1>3 DEF LastSent
  <1>5. Last(S) \in Nat /\ i \in Nat
    BY <1>1, <1>2
  <1>6. QED  BY <1>1, <1>2, <1>4, <1>5

\* A complete fetch holds a version of every key that was promised, and without
\* an end to its opens one that is no older.
LEMMA PromiseIsHeld ==
  ASSUME CacheInv, PromisesArePublished, PromisesHeld, pc = "fetch", NEW d \in Dates,
         NEW i, IF d \in from..to THEN i \in SentOf(d) ELSE i \in promised[d]
  PROVE  \E j \in HeldAfter(d) : SameKey(i, j) /\ (~byRange => j >= i)
  <1>1. upto \in Nat /\ upto <= Len(Provider) /\ Len(Provider) \in Nat
    BY ProviderIsTyped DEF CacheInv, CacheTypeOK
  <1>2. CASE d \in from..to
    BY <1>1, <1>2, LastSentExists DEF HeldAfter
  <1>3. CASE d \notin from..to
    <2>1. i \in promised[d] /\ i \in Records /\ Provider[i].date = d /\ i <= upto
      BY <1>3 DEF PromisesArePublished, CacheInv, CacheTypeOK
    <2>2. PICK j \in held[d] : SameKey(i, j) /\ (~byRange => j >= i)
      BY <2>1 DEF PromisesHeld
    <2>3. CASE \A k \in SentOf(d) : ~SameKey(j, k)
      BY <1>3, <2>2, <2>3 DEF HeldAfter
    <2>4. CASE \E k \in SentOf(d) : SameKey(j, k)
      <3>1. PICK k \in SentOf(d) : SameKey(j, k)
        BY <2>4
      <3>2. PICK m \in LastSent(d) : SameKey(k, m) /\ m >= k
        BY <1>1, <3>1, LastSentExists
      <3>3. SameKey(i, m) /\ m \in HeldAfter(d) /\ m \in SentOf(d)
        BY <2>2, <3>1, <3>2 DEF SameKey, HeldAfter, LastSent
      <3>4. ASSUME ~byRange PROVE m >= i
        <4>1. m \in Records /\ m \in Nat /\ i \in Nat
          BY <1>1, <2>1, <3>3 DEF SentOf, Sent, Records
        <4>2. SUFFICES ASSUME m < i PROVE FALSE
          BY <4>1
        <4>3. Provider[m].day <= Provider[i].day
          BY <2>1, <4>1, <4>2, PublishedInOrder
        <4>4. Provider[m].day >= from /\ Provider[m].date <= to /\ Provider[m].date = d
          BY <3>3 DEF SentOf, Sent, Opened
        <4>5. Provider[m].day \in Int /\ Provider[i].day \in Int /\ from \in Int
          <5>1. from \in Dates /\ Provider[m].day \in Dates /\ Provider[i].day \in Dates
            BY <2>1, <4>1, ProviderIsTyped DEF CacheInv, CacheTypeOK
          <5>2. QED  BY <5>1 DEF Dates
        <4>6. i \in 1..upto
          BY <1>1, <2>1, <4>1 DEF Records
        <4>7. i \in SentOf(d)
          BY <2>1, <3>4, <4>3, <4>4, <4>5, <4>6 DEF SentOf, Sent, Opened
        <4>8. i <= m
          BY <3>2, <3>3, <4>7 DEF LastSent, SameKey
        <4>9. QED  BY <4>1, <4>2, <4>8
      <3>5. QED  BY <3>3, <3>4
    <2>5. QED  BY <2>3, <2>4
  <1>4. QED  BY <1>2, <1>3

\* The cache starts with nothing to replay.
LEMMA InitReplayInv == CacheInit => ReplayInv
  <1> SUFFICES ASSUME CacheInit PROVE ReplayInv
    OBVIOUS
  <1>1. WholeFiles
    BY DEF CacheInit, WholeFiles, HasTorn
  <1>2. PromisesArePublished /\ PromisesHeld /\ FilesEndAsHeld
    BY DEF CacheInit, PromisesArePublished, PromisesHeld, FilesEndAsHeld
  <1>3. QED
    BY <1>1, <1>2 DEF CacheInit, ReplayInv, AppendedInOrder, ClearedAreEmpty

\* A fetch begins behind files that keep every promise.
LEMMA BeginFetchReplay ==
  ASSUME CacheInv, ReplayInv, NEW a \in Dates, NEW b \in Dates, BeginFetch(a, b)
  PROVE  ReplayInv'
  <1>1. /\ pc = "idle" /\ pc' = "fetch" /\ upto' = published /\ pos' = 0 /\ before' = bin
        /\ UNCHANGED <<published, bin, byRange, promised, held, damaged>>
    BY DEF BeginFetch, Begin, files, aux
  <1>2. WholeFiles' /\ PromisesArePublished' /\ PromisesHeld'
    BY <1>1 DEF ReplayInv, WholeFiles, PromisesArePublished, PromisesHeld, HasTorn
  <1>3. ASSUME NEW d \in Dates
        PROVE  InOrder(bin[d], Len(bin[d]), SentOf(d)', 0)
    <2>1. Len(bin[d]) \in Nat
      BY DEF CacheInv, CacheTypeOK, Files
    <2>2. \A i \in SentOf(d)' : i \in Nat /\ i > 0
      BY DEF SentOf, Sent
    <2>3. QED  BY <2>1, <2>2 DEF InOrder
  <1>4. AppendedInOrder'
    BY <1>1, <1>3 DEF AppendedInOrder
  <1>5. FilesEndAsHeld'
    BY <1>1 DEF ReplayInv, FilesEndAsHeld
  <1>6. QED
    BY <1>1, <1>2, <1>4, <1>5 DEF ReplayInv, ClearedAreEmpty

\* A record is appended whole and in its turn, or yielded and not kept.
LEMMA FetchRecordReplay ==
  ASSUME CacheInv, ReplayInv, NEW i \in Records, FetchDated(i) \/ FetchUndated(i)
  PROVE  ReplayInv'
  <1>1. /\ pc = "fetch" /\ pc' = "fetch" /\ NextRecord(i)
        /\ UNCHANGED <<published, byRange, promised, held, damaged, upto, before, from, to>>
    BY DEF FetchDated, FetchUndated, NextRecord, aux, files
  <1>2. AppendedInOrder'
    <2>1. CASE FetchDated(i)
      BY <2>1, FetchDatedInOrder DEF ReplayInv
    <2>2. CASE FetchUndated(i)
      <3>1. pos' = i /\ bin' = bin /\ \A e \in Dates : Provider[i].date # e
        BY <2>2 DEF FetchUndated, NextRecord, files, Undated, Dates
      <3>2. \A e \in Dates : InOrder(bin[e], Len(before[e]), SentOf(e), i)
        BY <1>1, <3>1, NextInOrder DEF ReplayInv
      <3>3. \A e \in Dates : SentOf(e)' = SentOf(e)
        BY <1>1 DEF SentOf, Sent, Opened
      <3>4. QED  BY <1>1, <3>1, <3>2, <3>3 DEF AppendedInOrder
    <2>3. QED  BY <2>1, <2>2
  <1>3. ASSUME NEW e \in Dates, ~HasTorn(e) PROVE ~HasTorn(e)'
    <2>1. CASE bin'[e] = bin[e]
      BY <1>3, <2>1 DEF HasTorn
    <2>2. CASE bin'[e] # bin[e]
      <3>1. /\ bin'[e] = Append(bin[e], i) /\ bin[e] \in Seq(Records \cup {Torn})
            /\ i # Torn
        <4>1. bin \in Files /\ i # Torn
          BY DEF CacheInv, CacheTypeOK, Records, Torn
        <4>2. bin' = [bin EXCEPT ![Provider[i].date] = Append(bin[Provider[i].date], i)]
          BY <2>2 DEF FetchDated, FetchUndated, files
        <4>3. QED  BY <2>2, <4>1, <4>2 DEF Files
      <3>2. /\ Len(bin'[e]) = Len(bin[e]) + 1 /\ bin'[e][Len(bin[e]) + 1] = i
            /\ Len(bin[e]) \in Nat /\ \A n \in 1..Len(bin[e]) : bin'[e][n] = bin[e][n]
        BY <3>1
      <3>3. \A n \in 1..Len(bin[e]) + 1 : n = Len(bin[e]) + 1 \/ n \in 1..Len(bin[e])
        BY <3>2
      <3>4. QED  BY <1>3, <3>1, <3>2, <3>3 DEF HasTorn
    <2>3. QED  BY <2>1, <2>2
  <1>4. WholeFiles' /\ PromisesArePublished' /\ PromisesHeld'
    BY <1>1, <1>3 DEF ReplayInv, WholeFiles, PromisesArePublished, PromisesHeld
  <1>5. FilesEndAsHeld'
    BY <1>1 DEF ReplayInv, FilesEndAsHeld
  <1>6. QED
    BY <1>1, <1>2, <1>4, <1>5 DEF ReplayInv, ClearedAreEmpty

\* A fetch that is undone or dies leaves the undamaged files as they were, and
\* those ended as they should.
LEMMA UndoneReplay ==
  ASSUME CacheInv, ReplayInv, pc = "fetch", pc' = "idle",
         UNCHANGED <<published, byRange, promised, held>>, damaged \subseteq damaged',
         \A d \in Dates \ damaged' : bin'[d] = before[d]
  PROVE  ReplayInv'
  <1>1. ASSUME NEW d \in Dates \ damaged' PROVE ~HasTorn(d)'
    <2>1. ~HasTorn(d) /\ bin'[d] = before[d]
      BY DEF ReplayInv, WholeFiles
    <2>2. /\ Len(before[d]) \in Nat /\ Len(bin[d]) \in Nat /\ Len(before[d]) <= Len(bin[d])
          /\ \A n \in 1..Len(before[d]) : before[d][n] = bin[d][n]
      BY BeforeIsStart
    <2>3. QED  BY <2>1, <2>2 DEF HasTorn
  <1>2. WholeFiles' /\ PromisesArePublished' /\ PromisesHeld'
    BY <1>1 DEF ReplayInv, WholeFiles, PromisesArePublished, PromisesHeld
  <1>3. FilesEndAsHeld'
    BY DEF ReplayInv, FilesEndAsHeld
  <1>4. QED
    BY <1>2, <1>3 DEF ReplayInv, AppendedInOrder, ClearedAreEmpty

\* A complete fetch keeps the promises it makes and those made before it.
LEMMA FinishReplay ==
  ASSUME CacheInv, ReplayInv, Finish
  PROVE  ReplayInv'
  <1>1. /\ pc = "fetch" /\ pc' = "idle" /\ Whole
        /\ damaged' = damaged \ {d \in from..to : ~HasTorn(d)}
        /\ bin' = bin /\ published' = published /\ byRange' = byRange
        /\ \A d \in Dates : promised'[d] = IF d \in from..to THEN SentOf(d) ELSE promised[d]
        /\ \A d \in Dates : held'[d] = HeldAfter(d)
    BY DEF Finish, FetchOver
  <1>2. \A d \in Dates \ damaged' : ~HasTorn(d)
    BY <1>1 DEF ReplayInv, WholeFiles
  <1>3. WholeFiles'
    BY <1>1, <1>2 DEF WholeFiles, HasTorn
  <1>4. \A d \in Dates : \A i \in SentOf(d) : Provider[i].date = d /\ i <= published
    <2>1. upto \in Nat /\ published \in Nat /\ upto <= published
      BY ProviderIsTyped DEF CacheInv, CacheTypeOK
    <2>2. QED  BY <2>1 DEF SentOf, Sent
  <1>5. PromisesArePublished'
    BY <1>1, <1>4 DEF ReplayInv, PromisesArePublished
  <1>6. PromisesHeld'
    <2>1. SUFFICES ASSUME NEW d \in Dates, NEW i \in promised'[d]
                   PROVE  \E j \in HeldAfter(d) : SameKey(i, j) /\ (~byRange => j >= i)
      BY <1>1 DEF PromisesHeld, SameKey
    <2>2. QED  BY <1>1, PromiseIsHeld DEF ReplayInv
  <1>7. FilesEndAsHeld'
    <2>1. SUFFICES ASSUME NEW d \in Dates \ damaged', NEW j \in HeldAfter(d)
                   PROVE  EndsWith(bin[d], j)
      BY <1>1 DEF FilesEndAsHeld
    <2>2. HeldAfter(d) \subseteq Nat
      BY DEF HeldAfter, LastSent, SentOf, Sent, CacheInv, CacheTypeOK, Records
    <2>3. CASE j \in LastSent(d)
      BY <1>1, <1>2, <2>2, <2>3, CompleteEndsWith DEF ReplayInv
    <2>4. CASE j \notin LastSent(d)
      <3>1. d \notin damaged /\ j \in held[d] /\ \A i \in SentOf(d) : ~SameKey(j, i)
        BY <1>1, <2>4 DEF HeldAfter
      <3>2. EndsWith(before[d], j)
        BY <1>1, <3>1 DEF ReplayInv, FilesEndAsHeld
      <3>3. QED  BY <1>1, <1>2, <2>2, <3>1, <3>2, CompleteEndsWith DEF ReplayInv
    <2>5. QED  BY <2>3, <2>4
  <1>8. QED
    BY <1>1, <1>3, <1>5, <1>6, <1>7 DEF ReplayInv, AppendedInOrder, ClearedAreEmpty

\* A clear empties its files, which are damaged until the index says so.
LEMMA ClearReplay ==
  ASSUME CacheInv, ReplayInv,
         \/ \E D \in {{d} : d \in Dates} \cup {Dates} : BeginClear(D)
         \/ \E d \in Dates : ClearFile(d)
         \/ ClearIndex \/ CrashClearing
  PROVE  ReplayInv'
  <1>1. ASSUME NEW D \in {{d} : d \in Dates} \cup {Dates}, BeginClear(D) PROVE ReplayInv'
    <2>1. /\ pc = "idle" /\ pc' = "clear" /\ todo' = cleared'
          /\ UNCHANGED <<published, bin, byRange, promised, held, damaged>>
      BY <1>1 DEF BeginClear, Begin, files, aux
    <2>2. QED
      BY <2>1 DEF ReplayInv, WholeFiles, HasTorn, PromisesArePublished, AppendedInOrder,
         PromisesHeld, FilesEndAsHeld, ClearedAreEmpty
  <1>2. ASSUME NEW d \in Dates, ClearFile(d) PROVE ReplayInv'
    <2>1. /\ pc = "clear" /\ pc' = "clear" /\ todo' = todo \ {d}
          /\ damaged' = damaged \cup {d}
          /\ UNCHANGED <<published, byRange, promised, held, cleared>>
      BY <1>2 DEF ClearFile
    <2>2. bin'[d] = <<>> /\ \A e \in Dates : e # d => bin'[e] = bin[e]
      BY <1>2 DEF ClearFile, CacheInv, CacheTypeOK, Files
    <2>3. cleared \subseteq Dates
      BY DEF CacheInv, CacheTypeOK
    <2>4. WholeFiles' /\ FilesEndAsHeld'
      BY <2>1, <2>2 DEF ReplayInv, WholeFiles, HasTorn, FilesEndAsHeld
    <2>5. ClearedAreEmpty'
      BY <2>1, <2>2, <2>3 DEF ReplayInv, ClearedAreEmpty
    <2>6. QED
      BY <2>1, <2>4, <2>5 DEF ReplayInv, PromisesArePublished, AppendedInOrder,
         PromisesHeld
  <1>3. CASE ClearIndex
    <2>1. /\ pc = "clear" /\ pc' = "idle" /\ todo = {}
          /\ damaged' = damaged \ cleared /\ UNCHANGED <<published, bin, byRange>>
          /\ \A d \in Dates : /\ promised'[d] = IF d \in cleared THEN {} ELSE promised[d]
                              /\ held'[d] = IF d \in cleared THEN {} ELSE held[d]
      BY <1>3 DEF ClearIndex, ClearOver
    <2>2. \A d \in cleared : bin[d] = <<>>
      BY <2>1 DEF ReplayInv, ClearedAreEmpty
    <2>3. WholeFiles'
      BY <2>1, <2>2 DEF ReplayInv, WholeFiles, HasTorn
    <2>4. FilesEndAsHeld' /\ PromisesArePublished' /\ PromisesHeld'
      BY <2>1 DEF ReplayInv, FilesEndAsHeld, PromisesArePublished, PromisesHeld
    <2>5. QED
      BY <2>1, <2>3, <2>4 DEF ReplayInv, AppendedInOrder, ClearedAreEmpty
  <1>4. CASE CrashClearing
    <2>1. /\ pc = "clear" /\ pc' = "idle"
          /\ UNCHANGED <<published, bin, byRange, promised, held, damaged>>
      BY <1>4 DEF CrashClearing, ClearOver, files, aux
    <2>2. QED
      BY <2>1 DEF ReplayInv, WholeFiles, HasTorn, PromisesArePublished, AppendedInOrder,
         PromisesHeld, FilesEndAsHeld, ClearedAreEmpty
  <1>5. QED  BY <1>1, <1>2, <1>3, <1>4

\* Every step keeps the promises.
LEMMA StepReplayInv == CacheInv /\ ReplayInv /\ [CacheNext]_cacheVars => ReplayInv'
  <1> SUFFICES ASSUME CacheInv, ReplayInv, [CacheNext]_cacheVars PROVE ReplayInv'
    OBVIOUS
  <1>1. CASE Publish
    <2>1. /\ published' = published + 1 /\ published \in Nat
          /\ UNCHANGED <<pc, files, fetch, clear, byRange, promised, held, damaged>>
      BY <1>1, ProviderIsTyped DEF Publish, aux, CacheInv, CacheTypeOK
    <2>2. PromisesArePublished'
      <3>1. ASSUME NEW d \in Dates, NEW i \in promised[d] PROVE i <= published'
        <4>1. i \in Nat /\ i <= published
          BY DEF CacheInv, CacheTypeOK, Records, ReplayInv, PromisesArePublished
        <4>2. QED  BY <2>1, <4>1
      <3>2. QED  BY <2>1, <3>1 DEF ReplayInv, PromisesArePublished, fetch
    <2>3. QED
      BY <2>1, <2>2 DEF ReplayInv, WholeFiles, HasTorn, AppendedInOrder, SentOf,
         Sent, Opened, PromisesHeld, ClearedAreEmpty, FilesEndAsHeld, files, fetch, clear
  <1>2. ASSUME NEW a \in Dates, NEW b \in Dates, BeginFetch(a, b) PROVE ReplayInv'
    BY <1>2, BeginFetchReplay
  <1>3. ASSUME NEW i \in Records, FetchDated(i) \/ FetchUndated(i) PROVE ReplayInv'
    BY <1>3, FetchRecordReplay
  <1>4. CASE EmptyWindow \/ UNCHANGED cacheVars
    <2>1. UNCHANGED <<pc, published, bin, complete, from, to, upto, pos, before, clear,
                      byRange, promised, held, damaged>>
      BY <1>4 DEF EmptyWindow, cacheVars, files, fetch, aux
    <2>2. QED
      BY <2>1 DEF ReplayInv, WholeFiles, HasTorn, PromisesArePublished, AppendedInOrder,
         SentOf, Sent, Opened, PromisesHeld, FilesEndAsHeld, ClearedAreEmpty, clear
  <1>5. ASSUME NEW S \in SUBSET Dates, Rollback(S) PROVE ReplayInv'
    <2>1. /\ pc = "fetch" /\ pc' = "idle" /\ bin' = Restored(S)
          /\ damaged' = damaged \cup (Touched \ S)
          /\ UNCHANGED <<published, byRange, promised, held>>
      BY <1>5 DEF Rollback, FetchOver
    <2>2. \A d \in Dates \ damaged' : bin'[d] = before[d]
      BY <2>1, RestoredFiles
    <2>3. damaged \subseteq damaged'
      BY <2>1
    <2>4. QED  BY <2>1, <2>2, <2>3, UndoneReplay
  <1>6. CASE Finish
    BY <1>6, FinishReplay
  <1>7. ASSUME NEW e \in Dates, NEW torn \in BOOLEAN, CrashFetching(e, torn) PROVE ReplayInv'
    <2>1. /\ pc = "fetch" /\ pc' = "idle"
          /\ bin' = IF torn THEN [bin EXCEPT ![e] = Append(bin[e], Torn)] ELSE bin
          /\ damaged' = damaged \cup Touched \cup IF torn THEN {e} ELSE {}
          /\ UNCHANGED <<published, byRange, promised, held>>
      BY <1>7 DEF CrashFetching, FetchOver
    <2>2. ASSUME NEW d \in Dates \ damaged' PROVE bin'[d] = before[d]
      <3>1. d \notin Touched /\ (torn => e # d)
        BY <2>1
      <3>2. bin'[d] = bin[d]
        BY <2>1, <3>1 DEF CacheInv, CacheTypeOK, Files
      <3>3. QED  BY <2>1, <3>1, <3>2 DEF Touched, CacheInv, AppendedSinceCheckpoint
    <2>3. damaged \subseteq damaged'
      BY <2>1
    <2>4. QED  BY <2>1, <2>2, <2>3, UndoneReplay
  <1>8. CASE \/ \E D \in {{d} : d \in Dates} \cup {Dates} : BeginClear(D)
             \/ \E d \in Dates : ClearFile(d)
             \/ ClearIndex \/ CrashClearing
    BY <1>8, ClearReplay
  <1>9. QED
    BY <1>1, <1>2, <1>3, <1>4, <1>5, <1>6, <1>7, <1>8 DEF CacheNext

\* For any dates and any provider: what is replayed of a date that the index
\* calls complete ends, of every key the fetch that marked it was sent, with what
\* the last complete fetch to deliver that key delivered, whatever fetches of
\* overlapping ranges came after; where JVOpen takes no end, that is no older than
\* what the date was marked with (manager.py:118-149, historical.py:717-731). But
\* for damaged dates.
THEOREM CompleteDatesReplayed == CacheSpec => []CompleteDatesReplay
  <1>1. CacheInv /\ ReplayInv => CompleteDatesReplay
    BY DEF CacheInv, CacheTypeOK, ReplayInv, FilesEndAsHeld, PromisesHeld, CompleteDatesReplay
  <1>2. QED
    BY InitCacheInv, StepCacheInv, InitReplayInv, StepReplayInv, <1>1, PTL DEF CacheSpec

=============================================================================
