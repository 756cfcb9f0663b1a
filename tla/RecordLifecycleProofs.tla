----------------------- MODULE RecordLifecycleProofs -----------------------
(***************************************************************************)
(* Proofs about RecordLifecycle for any records and any batches of them.   *)
(***************************************************************************)
EXTENDS RecordLifecycle, WellFoundedInduction, TLAPS

---------------------------------------------------------------------------
(* Recursion over a sequence. *)

\* What holds of 0, and of a number whenever of the one before, holds up to n.
LEMMA UpTo ==
  ASSUME NEW n \in Nat, NEW T, 0 \in T, \A i \in 1..n : i - 1 \in T => i \in T
  PROVE  n \in T
  <1> DEFINE S == {i \in 0..n : i \notin T}
             R == OpToRel(<, Nat)
  <1>1. SUFFICES ASSUME n \notin T PROVE FALSE
    OBVIOUS
  <1> n \in S
    BY <1>1
  <1>2. IsWellFoundedOn(R, Nat)
    BY NatLessThanWellFounded
  <1>3. \A x, y \in Nat : <<y, x>> \in R <=> y < x
    BY DEF OpToRel
  <1> HIDE DEF R
  <1>4. S \subseteq Nat
    OBVIOUS
  <1>5. \E x \in S : \A y \in S : ~ (<<y, x>> \in R)
    BY <1>2, <1>4, WFMin
  <1>6. PICK x \in S : \A y \in S : ~ (y < x)
    BY <1>3, <1>4, <1>5
  <1>7. x \in 0..n /\ x \notin T /\ x # 0
    OBVIOUS
  <1>8. x - 1 \in 0..n /\ x - 1 < x /\ x \in 1..n
    BY <1>7
  <1>9. x - 1 \in T
    BY <1>6, <1>8
  <1>10. QED  BY <1>7, <1>8, <1>9

\* Steps F[<<x, 1>>], ..., F[<<x, n>>] that stay inside a set, and the ways
\* they take.
StaysIn(S, n, F) == \A x \in S : \A i \in 1..n : F[<<x, i>>] \in S
Ways(S, n, b, F) == {g \in [0..n -> S] : g[0] = b /\ \A i \in 1..n : g[i] = F[<<g[i - 1], i>>]}

\* Such steps can be taken one after the other.
LEMMA Iterates ==
  ASSUME NEW S, NEW n \in Nat, NEW b \in S, NEW F, StaysIn(S, n, F)
  PROVE  Ways(S, n, b, F) # {}
  <1> DEFINE Goes(m) == \E g \in [0..m -> S] : g[0] = b /\ \A i \in 1..m : g[i] = F[<<g[i - 1], i>>]
             T == {m \in 0..n : Goes(m)}
  <1>1. Goes(0)
    <2>1. [i \in 0..0 |-> b] \in [0..0 -> S] /\ [i \in 0..0 |-> b][0] = b
      OBVIOUS
    <2>2. 1..0 = {}
      OBVIOUS
    <2>3. QED  BY <2>1, <2>2
  <1>2. ASSUME NEW m \in 0..n, m < n, Goes(m) PROVE Goes(m + 1)
    <2>1. PICK g \in [0..m -> S] : g[0] = b /\ \A i \in 1..m : g[i] = F[<<g[i - 1], i>>]
      BY <1>2
    <2> DEFINE x == F[<<g[m], m + 1>>]
               h == [i \in 0..(m + 1) |-> IF i = m + 1 THEN x ELSE g[i]]
    <2>2. x \in S
      <3>1. g[m] \in S /\ m + 1 \in 1..n
        BY <1>2
      <3>2. QED  BY <3>1 DEF StaysIn
    <2>3. \A i \in 0..m : h[i] = g[i]
      OBVIOUS
    <2>4. h[m + 1] = x
      OBVIOUS
    <2>5. h \in [0..(m + 1) -> S]
      BY <2>2
    <2> HIDE DEF h
    <2>6. h[0] = b
      BY <2>1, <2>3
    <2>7. ASSUME NEW i \in 1..(m + 1) PROVE h[i] = F[<<h[i - 1], i>>]
      <3>1. CASE i = m + 1
        <4>1. i - 1 = m /\ m \in 0..m
          BY <3>1
        <4>2. QED  BY <2>3, <2>4, <3>1, <4>1
      <3>2. CASE i # m + 1
        <4>1. i \in 1..m /\ i \in 0..m /\ i - 1 \in 0..m
          BY <3>2
        <4>2. QED  BY <2>1, <2>3, <4>1
      <3>3. QED  BY <3>1, <3>2
    <2>8. QED  BY <2>5, <2>6, <2>7
  <1>3. 0 \in T
    BY <1>1
  <1>4. ASSUME NEW i \in 1..n, i - 1 \in T PROVE i \in T
    <2>1. Goes(i - 1) /\ i - 1 \in 0..n /\ i - 1 < n /\ (i - 1) + 1 = i
      BY <1>4
    <2> HIDE DEF Goes
    <2>2. Goes(i)
      BY <1>2, <2>1
    <2>3. QED  BY <2>2
  <1>5. n \in T
    <2> HIDE DEF T
    <2>1. QED  BY <1>3, <1>4, UpTo
  <1>6. QED  BY <1>5 DEF Ways

---------------------------------------------------------------------------
(* What is stored. *)

\* The dictionaries whose rows may be stored.
Lawful(k, p) == p \in Dictionaries /\ (Erase(p) \/ InContract(p) \/ Unguarded(k, p.type))

\* Where a race has one snapshot at a time, all rows are of the type that is
\* stored: a record of another type would share its race with them.
Sound(k, b) ==
    /\ OfficialRows(k, b)
    /\ Snapshotted(k) => OneSnapshot(b) /\ \A r \in b : r.type = k.type

\* What an import buffers. Native snapshots are replaced at once.
Buffered(k, p) ==
    /\ Lawful(k, p)
    /\ k.route \in Imports /\ p.type = k.type
    /\ Snapshotted(k) => k.route = "standard"

LEMMA NothingIsSound ==
  ASSUME NEW k PROVE Sound(k, {})
  BY DEF Sound, OfficialRows, OneSnapshot

LEMMA FewerIsSound ==
  ASSUME NEW k, NEW b, Sound(k, b), NEW c, c \subseteq b PROVE Sound(k, c)
  BY DEF Sound, OfficialRows, OneSnapshot

LEMMA WithoutIsSound ==
  ASSUME NEW k, NEW p, NEW b, Sound(k, b) PROVE Sound(k, Without(k, p, b))
  BY FewerIsSound DEF Without

LEMMA LawfulHolds ==
  ASSUME NEW k, NEW p, Lawful(k, p), Holds(k, p) = "odd" PROVE Unguarded(k, p.type)
  <1>1. p.n # "odd"
    BY DEF Lawful, Dictionaries
  <1>2. QED  BY <1>1 DEF Lawful, Holds

\* Rows of one record, beside rows that its snapshot does not speak for.
LEMMA AddedIsSound ==
  ASSUME NEW k, NEW p, Lawful(k, p), NEW b, Sound(k, b), NEW c,
         Snapshotted(k) => p.type = k.type,
         \A r \in c : \/ (r \in b /\ (Snapshotted(k) => ~ Named(k, p, r)))
                     \/ (r.type = p.type /\ r.id = p.id /\ r.is = Holds(k, p))
  PROVE  Sound(k, c)
  <1>1. OfficialRows(k, c)
    BY LawfulHolds DEF OfficialRows, Sound
  <1>2. ASSUME Snapshotted(k) PROVE OneSnapshot(c) /\ \A r \in c : r.type = k.type
    <2>1. ~ k.ts
      BY <1>2 DEF Snapshotted
    <2>2. \A r \in c : r.type = k.type
      BY <1>2 DEF Sound
    <2>3. \A r \in c : (r \in b /\ r.id # p.id) \/ (r.id = p.id /\ r.is = Holds(k, p))
      BY <1>2, <2>1, <2>2 DEF Named, Timed
    <2>4. OneSnapshot(c)
      BY <1>2, <2>3 DEF OneSnapshot, Sound
    <2>5. QED  BY <2>2, <2>4
  <1>3. QED  BY <1>1, <1>2 DEF Sound

LEMMA UpsertAdds ==
  ASSUME NEW k, NEW p, NEW b, NEW slots, NEW r,
         r \in _handle_new_record(k, p, slots, b)
  PROVE  r \in b \/ (r.type = p.type /\ r.id = p.id /\ r.is = Holds(k, p))
  BY DEF _handle_new_record, Upsert, _prepare_data_for_db

LEMMA FiledAdds ==
  ASSUME NEW k, NEW p, NEW r, r \in Filed(k, p)
  PROVE  r.type = p.type /\ r.id = p.id /\ r.is = Holds(k, p)
  BY DEF Filed, _prepare_data_for_db

\* Rows over rows: where a race does not have one snapshot.
LEMMA NewRowsAreSound ==
  ASSUME NEW k, NEW p, Lawful(k, p), NEW b, Sound(k, b), NEW slots, ~ Snapshotted(k)
  PROVE  Sound(k, _handle_new_record(k, p, slots, b))
  <1>1. \A r \in _handle_new_record(k, p, slots, b) :
           r \in b \/ (r.type = p.type /\ r.id = p.id /\ r.is = Holds(k, p))
    BY UpsertAdds
  <1>2. QED  BY <1>1, AddedIsSound

\* A snapshot instead of the last one.
LEMMA SnapshotIsSound ==
  ASSUME NEW k, NEW p, Lawful(k, p), NEW b, Sound(k, b), Snapshotted(k) => p.type = k.type
  PROVE  Sound(k, _replace_native_snapshot(k, p, b))
  <1>1. _replace_native_snapshot(k, p, b) = _handle_new_record(k, p, Incoming(p), Without(k, p, b))
    BY DEF _replace_native_snapshot, replace_mining_native_snapshot, replace_odds_native_snapshot
  <1>2. \A r \in _replace_native_snapshot(k, p, b) :
           r \in Without(k, p, b) \/ (r.type = p.type /\ r.id = p.id /\ r.is = Holds(k, p))
    BY <1>1, UpsertAdds
  <1>3. \A r \in Without(k, p, b) : r \in b /\ ~ Named(k, p, r)
    BY DEF Without
  <1>4. QED  BY <1>2, <1>3, AddedIsSound

\* What an import writes of one record.
LEMMA WritingIsSound ==
  ASSUME NEW k, NEW p, Buffered(k, p), NEW b, Sound(k, b)
  PROVE  Sound(k, Written(k, b, p))
  <1>1. Lawful(k, p) /\ (Snapshotted(k) => p.type = k.type)
    BY DEF Buffered
  <1>2. Snapshotted(k) => _is_standard_split(k, p)
    BY DEF Buffered, Snapshotted, _is_standard_split, MiningTypes
  <1>3. CASE _is_standard_split(k, p)
    <2>1. Written(k, b, p) = Without(k, p, b) \cup Filed(k, p)
      <3>1. p.type \in OddsTypes \/ p.type \in VoteTypes
        BY <1>3 DEF _is_standard_split, SplitTypes
      <3>2. p.type \notin _ORDERED_STORAGE(k)
        BY <3>1, <1>3 DEF _ORDERED_STORAGE, OddsTypes, VoteTypes
      <3>3. QED
        BY <1>3, <3>1, <3>2 DEF Written, insert_standard_odds_batch, insert_standard_vote_batch
    <2>2. \A r \in Without(k, p, b) : r \in b /\ ~ Named(k, p, r)
      BY DEF Without
    <2>3. \A r \in Filed(k, p) : r.type = p.type /\ r.id = p.id /\ r.is = Holds(k, p)
      BY FiledAdds
    <2>4. QED  BY <1>1, <2>1, <2>2, <2>3, AddedIsSound
  <1>4. CASE ~ _is_standard_split(k, p)
    <2>1. Written(k, b, p) = Without(k, p, b) \/ Written(k, b, p) = Upsert(b, Filed(k, p))
      BY <1>4 DEF Written
    <2>2. \A r \in Upsert(b, Filed(k, p)) : r \in b \/ r \in Filed(k, p)
      BY DEF Upsert
    <2>3. \A r \in Filed(k, p) : r.type = p.type /\ r.id = p.id /\ r.is = Holds(k, p)
      BY FiledAdds
    <2>4. Sound(k, Upsert(b, Filed(k, p)))
      BY <1>1, <1>2, <1>4, <2>2, <2>3, AddedIsSound
    <2>5. QED  BY <2>1, <2>4, WithoutIsSound
  <1>5. QED  BY <1>3, <1>4

LEMMA WrittenAdds ==
  ASSUME NEW k, NEW p, NEW b PROVE Written(k, b, p) \subseteq b \cup Filed(k, p)
  BY DEF Written, insert_standard_odds_batch, insert_standard_vote_batch, Without, Upsert

---------------------------------------------------------------------------
(* Records one after the other. Each of the recursions goes step by step:  *)
(* the recursive function exists, as the steps stay inside a set, and is   *)
(* the one that is chosen. So what every step keeps, the whole keeps.      *)

\* What an import has buffered.
FlushPath(k, q, b, h) ==
    /\ h[0] = b /\ _flush_batch(k, b, q) = h[Len(q)]
    /\ \A i \in 1..Len(q) : h[i] = Written(k, h[i - 1], q[i])

LEMMA FlushGoes ==
  ASSUME NEW k, NEW q, Len(q) \in Nat, NEW b
  PROVE  \E h : FlushPath(k, q, b, h)
  <1> DEFINE n == Len(q)
             S == SUBSET (b \cup UNION {Filed(k, q[i]) : i \in 1..n})
             F == [x \in S \X (1..n) |-> Written(k, x[1], q[x[2]])]
             Runs(h) == h = [i \in 0..n |-> IF i = 0 THEN b ELSE Written(k, h[i - 1], q[i])]
             after == CHOOSE h : Runs(h)
  <1>1. ASSUME NEW x \in S, NEW i \in 1..n PROVE Written(k, x, q[i]) \in S
    <2>1. Written(k, x, q[i]) \subseteq x \cup Filed(k, q[i])
      BY WrittenAdds
    <2>2. QED  BY <2>1
  <1>2. StaysIn(S, n, F)
    BY <1>1 DEF StaysIn
  <1>3. \A x \in S : \A i \in 1..n : F[<<x, i>>] = Written(k, x, q[i])
    OBVIOUS
  <1>4. n \in Nat /\ b \in S
    OBVIOUS
  <1> HIDE DEF n, S, F
  <1>5. PICK g \in [0..n -> S] : g[0] = b /\ \A i \in 1..n : g[i] = F[<<g[i - 1], i>>]
    <2>1. Ways(S, n, b, F) # {}
      BY <1>2, <1>4, Iterates
    <2>2. QED  BY <2>1 DEF Ways
  <1>6. \A i \in 1..n : g[i] = Written(k, g[i - 1], q[i])
    <2>1. \A i \in 1..n : i - 1 \in 0..n
      BY <1>4
    <2>2. QED  BY <1>3, <1>5, <2>1
  <1>7. \A i \in 0..n : g[i] = IF i = 0 THEN b ELSE Written(k, g[i - 1], q[i])
    <2>1. \A i \in 0..n : i = 0 \/ i \in 1..n
      BY <1>4
    <2>2. QED  BY <1>5, <1>6, <2>1
  <1>8. Runs(g)
    BY <1>5, <1>7
  <1>9. Runs(after)
    <2> HIDE DEF Runs
    <2>1. QED  BY <1>8
  <1>10. \A i \in 0..n : after[i] = IF i = 0 THEN b ELSE Written(k, after[i - 1], q[i])
    <2> HIDE DEF after
    <2>1. QED  BY <1>9
  <1>11. _flush_batch(k, b, q) = after[n]
    BY Zenon DEF _flush_batch, n
  <1> HIDE DEF after
  <1>12. 0 \in 0..n /\ \A i \in 1..n : i \in 0..n /\ i # 0
    BY <1>4
  <1>13. after[0] = b /\ \A i \in 1..n : after[i] = Written(k, after[i - 1], q[i])
    BY <1>10, <1>12
  <1>14. QED  BY <1>11, <1>13 DEF n, FlushPath

\* It is written soundly.
LEMMA FlushIsSound ==
  ASSUME NEW k, NEW q, Len(q) \in Nat, NEW b, Sound(k, b),
         \A i \in 1..Len(q) : Buffered(k, q[i])
  PROVE  Sound(k, _flush_batch(k, b, q))
  <1>1. PICK h : FlushPath(k, q, b, h)
    BY FlushGoes
  <1> DEFINE T == {i \in Nat : Sound(k, h[i])}
  <1>2. 0 \in T
    BY <1>1 DEF FlushPath
  <1>3. \A i \in 1..Len(q) : i - 1 \in T => i \in T
    BY <1>1, WritingIsSound DEF FlushPath
  <1>4. Len(q) \in T
    <2> HIDE DEF T
    <2>1. QED  BY ONLY Len(q) \in Nat, <1>2, <1>3, UpTo, Zenon
  <1>5. QED  BY <1>1, <1>4 DEF FlushPath

\* The rows that come for a record.
NewRows(k, p) == {_prepare_data_for_db(k, p, slot) : slot \in Incoming(p)}

LEMMA NewRecordAdds ==
  ASSUME NEW k, NEW p, NEW b
  PROVE  _handle_new_record(k, p, Incoming(p), b) \subseteq b \cup NewRows(k, p)
  BY DEF _handle_new_record, Upsert, NewRows

LEMMA SnapshotAdds ==
  ASSUME NEW k, NEW p, NEW b
  PROVE  _replace_native_snapshot(k, p, b) \subseteq b \cup NewRows(k, p)
  <1>1. _replace_native_snapshot(k, p, b) = _handle_new_record(k, p, Incoming(p), Without(k, p, b))
    BY DEF _replace_native_snapshot, replace_mining_native_snapshot, replace_odds_native_snapshot
  <1>2. Without(k, p, b) \subseteq b
    BY DEF Without
  <1>3. QED  BY <1>1, <1>2, NewRecordAdds

\* One row after the other, an erase among them.
LEMMA SingleIsSound ==
  ASSUME NEW k, NEW p, NEW slots, NEW b, Sound(k, b),
         ~ IsDelete(p) => Lawful(k, p) /\ ~ Snapshotted(k)
  PROVE  Sound(k, _process_single_record(k, p, slots, b))
  <1>1. _process_single_record(k, p, slots, b) = b \/ _process_single_record(k, p, slots, b) = Without(k, p, b)
        \/ (~ IsDelete(p) /\ _process_single_record(k, p, slots, b) = _handle_new_record(k, p, slots, b))
    BY DEF _process_single_record, _handle_delete_record
  <1>2. QED  BY <1>1, WithoutIsSound, NewRowsAreSound

LEMMA PerformedIsSound ==
  ASSUME NEW k, ~ Snapshotted(k), NEW p, Lawful(k, p) \/ (IsDelete(p) /\ ~ Whole(p)), NEW b, Sound(k, b)
  PROVE  Sound(k, Performed(k, p, b))
  BY SingleIsSound, SnapshotIsSound DEF Performed, IsDelete

LEMMA PerformedAdds ==
  ASSUME NEW k, NEW p, NEW b PROVE Performed(k, p, b) \subseteq b \cup NewRows(k, p)
  <1>1. _process_single_record(k, p, Incoming(p), b) \subseteq b \cup _handle_new_record(k, p, Incoming(p), b)
    BY DEF _process_single_record, _handle_delete_record, Without
  <1>2. QED  BY <1>1, NewRecordAdds, SnapshotAdds DEF Performed

LEMMA ReplacedIsSound ==
  ASSUME NEW k, ~ Snapshotted(k), NEW q, NEW p, Leads(k, q, p) => Lawful(k, p), NEW b, Sound(k, b)
  PROVE  Sound(k, Replaced(k, q, p, b))
  BY SnapshotIsSound DEF Replaced

LEMMA ReplacedAdds ==
  ASSUME NEW k, NEW q, NEW p, NEW b PROVE Replaced(k, q, p, b) \subseteq b \cup NewRows(k, p)
  BY SnapshotAdds DEF Replaced

LEMMA ByTableIsSound ==
  ASSUME NEW k, ~ Snapshotted(k), NEW q, NEW p, Groupable(k, p) => Lawful(k, p), NEW b, Sound(k, b)
  PROVE  Sound(k, ByTable(k, q, p, b))
  BY NewRowsAreSound DEF ByTable

LEMMA ByTableAdds ==
  ASSUME NEW k, NEW q, NEW p, NEW b PROVE ByTable(k, q, p, b) \subseteq b \cup NewRows(k, p)
  BY NewRecordAdds DEF ByTable

\* A batch in its order.
InOrderPath(k, q, b, h) ==
    /\ h[0] = b /\ InOrder(k, q, b) = h[Len(q)]
    /\ \A i \in 1..Len(q) : h[i] = Performed(k, q[i], h[i - 1])

LEMMA InOrderGoes ==
  ASSUME NEW k, NEW q, Len(q) \in Nat, NEW b
  PROVE  \E h : InOrderPath(k, q, b, h)
  <1> DEFINE n == Len(q)
             S == SUBSET (b \cup UNION {NewRows(k, q[i]) : i \in 1..n})
             F == [x \in S \X (1..n) |-> Performed(k, q[x[2]], x[1])]
             Runs(h) == h = [i \in 0..n |-> IF i = 0 THEN b ELSE Performed(k, q[i], h[i - 1])]
             after == CHOOSE h : Runs(h)
  <1>1. ASSUME NEW x \in S, NEW i \in 1..n PROVE Performed(k, q[i], x) \in S
    <2>1. Performed(k, q[i], x) \subseteq x \cup NewRows(k, q[i])
      BY PerformedAdds
    <2>2. QED  BY <2>1
  <1>2. StaysIn(S, n, F)
    BY <1>1 DEF StaysIn
  <1>3. \A x \in S : \A i \in 1..n : F[<<x, i>>] = Performed(k, q[i], x)
    OBVIOUS
  <1>4. n \in Nat /\ b \in S
    OBVIOUS
  <1> HIDE DEF n, S, F
  <1>5. PICK g \in [0..n -> S] : g[0] = b /\ \A i \in 1..n : g[i] = F[<<g[i - 1], i>>]
    <2>1. Ways(S, n, b, F) # {}
      BY <1>2, <1>4, Iterates
    <2>2. QED  BY <2>1 DEF Ways
  <1>6. \A i \in 1..n : g[i] = Performed(k, q[i], g[i - 1])
    <2>1. \A i \in 1..n : i - 1 \in 0..n
      BY <1>4
    <2>2. QED  BY <1>3, <1>5, <2>1
  <1>7. \A i \in 0..n : g[i] = IF i = 0 THEN b ELSE Performed(k, q[i], g[i - 1])
    <2>1. \A i \in 0..n : i = 0 \/ i \in 1..n
      BY <1>4
    <2>2. QED  BY <1>5, <1>6, <2>1
  <1>8. Runs(g)
    BY <1>5, <1>7
  <1>9. Runs(after)
    <2> HIDE DEF Runs
    <2>1. QED  BY <1>8
  <1>10. \A i \in 0..n : after[i] = IF i = 0 THEN b ELSE Performed(k, q[i], after[i - 1])
    <2> HIDE DEF after
    <2>1. QED  BY <1>9
  <1>11. InOrder(k, q, b) = after[n]
    BY Zenon DEF InOrder, n
  <1> HIDE DEF after
  <1>12. 0 \in 0..n /\ \A i \in 1..n : i \in 0..n /\ i # 0
    BY <1>4
  <1>13. after[0] = b /\ \A i \in 1..n : after[i] = Performed(k, q[i], after[i - 1])
    BY <1>10, <1>12
  <1>14. QED  BY <1>11, <1>13 DEF n, InOrderPath

\* It is stored soundly.
LEMMA InOrderIsSound ==
  ASSUME NEW k, NEW q, Len(q) \in Nat, NEW b, Sound(k, b),
         ~ Snapshotted(k),
         \A i \in 1..Len(q) : Lawful(k, q[i]) \/ (IsDelete(q[i]) /\ ~ Whole(q[i]))
  PROVE  Sound(k, InOrder(k, q, b))
  <1>1. PICK h : InOrderPath(k, q, b, h)
    BY InOrderGoes
  <1> DEFINE T == {i \in Nat : Sound(k, h[i])}
  <1>2. 0 \in T
    BY <1>1 DEF InOrderPath
  <1>3. \A i \in 1..Len(q) : i - 1 \in T => i \in T
    BY <1>1, PerformedIsSound DEF InOrderPath
  <1>4. Len(q) \in T
    <2> HIDE DEF T
    <2>1. QED  BY ONLY Len(q) \in Nat, <1>2, <1>3, UpTo, Zenon
  <1>5. QED  BY <1>1, <1>4 DEF InOrderPath

\* The snapshots of a batch, and its rows by table.
SnapshotsPath(k, q, b, h) ==
    /\ h[0] = b /\ SnapshotsFirst(k, q, b) = h[Len(q)]
    /\ \A i \in 1..Len(q) : h[i] = Replaced(k, q, q[i], h[i - 1])

LEMMA SnapshotsGo ==
  ASSUME NEW k, NEW q, Len(q) \in Nat, NEW b
  PROVE  \E h : SnapshotsPath(k, q, b, h)
  <1> DEFINE n == Len(q)
             S == SUBSET (b \cup UNION {NewRows(k, q[i]) : i \in 1..n})
             F == [x \in S \X (1..n) |-> Replaced(k, q, q[x[2]], x[1])]
             Runs(h) == h = [i \in 0..n |-> IF i = 0 THEN b ELSE Replaced(k, q, q[i], h[i - 1])]
             after == CHOOSE h : Runs(h)
  <1>1. ASSUME NEW x \in S, NEW i \in 1..n PROVE Replaced(k, q, q[i], x) \in S
    <2>1. Replaced(k, q, q[i], x) \subseteq x \cup NewRows(k, q[i])
      BY ReplacedAdds
    <2>2. QED  BY <2>1
  <1>2. StaysIn(S, n, F)
    BY <1>1 DEF StaysIn
  <1>3. \A x \in S : \A i \in 1..n : F[<<x, i>>] = Replaced(k, q, q[i], x)
    OBVIOUS
  <1>4. n \in Nat /\ b \in S
    OBVIOUS
  <1> HIDE DEF n, S, F
  <1>5. PICK g \in [0..n -> S] : g[0] = b /\ \A i \in 1..n : g[i] = F[<<g[i - 1], i>>]
    <2>1. Ways(S, n, b, F) # {}
      BY <1>2, <1>4, Iterates
    <2>2. QED  BY <2>1 DEF Ways
  <1>6. \A i \in 1..n : g[i] = Replaced(k, q, q[i], g[i - 1])
    <2>1. \A i \in 1..n : i - 1 \in 0..n
      BY <1>4
    <2>2. QED  BY <1>3, <1>5, <2>1
  <1>7. \A i \in 0..n : g[i] = IF i = 0 THEN b ELSE Replaced(k, q, q[i], g[i - 1])
    <2>1. \A i \in 0..n : i = 0 \/ i \in 1..n
      BY <1>4
    <2>2. QED  BY <1>5, <1>6, <2>1
  <1>8. Runs(g)
    BY <1>5, <1>7
  <1>9. Runs(after)
    <2> HIDE DEF Runs
    <2>1. QED  BY <1>8
  <1>10. \A i \in 0..n : after[i] = IF i = 0 THEN b ELSE Replaced(k, q, q[i], after[i - 1])
    <2> HIDE DEF after
    <2>1. QED  BY <1>9
  <1>11. SnapshotsFirst(k, q, b) = after[n]
    BY Zenon DEF SnapshotsFirst, n
  <1> HIDE DEF after
  <1>12. 0 \in 0..n /\ \A i \in 1..n : i \in 0..n /\ i # 0
    BY <1>4
  <1>13. after[0] = b /\ \A i \in 1..n : after[i] = Replaced(k, q, q[i], after[i - 1])
    BY <1>10, <1>12
  <1>14. QED  BY <1>11, <1>13 DEF n, SnapshotsPath

RowsPath(k, q, b, h) ==
    /\ h[0] = b /\ RowsByTable(k, q, b) = h[Len(q)]
    /\ \A i \in 1..Len(q) : h[i] = ByTable(k, q, q[i], h[i - 1])

LEMMA RowsGo ==
  ASSUME NEW k, NEW q, Len(q) \in Nat, NEW b
  PROVE  \E h : RowsPath(k, q, b, h)
  <1> DEFINE n == Len(q)
             S == SUBSET (b \cup UNION {NewRows(k, q[i]) : i \in 1..n})
             F == [x \in S \X (1..n) |-> ByTable(k, q, q[x[2]], x[1])]
             Runs(h) == h = [i \in 0..n |-> IF i = 0 THEN b ELSE ByTable(k, q, q[i], h[i - 1])]
             after == CHOOSE h : Runs(h)
  <1>1. ASSUME NEW x \in S, NEW i \in 1..n PROVE ByTable(k, q, q[i], x) \in S
    <2>1. ByTable(k, q, q[i], x) \subseteq x \cup NewRows(k, q[i])
      BY ByTableAdds
    <2>2. QED  BY <2>1
  <1>2. StaysIn(S, n, F)
    BY <1>1 DEF StaysIn
  <1>3. \A x \in S : \A i \in 1..n : F[<<x, i>>] = ByTable(k, q, q[i], x)
    OBVIOUS
  <1>4. n \in Nat /\ b \in S
    OBVIOUS
  <1> HIDE DEF n, S, F
  <1>5. PICK g \in [0..n -> S] : g[0] = b /\ \A i \in 1..n : g[i] = F[<<g[i - 1], i>>]
    <2>1. Ways(S, n, b, F) # {}
      BY <1>2, <1>4, Iterates
    <2>2. QED  BY <2>1 DEF Ways
  <1>6. \A i \in 1..n : g[i] = ByTable(k, q, q[i], g[i - 1])
    <2>1. \A i \in 1..n : i - 1 \in 0..n
      BY <1>4
    <2>2. QED  BY <1>3, <1>5, <2>1
  <1>7. \A i \in 0..n : g[i] = IF i = 0 THEN b ELSE ByTable(k, q, q[i], g[i - 1])
    <2>1. \A i \in 0..n : i = 0 \/ i \in 1..n
      BY <1>4
    <2>2. QED  BY <1>5, <1>6, <2>1
  <1>8. Runs(g)
    BY <1>5, <1>7
  <1>9. Runs(after)
    <2> HIDE DEF Runs
    <2>1. QED  BY <1>8
  <1>10. \A i \in 0..n : after[i] = IF i = 0 THEN b ELSE ByTable(k, q, q[i], after[i - 1])
    <2> HIDE DEF after
    <2>1. QED  BY <1>9
  <1>11. RowsByTable(k, q, b) = after[n]
    BY Zenon DEF RowsByTable, n
  <1> HIDE DEF after
  <1>12. 0 \in 0..n /\ \A i \in 1..n : i \in 0..n /\ i # 0
    BY <1>4
  <1>13. after[0] = b /\ \A i \in 1..n : after[i] = ByTable(k, q, q[i], after[i - 1])
    BY <1>10, <1>12
  <1>14. QED  BY <1>11, <1>13 DEF n, RowsPath

\* Both are stored soundly.
LEMMA SnapshotsAreSound ==
  ASSUME NEW k, NEW q, Len(q) \in Nat, NEW b, Sound(k, b),
         ~ Snapshotted(k),
         \A i \in 1..Len(q) : Leads(k, q, q[i]) => Lawful(k, q[i])
  PROVE  Sound(k, SnapshotsFirst(k, q, b))
  <1>1. PICK h : SnapshotsPath(k, q, b, h)
    BY SnapshotsGo
  <1> DEFINE T == {i \in Nat : Sound(k, h[i])}
  <1>2. 0 \in T
    BY <1>1 DEF SnapshotsPath
  <1>3. \A i \in 1..Len(q) : i - 1 \in T => i \in T
    BY <1>1, ReplacedIsSound DEF SnapshotsPath
  <1>4. Len(q) \in T
    <2> HIDE DEF T
    <2>1. QED  BY ONLY Len(q) \in Nat, <1>2, <1>3, UpTo, Zenon
  <1>5. QED  BY <1>1, <1>4 DEF SnapshotsPath

LEMMA RowsAreSound ==
  ASSUME NEW k, NEW q, Len(q) \in Nat, NEW b, Sound(k, b),
         ~ Snapshotted(k),
         \A i \in 1..Len(q) : Groupable(k, q[i]) => Lawful(k, q[i])
  PROVE  Sound(k, RowsByTable(k, q, b))
  <1>1. PICK h : RowsPath(k, q, b, h)
    BY RowsGo
  <1> DEFINE T == {i \in Nat : Sound(k, h[i])}
  <1>2. 0 \in T
    BY <1>1 DEF RowsPath
  <1>3. \A i \in 1..Len(q) : i - 1 \in T => i \in T
    BY <1>1, ByTableIsSound DEF RowsPath
  <1>4. Len(q) \in T
    <2> HIDE DEF T
    <2>1. QED  BY ONLY Len(q) \in Nat, <1>2, <1>3, UpTo, Zenon
  <1>5. QED  BY <1>1, <1>4 DEF RowsPath

---------------------------------------------------------------------------
(* What is let through. *)

\* What an importer validates is within its contract, an erase aside.
LEMMA ValidatedIsOfficial ==
  ASSUME NEW p \in Dictionaries, Validated(p),
         p.type \notin {"TK", "KS", "CK", "WH"} \cup MiningTypes
  PROVE  Erase(p) \/ InContract(p)
  <1>1. CASE p.type \in OddsTypes
    BY <1>1 DEF OddsTypes, VoteTypes, Unruled, Validated, validate_odds_record, odds_fields, KeyedBody, InContract
  <1>2. CASE p.type \in {"AV", "JC", "WE", "CC", "TC"}
    BY <1>2 DEF OddsTypes, VoteTypes, Unruled, Validated, InContract, KeyedBody, validate_av_record, av_fields, validate_jc_record, jc_fields,
       validate_we_record, we_fields, validate_cc_record, cc_fields, validate_tc_record, tc_fields
  <1>3. CASE p.type \in {"HC", "HN", "HS", "SK", "UM"}
    BY <1>3 DEF OddsTypes, VoteTypes, Unruled, Validated, InContract, KeyedBody, validate_hc_record, hc_fields, validate_hn_record, hn_fields,
       validate_hs_record, hs_fields, validate_sk_record, sk_fields, validate_um_record, um_fields
  <1>4. CASE p.type \in {"HR", "SE", "CS", "JG", "WC", "WF"}
    BY <1>4 DEF OddsTypes, VoteTypes, Unruled, Validated, InContract, Erase, validate_hr_record, hr_fields, validate_se_record, se_fields,
       cs_fields, validate_jg_record, validate_wc_record, validate_wf_record
  <1>5. CASE p.type \in VoteTypes
    BY <1>5 DEF OddsTypes, VoteTypes, Unruled, Validated, InContract, KeyedBody, validate_h1_record, h1_fields, validate_h6_record, h6_fields
  <1>6. CASE p.type \in Unruled
    BY <1>6 DEF InContract
  <1>7. p.type \in RecordTypes
    BY DEF Dictionaries
  <1>8. QED
    BY <1>1, <1>2, <1>3, <1>4, <1>5, <1>6, <1>7 DEF RecordTypes, ExpandedTypes, Unruled, VoteTypes

\* What only a parser validates is within its contract as it comes from there.
LEMMA ParsedIsOfficial ==
  ASSUME NEW p \in Dictionaries, Parse(p) # {},
         p.type \in {"TK", "KS", "CK", "WH"} \cup MiningTypes
  PROVE  Erase(p) \/ InContract(p)
  <1>1. CASE p.type = "TK"
    <2>1. tk(p) # {}
      BY <1>1 DEF Parse
    <2>2. QED
      BY <1>1, <2>1 DEF tk, Rows, One, InContract, OddsTypes, VoteTypes, Unruled, Erase
  <1>2. CASE p.type = "KS"
    <2>1. ks(p) # {}
      BY <1>2 DEF Parse
    <2>2. QED
      BY <1>2, <2>1 DEF ks, Rows, One, InContract, OddsTypes, VoteTypes, Unruled, Erase
  <1>3. CASE p.type = "CK"
    <2>1. ck(p) # {}
      BY <1>3 DEF Parse
    <2>2. QED
      BY <1>3, <2>1 DEF ck, Rows, One, InContract, OddsTypes, VoteTypes, Unruled, Erase
  <1>4. CASE p.type = "WH"
    <2>1. wh(p) # {}
      BY <1>4 DEF Parse
    <2>2. QED
      BY <1>4, <2>1 DEF wh, Rows, One, InContract, OddsTypes, VoteTypes, Unruled, Erase
  <1>5. CASE p.type = "DM"
    <2>1. dm(p) # {}
      BY <1>5 DEF Parse
    <2>2. QED
      BY <1>5, <2>1 DEF dm, Rows, One, InContract, OddsTypes, VoteTypes, Unruled, Erase
  <1>6. CASE p.type = "TM"
    <2>1. tm(p) # {}
      BY <1>6 DEF Parse
    <2>2. QED
      BY <1>6, <2>1 DEF tm, Rows, One, InContract, OddsTypes, VoteTypes, Unruled, Erase
  <1>7. QED  BY <1>1, <1>2, <1>3, <1>4, <1>5, <1>6 DEF MiningTypes

\* What the realtime updater takes as rows is lawful: strict types are
\* validated, the others have no contract or are not guarded.
LEMMA LiveRowIsLawful ==
  ASSUME NEW k, k.route \in {"rows", "batch"}, NEW p \in Dictionaries,
         ~ _reject_strict_record(p), p.type \in RECORD_TYPE_TABLE \ (MiningTypes \cup {"RC"})
  PROVE  Lawful(k, p)
  <1>1. CASE p.type \in STRICT_RECORD_TABLES
    <2>1. Validated(p)
      BY <1>1 DEF _reject_strict_record
    <2>2. p.type \notin {"TK", "KS", "CK", "WH"} \cup MiningTypes
      BY <1>1 DEF STRICT_RECORD_TABLES, MiningTypes
    <2>3. QED  BY <2>1, <2>2, ValidatedIsOfficial DEF Lawful
  <1>2. CASE p.type = "RA"
    BY <1>2 DEF Lawful, InContract, Unruled
  <1>3. CASE p.type \in {"H1", "WH"} \cup OddsTypes
    BY <1>3 DEF Lawful, Unguarded, Live
  <1>4. QED
    BY <1>1, <1>2, <1>3
    DEF RECORD_TYPE_TABLE, STRICT_RECORD_TABLES, SplitTypes, WideTypes, VoteTypes

\* A row that is not refused has a table, which is not that of RC.
LEMMA RowHasTable ==
  ASSUME NEW k, k.route \in Live, NEW p, NEW slot, _has_complete_primary_key(k, p, slot)
  PROVE  p.type \in RECORD_TYPE_TABLE \ {"RC"}
  BY DEF _has_complete_primary_key, NamesKey

\* A record whose rows are written one by one.
LEMMA UnrefusedRowIsLawful ==
  ASSUME NEW k, k.route \in {"rows", "batch"}, NEW p \in Dictionaries,
         ~ Refused(k, p), ~ IsDelete(p), Incoming(p) # {}
  PROVE  Lawful(k, p)
  <1>1. PICK slot \in Incoming(p) : _has_complete_primary_key(k, p, slot)
    BY DEF Refused
  <1>2. p.type \in RECORD_TYPE_TABLE \ {"RC"}
    BY <1>1, RowHasTable DEF Live
  <1>3. p.type \notin MiningTypes /\ ~ _reject_strict_record(p)
    BY DEF Refused, IsDelete
  <1>4. QED  BY <1>2, <1>3, LiveRowIsLawful

\* The same of a raw record.
LEMMA ListedRowIsLawful ==
  ASSUME NEW k, k.route = "list", NEW p \in Dictionaries, p.wire, p.type = k.type,
         ~ Unstorable(k, p), ~ SnapshotRecord(k, p), ~ IsDelete(p)
  PROVE  Lawful(k, p) /\ ~ Snapshotted(k)
  <1>1. Parse(p) # {} /\ Incoming(p) = Parse(p) /\ ~ Refused(k, p) /\ ~ Erase(p)
    BY DEF Unstorable, Incoming, IsDelete
  <1>2. PICK slot \in Incoming(p) : _has_complete_primary_key(k, p, slot)
    BY <1>1 DEF Refused
  <1>3. p.type \in RECORD_TYPE_TABLE \ {"RC"} /\ ~ _reject_strict_record(p)
    BY <1>1, <1>2, RowHasTable DEF Live, Refused
  <1>4. p.type \notin MiningTypes /\ (p.type \in OddsTypes => k.ts)
    BY <1>1 DEF SnapshotRecord
  <1>5. ~ Snapshotted(k)
    BY <1>4 DEF Snapshotted
  <1>6. CASE p.type \in STRICT_RECORD_TABLES
    <2>1. Validated(p)
      BY <1>3, <1>6 DEF _reject_strict_record
    <2>2. p.type \notin {"TK", "KS", "CK", "WH"} \cup MiningTypes
      BY <1>6 DEF STRICT_RECORD_TABLES, MiningTypes
    <2>3. QED  BY <1>5, <2>1, <2>2, ValidatedIsOfficial DEF Lawful
  <1>7. CASE p.type = "RA"
    BY <1>5, <1>7 DEF Lawful, InContract, Unruled
  <1>8. CASE p.type = "WH"
    BY <1>1, <1>5, <1>8, ParsedIsOfficial DEF Lawful
  <1>9. CASE p.type \in {"H1"} \cup OddsTypes
    BY <1>4, <1>5, <1>9 DEF Lawful, Unguarded, Live
  <1>10. QED
    BY <1>3, <1>4, <1>6, <1>7, <1>8, <1>9
    DEF RECORD_TYPE_TABLE, STRICT_RECORD_TABLES, SplitTypes, WideTypes, VoteTypes

LEMMA ListedSnapshotIsLawful ==
  ASSUME NEW k, NEW p \in Dictionaries, p.wire, ~ Unstorable(k, p), SnapshotRecord(k, p)
  PROVE  Lawful(k, p)
  <1>1. Parse(p) # {} /\ Validated(p)
    BY DEF Unstorable
  <1>2. CASE p.type \in MiningTypes
    BY <1>1, <1>2, ParsedIsOfficial DEF Lawful
  <1>3. CASE p.type \in OddsTypes
    <2>1. p.type \notin {"TK", "KS", "CK", "WH"} \cup MiningTypes
      BY <1>3 DEF OddsTypes, MiningTypes
    <2>2. QED  BY <1>1, <2>1, ValidatedIsOfficial DEF Lawful
  <1>4. QED  BY <1>2, <1>3 DEF SnapshotRecord

\* The records of a batch.
LEMMA OrderedIsLawful ==
  ASSUME NEW k, k.route = "batch", NEW q \in Seq(Dictionaries), NEW i \in 1..Len(q),
         \A j \in DOMAIN q : Incoming(q[j]) # {},
         ~ BatchRefused(k, q), \A j \in DOMAIN q : Whole(q[j]) \/ ~ Refused(k, q[j])
  PROVE  Lawful(k, q[i]) \/ (IsDelete(q[i]) /\ ~ Whole(q[i]))
  <1> DEFINE p == q[i]
  <1>1. p \in Dictionaries /\ i \in DOMAIN q /\ Incoming(p) # {}
    OBVIOUS
  <1>2. ~ LostSnapshot(p)
    BY <1>1 DEF BatchRefused, Some
  <1>3. ~ Whole(p) => ~ Refused(k, p)
    BY <1>1
  <1> HIDE DEF p
  <1>4. CASE Whole(p)
    <2>1. p.type \in MiningTypes /\ p.wire
      BY <1>2, <1>4 DEF LostSnapshot, Whole
    <2>2. Parse(p) # {}
      BY <1>1, <2>1 DEF Incoming
    <2>3. QED  BY <1>1, <2>1, <2>2, ParsedIsOfficial DEF Lawful, p
  <1>5. CASE ~ Whole(p)
    BY <1>1, <1>3, <1>5, UnrefusedRowIsLawful DEF p
  <1>6. QED  BY <1>4, <1>5

LEMMA GroupedIsLawful ==
  ASSUME NEW k, k.route = "batch", NEW q \in Seq(Dictionaries), NEW i \in 1..Len(q),
         \A j \in DOMAIN q : Incoming(q[j]) # {},
         ~ BatchRefused(k, q), ~ Ordered(q), Groupable(k, q[i])
  PROVE  Lawful(k, q[i])
  <1> DEFINE p == q[i]
  <1>1. p \in Dictionaries /\ i \in DOMAIN q /\ Incoming(p) # {}
    OBVIOUS
  <1>2. ~ _reject_strict_record(p)
    BY <1>1 DEF BatchRefused, Malformed, Some
  <1>3. p.type \notin MiningTypes
    BY <1>1 DEF Ordered, HasMining, Some
  <1> HIDE DEF p
  <1>4. Groupable(k, p)
    BY DEF p
  <1>5. PICK slot \in Incoming(p) : _has_complete_primary_key(k, p, slot)
    BY <1>1, <1>4 DEF Groupable
  <1>6. p.type \in RECORD_TYPE_TABLE \ {"RC"}
    BY <1>5, RowHasTable DEF Live
  <1>7. Lawful(k, p)
    BY <1>1, <1>2, <1>3, <1>6, LiveRowIsLawful
  <1>8. QED  BY <1>7 DEF p

---------------------------------------------------------------------------
(* The invariant. *)

LifecycleInv ==
    /\ kind \in Kinds
    /\ Sound(kind, kept) /\ Sound(kind, work)
    /\ buf \in Seq(Dictionaries)
    /\ \A i \in 1..Len(buf) : Buffered(kind, buf[i])

LEMMA InitLifecycleInv == Init => LifecycleInv
  <1> SUFFICES ASSUME Init PROVE LifecycleInv
    OBVIOUS
  <1>1. buf \in Seq(Dictionaries) /\ Len(buf) = 0
    BY DEF Init
  <1>2. QED  BY <1>1, NothingIsSound DEF Init, LifecycleInv

LEMMA KindRecords ==
  ASSUME kind \in Kinds
  PROVE  /\ kind.route \in Imports \cup Live
         /\ \A p \in Records[kind.type] : p \in Dictionaries /\ p.type = kind.type
         /\ \A q \in Batches[kind.type] : q \in Seq(Dictionaries)
  BY RecordsAreTyped DEF Kinds

\* The buffer as it was, or emptied.
LEMMA BufferKept ==
  ASSUME NEW k, NEW q \in Seq(Dictionaries), \A i \in 1..Len(q) : Buffered(k, q[i]),
         NEW r, r = q \/ r = <<>>
  PROVE  r \in Seq(Dictionaries) /\ \A i \in 1..Len(r) : Buffered(k, r[i])
  <1>1. CASE r = q
    BY <1>1
  <1>2. CASE r = <<>>
    <2>1. r \in Seq(Dictionaries) /\ Len(r) = 0
      BY <1>2
    <2>2. QED  BY <2>1
  <1>3. QED  BY <1>1, <1>2

\* The ends a step can give to the rows.
LEMMA RolledBackKeeps ==
  ASSUME LifecycleInv, RolledBack, kind' = kind, UNCHANGED buf \/ buf' = <<>>
  PROVE  LifecycleInv'
  <1>1. buf' \in Seq(Dictionaries) /\ \A i \in 1..Len(buf') : Buffered(kind, buf'[i])
    BY BufferKept DEF LifecycleInv
  <1>2. QED  BY <1>1 DEF LifecycleInv, RolledBack

LEMMA UntouchedKeeps ==
  ASSUME LifecycleInv, kept' = kept, work' = work, kind' = kind, buf' = buf
  PROVE  LifecycleInv'
  BY DEF LifecycleInv

LEMMA IntoKeeps ==
  ASSUME LifecycleInv, NEW b, Sound(kind, b), Into(b) \/ OnItsOwn(b), kind' = kind,
         UNCHANGED buf \/ buf' = <<>>
  PROVE  LifecycleInv'
  <1>1. buf' \in Seq(Dictionaries) /\ \A i \in 1..Len(buf') : Buffered(kind, buf'[i])
    BY BufferKept DEF LifecycleInv
  <1>2. QED  BY <1>1 DEF LifecycleInv, Into, OnItsOwn

---------------------------------------------------------------------------
(* Raw records. *)

LEMMA ListStep ==
  ASSUME LifecycleInv, NEW p \in Records[kind.type],
         ListRefused(p) \/ ListRows(p) \/ ListSnapshot(p) \/ ListBreaks(p)
  PROVE  LifecycleInv'
  <1>1. Listed(p)
    BY DEF ListRefused, ListRows, ListSnapshot, ListBreaks
  <1>2. /\ kind.route = "list" /\ p.wire /\ p \in Dictionaries /\ p.type = kind.type
        /\ kind' = kind /\ buf' = buf /\ Sound(kind, work) /\ Sound(kind, kept)
    BY <1>1, KindRecords DEF Listed, LifecycleInv
  <1>3. CASE ListRefused(p)
    BY <1>2, <1>3, UntouchedKeeps DEF ListRefused, Untouched
  <1>4. CASE ListRows(p)
    <2>1. ~ IsDelete(p) => Lawful(kind, p) /\ ~ Snapshotted(kind)
      BY <1>2, <1>4, ListedRowIsLawful DEF ListRows
    <2>2. Sound(kind, _process_single_record(kind, p, Incoming(p), work))
      BY <1>2, <2>1, SingleIsSound
    <2>3. QED  BY <1>2, <1>4, <2>2, IntoKeeps DEF ListRows
  <1>5. CASE ListSnapshot(p)
    <2>1. Lawful(kind, p)
      BY <1>2, <1>5, ListedSnapshotIsLawful DEF ListSnapshot
    <2>2. Sound(kind, _replace_native_snapshot(kind, p, work))
      BY <1>2, <2>1, SnapshotIsSound
    <2>3. QED  BY <1>2, <1>5, <2>2, IntoKeeps DEF ListSnapshot
  <1>6. CASE ListBreaks(p)
    <2>1. CASE RolledBack
      BY <1>2, <2>1, RolledBackKeeps
    <2>2. CASE \E slots \in SUBSET Incoming(p) \ {{}, Incoming(p)} :
                 ~ SnapshotRecord(kind, p) /\ Into(_process_single_record(kind, p, slots, kept))
      <3>1. PICK slots : ~ SnapshotRecord(kind, p) /\ Into(_process_single_record(kind, p, slots, kept))
        BY <2>2
      <3>2. ~ IsDelete(p) => Lawful(kind, p) /\ ~ Snapshotted(kind)
        BY <1>2, <1>6, <3>1, ListedRowIsLawful DEF ListBreaks
      <3>3. Sound(kind, _process_single_record(kind, p, slots, kept))
        BY <1>2, <3>2, SingleIsSound
      <3>4. QED  BY <1>2, <3>1, <3>3, IntoKeeps
    <2>3. QED  BY <1>6, <2>1, <2>2 DEF ListBreaks
  <1>7. QED  BY <1>3, <1>4, <1>5, <1>6

---------------------------------------------------------------------------
(* Rows somebody parsed, one by one and in batches. *)

LEMMA RowsStep ==
  ASSUME LifecycleInv, NEW p \in Records[kind.type], RowsRefused(p) \/ RowsWritten(p) \/ RowsBreak(p)
  PROVE  LifecycleInv'
  <1>1. Rowed(p)
    BY DEF RowsRefused, RowsWritten, RowsBreak
  <1>2. /\ kind.route = "rows" /\ p \in Dictionaries /\ Incoming(p) # {}
        /\ kind' = kind /\ buf' = buf /\ Sound(kind, work)
    BY <1>1, KindRecords DEF Rowed, LifecycleInv
  <1>3. CASE RowsRefused(p)
    BY <1>2, <1>3, UntouchedKeeps DEF RowsRefused, Untouched
  <1>4. CASE RowsWritten(p)
    <2>1. ~ IsDelete(p) => Lawful(kind, p) /\ ~ Snapshotted(kind)
      BY <1>2, <1>4, UnrefusedRowIsLawful DEF RowsWritten, Snapshotted
    <2>2. Sound(kind, _process_single_record(kind, p, Incoming(p), work))
      BY <1>2, <2>1, SingleIsSound
    <2>3. QED  BY <1>2, <1>4, <2>2, IntoKeeps DEF RowsWritten
  <1>5. CASE RowsBreak(p)
    BY <1>2, <1>5, RolledBackKeeps DEF RowsBreak
  <1>6. QED  BY <1>3, <1>4, <1>5

LEMMA BatchStep ==
  ASSUME LifecycleInv, NEW q \in Batches[kind.type],
         RefuseBatch(q) \/ ApplyInOrder(q) \/ ApplyGrouped(q) \/ BatchBreaks(q)
  PROVE  LifecycleInv'
  <1>1. Handover(q)
    BY DEF RefuseBatch, ApplyInOrder, ApplyGrouped, BatchBreaks
  <1>2. /\ kind.route = "batch" /\ q \in Seq(Dictionaries) /\ \A j \in DOMAIN q : Incoming(q[j]) # {}
        /\ kind' = kind /\ buf' = buf /\ Sound(kind, work) /\ ~ Snapshotted(kind)
    BY <1>1, KindRecords DEF Handover, LifecycleInv, Snapshotted
  <1>3. Len(q) \in Nat
    BY <1>2
  <1>4. CASE RefuseBatch(q)
    BY <1>2, <1>4, UntouchedKeeps DEF RefuseBatch, Untouched
  <1>5. CASE ApplyInOrder(q)
    <2>1. CASE Some(q, LAMBDA p : ~ Whole(p) /\ Refused(kind, p))
      BY <1>2, <1>5, <2>1, RolledBackKeeps DEF ApplyInOrder
    <2>2. CASE ~ Some(q, LAMBDA p : ~ Whole(p) /\ Refused(kind, p))
      <3>1. ~ BatchRefused(kind, q) /\ \A j \in DOMAIN q : Whole(q[j]) \/ ~ Refused(kind, q[j])
        BY <1>5, <2>2 DEF ApplyInOrder, Some
      <3>2. \A i \in 1..Len(q) : Lawful(kind, q[i]) \/ (IsDelete(q[i]) /\ ~ Whole(q[i]))
        <4>1. SUFFICES ASSUME NEW i \in 1..Len(q)
                       PROVE  Lawful(kind, q[i]) \/ (IsDelete(q[i]) /\ ~ Whole(q[i]))
          OBVIOUS
        <4>2. QED  BY <1>2, <3>1, OrderedIsLawful
      <3>3. Sound(kind, InOrder(kind, q, work))
        BY <1>2, <1>3, <3>2, InOrderIsSound
      <3>4. Ends(InOrder(kind, q, work))
        BY <1>5, <2>2 DEF ApplyInOrder
      <3>5. QED  BY <1>2, <3>3, <3>4, IntoKeeps DEF Ends
    <2>3. QED  BY <2>1, <2>2
  <1>6. CASE ApplyGrouped(q)
    <2>1. ~ BatchRefused(kind, q) /\ ~ Ordered(q) /\ Ends(Grouped(kind, q, work))
      BY <1>6 DEF ApplyGrouped
    <2>2. \A i \in 1..Len(q) : Groupable(kind, q[i]) => Lawful(kind, q[i])
      BY <1>2, <2>1, GroupedIsLawful
    <2>3. \A i \in 1..Len(q) : Leads(kind, q, q[i]) => Lawful(kind, q[i])
      BY <1>2 DEF Leads, OddsSnapshot, Lawful, Unguarded, Live
    <2>4. Sound(kind, SnapshotsFirst(kind, q, work))
      BY <1>2, <1>3, <2>3, SnapshotsAreSound
    <2>5. Sound(kind, Grouped(kind, q, work))
      BY <1>2, <1>3, <2>2, <2>4, RowsAreSound DEF Grouped
    <2>6. QED  BY <1>2, <2>1, <2>5, IntoKeeps DEF Ends
  <1>7. CASE BatchBreaks(q)
    BY <1>2, <1>7, RolledBackKeeps DEF BatchBreaks
  <1>8. QED  BY <1>4, <1>5, <1>6, <1>7

---------------------------------------------------------------------------
(* DataImporter.import_records. *)

LEMMA ImportableIsLawful ==
  ASSUME LifecycleInv, NEW p \in Records[kind.type], Importable(p)
  PROVE  /\ Lawful(kind, p) /\ p.type = kind.type /\ kind.route \in Imports
         /\ kind' = kind
  <1>1. /\ p \in Dictionaries /\ p.type = kind.type /\ kind.route \in Imports /\ kind' = kind
        /\ Incoming(p) # {} /\ Parsed(p) /\ Validated(p)
    BY KindRecords DEF LifecycleInv, Importable, Imported, Importing, validate_import_record_header
  <1>2. CASE p.type \notin {"TK", "KS", "CK", "WH"} \cup MiningTypes
    BY <1>1, <1>2, ValidatedIsOfficial DEF Lawful
  <1>3. CASE p.type \in {"TK", "KS", "CK", "WH"} \cup MiningTypes
    <2>1. p.wire
      BY <1>1, <1>3 DEF Parsed, ExpandedTypes
    <2>2. Parse(p) # {}
      BY <1>1, <2>1 DEF Incoming
    <2>3. QED  BY <1>1, <1>3, <2>2, ParsedIsOfficial DEF Lawful
  <1>4. QED  BY <1>1, <1>2, <1>3

\* Native snapshots never wait in a buffer.
LEMMA SnapshotsDoNotWait ==
  ASSUME NEW k, k.route = "native", Snapshotted(k), NEW p, p.type = k.type, Parsed(p)
  PROVE  ErasesAtOnce(k, p) \/ ReplacesAtOnce(k, p)
  <1>1. p.type \in OddsTypes \cup MiningTypes
    BY DEF Snapshotted
  <1>2. p.wire
    BY <1>1 DEF Parsed, ExpandedTypes
  <1>3. CASE ~ Erase(p)
    BY <1>1, <1>2, <1>3 DEF ReplacesAtOnce
  <1>4. CASE Erase(p) /\ p.type \in MiningTypes
    BY <1>4 DEF ErasesAtOnce, _is_mining_race_delete
  <1>5. CASE Erase(p) /\ p.type \in OddsTypes
    BY <1>5 DEF ErasesAtOnce, _is_official_record_erase, _OFFICIAL_ERASE_KEY_COLUMNS, SplitTypes
  <1>6. QED  BY <1>1, <1>3, <1>4, <1>5

LEMMA BufferIsWritten ==
  ASSUME LifecycleInv PROVE Sound(kind, _flush_batch(kind, work, buf))
  <1>1. Len(buf) \in Nat
    BY DEF LifecycleInv
  <1>2. QED  BY <1>1, FlushIsSound DEF LifecycleInv

LEMMA ImportEraseStep ==
  ASSUME LifecycleInv, NEW p \in Records[kind.type], ImportErase(p)
  PROVE  LifecycleInv'
  <1>1. Sound(kind, Without(kind, p, _flush_batch(kind, work, buf)))
    BY BufferIsWritten, WithoutIsSound
  <1>2. kind' = kind
    BY ImportableIsLawful DEF ImportErase
  <1>3. QED  BY <1>1, <1>2, IntoKeeps DEF ImportErase

LEMMA ImportSnapshotStep ==
  ASSUME LifecycleInv, NEW p \in Records[kind.type], ImportSnapshot(p)
  PROVE  LifecycleInv'
  <1>1. Lawful(kind, p) /\ p.type = kind.type /\ kind' = kind
    BY ImportableIsLawful DEF ImportSnapshot
  <1>2. Sound(kind, _replace_native_snapshot(kind, p, _flush_batch(kind, work, buf)))
    BY <1>1, BufferIsWritten, SnapshotIsSound
  <1>3. QED  BY <1>1, <1>2, IntoKeeps DEF ImportSnapshot

LEMMA ImportSplitStep ==
  ASSUME LifecycleInv, NEW p \in Records[kind.type], ImportSplit(p)
  PROVE  LifecycleInv'
  <1>1. Lawful(kind, p) /\ p.type = kind.type /\ kind.route \in Imports /\ kind' = kind
    BY ImportableIsLawful DEF ImportSplit
  <1>2. kind.route = "standard"
    BY DEF ImportSplit, _is_standard_split
  <1>3. Buffered(kind, p) /\ p \in Dictionaries
    BY <1>1, <1>2 DEF Buffered, Lawful
  <1>4. buf' = <<p>> /\ buf' \in Seq(Dictionaries) /\ \A i \in 1..Len(buf') : Buffered(kind, buf'[i])
    BY <1>3 DEF ImportSplit
  <1>5. QED
    BY <1>1, <1>4, BufferIsWritten DEF ImportSplit, Into, LifecycleInv

LEMMA ImportRowStep ==
  ASSUME LifecycleInv, NEW p \in Records[kind.type], ImportRow(p)
  PROVE  LifecycleInv'
  <1> DEFINE q == Append(buf, p)
  <1>1. Lawful(kind, p) /\ p.type = kind.type /\ kind.route \in Imports /\ kind' = kind
    BY ImportableIsLawful DEF ImportRow
  <1>2. Snapshotted(kind) => kind.route = "standard"
    <2>1. Parsed(p) /\ ~ ErasesAtOnce(kind, p) /\ ~ ReplacesAtOnce(kind, p)
      BY DEF ImportRow, Importable, Imported, Plain
    <2>2. QED  BY <1>1, <2>1, SnapshotsDoNotWait DEF Imports
  <1>3. Buffered(kind, p) /\ p \in Dictionaries
    BY <1>1, <1>2 DEF Buffered, Lawful
  <1>4. /\ buf \in Seq(Dictionaries) /\ \A i \in 1..Len(buf) : Buffered(kind, buf[i])
        /\ Sound(kind, work)
    BY DEF LifecycleInv
  <1>5. q \in Seq(Dictionaries) /\ Len(q) \in Nat /\ \A i \in 1..Len(q) : Buffered(kind, q[i])
    BY <1>3, <1>4
  <1> HIDE DEF q
  <1>6. CASE Full(kind, q)
    <2>1. Sound(kind, _flush_batch(kind, work, q))
      BY <1>4, <1>5, FlushIsSound
    <2>2. Into(_flush_batch(kind, work, q)) /\ buf' = <<>>
      BY <1>6 DEF ImportRow, q
    <2>3. QED  BY <1>1, <2>1, <2>2, IntoKeeps
  <1>7. CASE ~ Full(kind, q)
    <2>1. UNCHANGED <<kept, work>> /\ buf' = q
      BY <1>7 DEF ImportRow, q, Untouched
    <2>2. QED  BY <1>1, <1>5, <2>1 DEF LifecycleInv
  <1>8. QED  BY <1>6, <1>7

LEMMA ImportStep ==
  ASSUME LifecycleInv, NEW p \in Records[kind.type],
         \/ ImportRefused(p) \/ ImportErase(p) \/ ImportSnapshot(p) \/ ImportSplit(p)
         \/ ImportRepeated(p) \/ ImportRow(p) \/ ImportBreaks(p)
  PROVE  LifecycleInv'
  <1>1. CASE ImportRefused(p)
    BY <1>1, RolledBackKeeps DEF ImportRefused, Imported, Raises
  <1>2. CASE ImportRepeated(p)
    BY <1>2, UntouchedKeeps DEF ImportRepeated, Importable, Imported, Untouched
  <1>3. CASE ImportBreaks(p)
    BY <1>3, RolledBackKeeps DEF ImportBreaks, Importable, Imported, Raises
  <1>4. QED
    BY <1>1, <1>2, <1>3, ImportEraseStep, ImportSnapshotStep, ImportSplitStep, ImportRowStep

LEMMA ImportEndsStep ==
  ASSUME LifecycleInv, ImportEnds
  PROVE  LifecycleInv'
  <1>1. kind' = kind
    BY DEF ImportEnds, Between
  <1>2. CASE Raises
    BY <1>1, <1>2, RolledBackKeeps DEF Raises
  <1>3. CASE Into(_flush_batch(kind, work, buf)) /\ buf' = <<>>
    BY <1>1, <1>3, BufferIsWritten, IntoKeeps
  <1>4. QED  BY <1>2, <1>3 DEF ImportEnds

---------------------------------------------------------------------------
(* The specification. *)

LEMMA CallerStep ==
  ASSUME LifecycleInv, Begin \/ Commit \/ Abort
  PROVE  LifecycleInv'
  <1>1. kind' = kind
    BY DEF Begin, Commit, Abort, Between
  <1>2. CASE Begin
    BY <1>1, <1>2, UntouchedKeeps DEF Begin
  <1>3. CASE Commit
    BY <1>1, <1>3 DEF Commit, LifecycleInv
  <1>4. CASE Abort
    BY <1>1, <1>4, RolledBackKeeps DEF Abort
  <1>5. QED  BY <1>2, <1>3, <1>4

LEMMA StepLifecycleInv == LifecycleInv /\ [Next]_vars => LifecycleInv'
  <1> SUFFICES ASSUME LifecycleInv, [Next]_vars PROVE LifecycleInv'
    OBVIOUS
  <1>1. CASE UNCHANGED vars
    BY <1>1, UntouchedKeeps DEF vars
  <1>2. CASE \E p \in Records[kind.type] :
                \/ ListRefused(p) \/ ListRows(p) \/ ListSnapshot(p) \/ ListBreaks(p)
                \/ RowsRefused(p) \/ RowsWritten(p) \/ RowsBreak(p)
                \/ ImportRefused(p) \/ ImportErase(p) \/ ImportSnapshot(p) \/ ImportSplit(p)
                \/ ImportRepeated(p) \/ ImportRow(p) \/ ImportBreaks(p)
    BY <1>2, ListStep, RowsStep, ImportStep
  <1>3. CASE \E q \in Batches[kind.type] :
                RefuseBatch(q) \/ ApplyInOrder(q) \/ ApplyGrouped(q) \/ BatchBreaks(q)
    BY <1>3, BatchStep
  <1>4. QED  BY <1>1, <1>2, <1>3, ImportEndsStep, CallerStep DEF Next

\* Whatever is stored, committed or not, and whatever waits in a buffer is
\* sound, for any records and batches, any buffer and any number of records.
THEOREM LifecycleInvariant == Spec => []LifecycleInv
  <1>1. QED  BY InitLifecycleInv, StepLifecycleInv, PTL DEF Spec

\* No horse or combination of an earlier snapshot of a race stays between the
\* rows of a later one: replace_mining_native_snapshot and
\* replace_odds_native_snapshot, and the standard odds and vote tables.
THEOREM OneSnapshotAlways == Spec => []OneSnapshotPerRace
  <1>1. LifecycleInv => OneSnapshotPerRace
    BY DEF LifecycleInv, Sound, OneSnapshotPerRace
  <1>2. QED  BY <1>1, LifecycleInvariant, PTL

\* No record outside its official contract is stored on any way that checks
\* it: import_records, process_record, and the strict types of
\* process_parsed_record and its batches.
THEOREM OnlyOfficialAlways == Spec => []OnlyOfficialStored
  <1>1. LifecycleInv => OnlyOfficialStored
    BY DEF LifecycleInv, Sound, OnlyOfficialStored
  <1>2. QED  BY <1>1, LifecycleInvariant, PTL

---------------------------------------------------------------------------
(* The board: what a sequence of records means.                            *)

LEMMA MeaningAdds ==
  ASSUME NEW k, NEW p, NEW b PROVE Meaning(k, p, b) \subseteq b \cup Filed(k, p)
  BY DEF Meaning, Without, Upsert

\* It too goes step by step.
MeaningPath(k, q, b, h) ==
    /\ h[0] = b /\ Board!MeaningOfAll(k, q, b) = h[Len(q)]
    /\ \A i \in 1..Len(q) : h[i] = Meaning(k, q[i], h[i - 1])

LEMMA MeaningGoes ==
  ASSUME NEW k, NEW q, Len(q) \in Nat, NEW b
  PROVE  \E h : MeaningPath(k, q, b, h)
  <1> DEFINE n == Len(q)
             S == SUBSET (b \cup UNION {Filed(k, q[i]) : i \in 1..n})
             F == [x \in S \X (1..n) |-> Meaning(k, q[x[2]], x[1])]
             Runs(h) == h = [i \in 0..n |-> IF i = 0 THEN b ELSE Meaning(k, q[i], h[i - 1])]
             after == CHOOSE h : Runs(h)
  <1>1. ASSUME NEW x \in S, NEW i \in 1..n PROVE Meaning(k, q[i], x) \in S
    <2>1. Meaning(k, q[i], x) \subseteq x \cup Filed(k, q[i])
      BY MeaningAdds
    <2>2. QED  BY <2>1
  <1>2. StaysIn(S, n, F)
    BY <1>1 DEF StaysIn
  <1>3. \A x \in S : \A i \in 1..n : F[<<x, i>>] = Meaning(k, q[i], x)
    OBVIOUS
  <1>4. n \in Nat /\ b \in S
    OBVIOUS
  <1> HIDE DEF n, S, F
  <1>5. PICK g \in [0..n -> S] : g[0] = b /\ \A i \in 1..n : g[i] = F[<<g[i - 1], i>>]
    <2>1. Ways(S, n, b, F) # {}
      BY <1>2, <1>4, Iterates
    <2>2. QED  BY <2>1 DEF Ways
  <1>6. \A i \in 1..n : g[i] = Meaning(k, q[i], g[i - 1])
    <2>1. \A i \in 1..n : i - 1 \in 0..n
      BY <1>4
    <2>2. QED  BY <1>3, <1>5, <2>1
  <1>7. \A i \in 0..n : g[i] = IF i = 0 THEN b ELSE Meaning(k, q[i], g[i - 1])
    <2>1. \A i \in 0..n : i = 0 \/ i \in 1..n
      BY <1>4
    <2>2. QED  BY <1>5, <1>6, <2>1
  <1>8. Runs(g)
    BY <1>5, <1>7
  <1>9. Runs(after)
    <2> HIDE DEF Runs
    <2>1. QED  BY <1>8
  <1>10. \A i \in 0..n : after[i] = IF i = 0 THEN b ELSE Meaning(k, q[i], after[i - 1])
    <2> HIDE DEF after
    <2>1. QED  BY <1>9
  <1>11. Board!MeaningOfAll(k, q, b) = after[n]
    BY Zenon DEF Board!MeaningOfAll, n
  <1> HIDE DEF after
  <1>12. 0 \in 0..n /\ \A i \in 1..n : i \in 0..n /\ i # 0
    BY <1>4
  <1>13. after[0] = b /\ \A i \in 1..n : after[i] = Meaning(k, q[i], after[i - 1])
    BY <1>10, <1>12
  <1>14. QED  BY <1>11, <1>13 DEF n, MeaningPath

\* Nothing is left of nothing, and one record more is written last.
LEMMA FlushNothing ==
  ASSUME NEW k, NEW b PROVE _flush_batch(k, b, <<>>) = b
  <1>1. PICK h : FlushPath(k, <<>>, b, h)
    BY FlushGoes
  <1>2. QED  BY <1>1 DEF FlushPath

LEMMA FlushAppend ==
  ASSUME NEW S, NEW k, NEW b, NEW q \in Seq(S), NEW p \in S
  PROVE  _flush_batch(k, b, Append(q, p)) = Written(k, _flush_batch(k, b, q), p)
  <1> DEFINE r == Append(q, p)
  <1>1. /\ Len(q) \in Nat /\ Len(r) \in Nat /\ Len(r) = Len(q) + 1 /\ r[Len(q) + 1] = p
        /\ \A i \in 1..Len(q) : r[i] = q[i] /\ i \in 1..Len(r)
    OBVIOUS
  <1> HIDE DEF r
  <1>2. PICK g : FlushPath(k, q, b, g)
    BY <1>1, FlushGoes
  <1>3. PICK h : FlushPath(k, r, b, h)
    BY <1>1, FlushGoes
  <1> DEFINE T == {i \in Nat : h[i] = g[i]}
  <1>4. 0 \in T
    BY <1>2, <1>3 DEF FlushPath
  <1>5. \A i \in 1..Len(q) : i - 1 \in T => i \in T
    BY <1>1, <1>2, <1>3 DEF FlushPath
  <1>6. Len(q) \in T
    <2> HIDE DEF T
    <2>1. QED  BY ONLY <1>1, <1>4, <1>5, UpTo, Zenon
  <1>7. h[Len(r)] = Written(k, h[Len(q)], p)
    <2>1. Len(r) \in 1..Len(r) /\ Len(r) - 1 = Len(q)
      BY <1>1
    <2>2. QED  BY <1>1, <1>3, <2>1 DEF FlushPath
  <1>8. QED  BY <1>2, <1>3, <1>6, <1>7 DEF FlushPath, r

LEMMA FlushOne ==
  ASSUME NEW k, NEW b, NEW p
  PROVE  _flush_batch(k, b, <<p>>) = Written(k, b, p)
  <1>1. Len(<<p>>) = 1 /\ Len(<<p>>) \in Nat /\ <<p>>[1] = p
    OBVIOUS
  <1>2. PICK h : FlushPath(k, <<p>>, b, h)
    BY <1>1, FlushGoes
  <1>3. 1 \in 1..Len(<<p>>) /\ 1 - 1 = 0
    BY <1>1
  <1>4. h[1] = Written(k, h[0], p)
    BY <1>1, <1>2, <1>3 DEF FlushPath
  <1>5. QED  BY <1>1, <1>2, <1>4 DEF FlushPath

---------------------------------------------------------------------------
(* Less than a record means, of the types whose older rows may stay. *)

\* The rows b became d by p, where the types of overlaid may go over older rows.
Reads(k, p, overlaid, b, d) ==
    \/ d = Meaning(k, p, b)
    \/ p.type \in overlaid /\ ~ Removes(k, p) /\ d = Upsert(b, Filed(k, p))

\* Of one race d has all the rows of m, and no others unless some may be left.
Close(type, id, left, m, d) ==
    /\ \A r \in m : r.type = type /\ r.id = id => r \in d
    /\ ~ left => \A r \in d : r.type = type /\ r.id = id => r \in m
Alike(type, id, c, d) == \A r : r.type = type /\ r.id = id => (r \in d <=> r \in c)

LEMMA ReadsAdds ==
  ASSUME NEW k, NEW p, NEW overlaid, NEW b, NEW d, Reads(k, p, overlaid, b, d)
  PROVE  d \subseteq b \cup Filed(k, p)
  BY MeaningAdds DEF Reads, Upsert

LEMMA FiledIsNamed ==
  ASSUME NEW k, NEW p, NEW s \in Filed(k, p)
  PROVE  s.type = p.type /\ s.id = p.id /\ (Timed(k, p) => s.time = p.time)
  BY DEF Filed, _prepare_data_for_db

\* A record leaves the other races alone.
LEMMA Elsewhere ==
  ASSUME NEW k, NEW p, NEW overlaid, NEW b, NEW d, Reads(k, p, overlaid, b, d),
         NEW type, NEW id, ~ (p.type = type /\ p.id = id)
  PROVE  Alike(type, id, b, d)
  <1>1. SUFFICES ASSUME NEW r, r.type = type, r.id = id PROVE r \in d <=> r \in b
    BY DEF Alike
  <1>2. ~ Named(k, p, r)
    BY <1>1 DEF Named
  <1>3. r \notin Filed(k, p)
    BY <1>1, FiledIsNamed
  <1>4. \A s \in Filed(k, p) : ~ SamePlace(r, s)
    BY <1>1, FiledIsNamed DEF SamePlace
  <1>5. r \in Upsert(b, Filed(k, p)) <=> r \in b
    BY <1>3, <1>4 DEF Upsert
  <1>6. r \in Without(k, p, b) <=> r \in b
    BY <1>2 DEF Without
  <1>7. d = Upsert(b, Filed(k, p)) \/ d = Without(k, p, b) \/ d = Without(k, p, b) \cup Filed(k, p)
    BY DEF Reads, Meaning
  <1>8. QED  BY <1>3, <1>5, <1>6, <1>7

\* What is close stays close under the same record.
LEMMA CloseStep ==
  ASSUME NEW k, NEW p, NEW overlaid, NEW type, NEW id, NEW m, NEW b, NEW d,
         Reads(k, p, overlaid, b, d), Close(type, id, type \in overlaid, m, b)
  PROVE  Close(type, id, type \in overlaid, Meaning(k, p, m), d)
  <1> DEFINE f == Filed(k, p)
  <1>1. ASSUME NEW r, NEW s \in f, SamePlace(r, s) PROVE Named(k, p, r)
    BY <1>1, FiledIsNamed DEF SamePlace, Named
  <1>2. CASE Removes(k, p)
    <2>1. Meaning(k, p, m) = Without(k, p, m) /\ d = Without(k, p, b)
      BY <1>2 DEF Reads, Meaning
    <2>2. QED  BY <2>1 DEF Close, Without
  <1>3. CASE ~ Removes(k, p) /\ Supersedes(k, p)
    <2>1. Meaning(k, p, m) = Without(k, p, m) \cup f
      BY <1>3 DEF Meaning
    <2>2. CASE d = Meaning(k, p, b)
      <3>1. d = Without(k, p, b) \cup f
        BY <1>3, <2>2 DEF Meaning
      <3> HIDE DEF f
      <3>2. QED  BY <2>1, <3>1 DEF Close, Without
    <2>3. CASE p.type \in overlaid /\ d = Upsert(b, f)
      <3>1. ASSUME NEW r \in Without(k, p, m) \cup f, r.type = type, r.id = id PROVE r \in d
        <4>1. CASE r \in f
          BY <2>3, <4>1 DEF Upsert
        <4>2. CASE r \in Without(k, p, m)
          <5>1. r \in b /\ ~ Named(k, p, r)
            BY <3>1, <4>2 DEF Close, Without
          <5>2. QED  BY <1>1, <2>3, <5>1 DEF Upsert
        <4>3. QED  BY <3>1, <4>1, <4>2
      <3>2. ASSUME type \notin overlaid, NEW r \in d, r.type = type, r.id = id
            PROVE  r \in Without(k, p, m)
        <4>1. r \notin f /\ ~ Named(k, p, r)
          BY <2>3, <3>2, FiledIsNamed DEF Named
        <4>2. r \in b
          BY <2>3, <3>2, <4>1 DEF Upsert
        <4>3. r \in m
          BY <3>2, <4>2 DEF Close
        <4>4. QED  BY <4>1, <4>3 DEF Without
      <3>3. QED  BY <2>1, <3>1, <3>2 DEF Close
    <2>4. QED  BY <2>2, <2>3 DEF Reads
  <1>4. CASE ~ Removes(k, p) /\ ~ Supersedes(k, p)
    <2>1. Meaning(k, p, m) = Upsert(m, f) /\ d = Upsert(b, f)
      BY <1>4 DEF Reads, Meaning
    <2> HIDE DEF f
    <2>2. QED  BY <2>1 DEF Close, Upsert
  <1>5. QED  BY <1>2, <1>3, <1>4

\* What is close for every race that is settled is as the board says.
LEMMA CloseSays ==
  ASSUME NEW k, NEW q, NEW b, NEW d,
         d \subseteq b \cup UNION {Filed(k, q[i]) : i \in DOMAIN q},
         \A type, id : <<type, id>> \notin Unsettled(k, q, b) =>
             Close(type, id, type \in Overlaid(k, q), Board!MeaningOfAll(k, q, b), d)
  PROVE  Board!Says(k, q, b, d)
  <1> DEFINE means == Board!MeaningOfAll(k, q, b)
  <1>1. ASSUME NEW r \in means, <<r.type, r.id>> \notin Unsettled(k, q, b) PROVE r \in d
    BY <1>1 DEF Close
  <1>2. ASSUME NEW r \in d, <<r.type, r.id>> \notin Unsettled(k, q, b), r.type \notin Overlaid(k, q)
        PROVE  r \in means
    BY <1>2 DEF Close
  <1>3. QED  BY <1>1, <1>2 DEF Board!Says

\* One record by itself.
LEMMA MeaningOne ==
  ASSUME NEW k, NEW b, NEW p
  PROVE  Board!MeaningOfAll(k, <<p>>, b) = Meaning(k, p, b)
  <1>1. Len(<<p>>) = 1 /\ Len(<<p>>) \in Nat /\ <<p>>[1] = p
    OBVIOUS
  <1>2. PICK h : MeaningPath(k, <<p>>, b, h)
    BY <1>1, MeaningGoes
  <1>3. 1 \in 1..Len(<<p>>) /\ 1 - 1 = 0
    BY <1>1
  <1>4. h[1] = Meaning(k, p, h[0])
    BY <1>1, <1>2, <1>3 DEF MeaningPath
  <1>5. QED  BY <1>1, <1>2, <1>4 DEF MeaningPath

LEMMA SaysOne ==
  ASSUME NEW k, NEW p, NEW b, NEW d, Reads(k, p, Overlaid(k, <<p>>), b, d)
  PROVE  Board!Says(k, <<p>>, b, d)
  <1> DEFINE L == Overlaid(k, <<p>>)
  <1>1. d \subseteq b \cup UNION {Filed(k, <<p>>[i]) : i \in DOMAIN <<p>>}
    <2>1. d \subseteq b \cup Filed(k, p)
      BY ReadsAdds
    <2>2. 1 \in DOMAIN <<p>> /\ <<p>>[1] = p
      OBVIOUS
    <2>3. QED  BY <2>1, <2>2
  <1>2. ASSUME NEW type, NEW id PROVE Close(type, id, type \in L, Board!MeaningOfAll(k, <<p>>, b), d)
    <2>1. Close(type, id, type \in L, b, b)
      BY DEF Close
    <2>2. Close(type, id, type \in L, Meaning(k, p, b), d)
      BY <2>1, CloseStep
    <2>3. QED  BY <2>2, MeaningOne
  <1>3. QED  BY <1>1, <1>2, CloseSays

---------------------------------------------------------------------------
(* What each way does with a record is what the record means. *)

\* On the live ways a record that names its key is filed row by row.
LEMMA LiveRowsAreFiled ==
  ASSUME NEW k, k.route # "standard", NEW p,
         \A slot \in Incoming(p) : _has_complete_primary_key(k, p, slot)
  PROVE  NewRows(k, p) = Filed(k, p)
  BY DEF NewRows, Filed, Places

LEMMA NewRecordUpserts ==
  ASSUME NEW k, NEW p, NEW b
  PROVE  _handle_new_record(k, p, Incoming(p), b) = Upsert(b, NewRows(k, p))
  BY DEF _handle_new_record, NewRows

\* A snapshot writes over nothing: the rows of its race are gone.
LEMMA SnapshotReplaces ==
  ASSUME NEW k, NEW p, NEW b, NewRows(k, p) = Filed(k, p)
  PROVE  _replace_native_snapshot(k, p, b) = Without(k, p, b) \cup Filed(k, p)
  <1>1. _replace_native_snapshot(k, p, b) = _handle_new_record(k, p, Incoming(p), Without(k, p, b))
    BY DEF _replace_native_snapshot, replace_mining_native_snapshot, replace_odds_native_snapshot
  <1>2. \A s \in Filed(k, p) :
           s.type = p.type /\ s.id = p.id /\ (Timed(k, p) => s.time = p.time)
    BY DEF Filed, _prepare_data_for_db
  <1>3. ASSUME NEW r \in Without(k, p, b), NEW s \in Filed(k, p) PROVE ~ SamePlace(r, s)
    <2>1. SUFFICES ASSUME SamePlace(r, s) PROVE FALSE
      OBVIOUS
    <2>2. r.type = s.type /\ r.id = s.id /\ r.time = s.time
      BY <2>1 DEF SamePlace
    <2>3. s.type = p.type /\ s.id = p.id /\ (Timed(k, p) => s.time = p.time)
      BY <1>2
    <2>4. Named(k, p, r)
      BY <2>2, <2>3 DEF Named
    <2>5. QED  BY <2>4 DEF Without
  <1>4. Upsert(Without(k, p, b), Filed(k, p)) = Without(k, p, b) \cup Filed(k, p)
    BY <1>3 DEF Upsert
  <1>5. QED  BY <1>1, <1>4, NewRecordUpserts

\* Of the types the updater has tables for, 9 deletes only where no record of
\* today or of an earlier generation can carry it.
LEMMA DeletesAreErases ==
  ASSUME NEW p, validate_record_header(p, "realtime"), p.type \in RECORD_TYPE_TABLE, IsDelete(p)
  PROVE  Erase(p)
  <1>1. SUFFICES ASSUME p.kubun = "9", p.type \notin CANCELLATION_STATE_RECORD_TYPES
                 PROVE  FALSE
    BY DEF IsDelete
  <1>2. p.type \in {"WE", "AV", "JC", "TC", "CC", "RC", "DM", "TM", "WH"}
    BY <1>1 DEF RECORD_TYPE_TABLE, CANCELLATION_STATE_RECORD_TYPES, WideTypes, MiningTypes
  <1>3. <<p.type, "9">> \notin HISTORICAL_DATA_KUBUN
    BY DEF HISTORICAL_DATA_KUBUN
  <1>4. "9" \notin CURRENT_ACCUMULATED_DATA_KUBUN(p.type)
    BY <1>2 DEF CURRENT_ACCUMULATED_DATA_KUBUN, OddsTypes
  <1>5. "9" \notin _current_values(p.type, "realtime")
    BY <1>4 DEF _current_values, CURRENT_REALTIME_DATA_KUBUN
  <1>6. QED  BY <1>1, <1>3, <1>5 DEF validate_record_header, validate_data_kubun

LEMMA RemovesMeans ==
  ASSUME NEW k, NEW p, NEW b, Removes(k, p)
  PROVE  Meaning(k, p, b) = Without(k, p, b)
  BY DEF Meaning

LEMMA SupersedesMeans ==
  ASSUME NEW k, NEW p, NEW b, ~ Removes(k, p), Supersedes(k, p)
  PROVE  Meaning(k, p, b) = Without(k, p, b) \cup Filed(k, p)
  BY DEF Meaning

LEMMA AddsMeans ==
  ASSUME NEW k, NEW p, NEW b, ~ Removes(k, p), ~ Supersedes(k, p)
  PROVE  Meaning(k, p, b) = Upsert(b, Filed(k, p))
  BY DEF Meaning

\* Rows over rows, where that is what is meant or what may be left.
LEMMA RowsRead ==
  ASSUME NEW k, NEW p, NEW overlaid, NEW b, ~ Removes(k, p),
         Supersedes(k, p) => p.type \in overlaid
  PROVE  Reads(k, p, overlaid, b, Upsert(b, Filed(k, p)))
  BY AddsMeans DEF Reads

LEMMA LiveRemoves ==
  ASSUME NEW k, k.route \in Live, NEW p PROVE Removes(k, p) <=> Erase(p)
  BY DEF Removes, Tombstone, Live, Imports

\* A record that is stored row by row.
LEMMA SingleMeans ==
  ASSUME NEW k, k.route \in Live, NEW p, NEW overlaid, NEW b, ~ Refused(k, p), Incoming(p) # {},
         ~ Erase(p) /\ Supersedes(k, p) => p.type \in overlaid
  PROVE  Reads(k, p, overlaid, b, _process_single_record(k, p, Incoming(p), b))
  <1>1. CASE IsDelete(p)
    <2>1. NamesKey(k, p) /\ validate_record_header(p, "realtime")
      BY <1>1 DEF Refused, _canonicalize_strict_record_aliases
    <2>2. p.type \in RECORD_TYPE_TABLE
      BY <2>1 DEF NamesKey
    <2>3. Removes(k, p)
      BY <1>1, <2>1, <2>2, DeletesAreErases, LiveRemoves
    <2>4. _process_single_record(k, p, Incoming(p), b) = Without(k, p, b)
      BY <1>1 DEF _process_single_record, _handle_delete_record
    <2>5. QED  BY <2>3, <2>4, RemovesMeans DEF Reads
  <1>2. CASE ~ IsDelete(p)
    <2>1. ~ Removes(k, p) /\ (Supersedes(k, p) => p.type \in overlaid)
      BY <1>2, LiveRemoves DEF IsDelete
    <2>2. \A slot \in Incoming(p) : _has_complete_primary_key(k, p, slot)
      BY <1>2 DEF Refused
    <2>3. NewRows(k, p) = Filed(k, p)
      BY <2>2, LiveRowsAreFiled DEF Live
    <2>4. _process_single_record(k, p, Incoming(p), b) = Upsert(b, NewRows(k, p))
      BY <1>2, NewRecordUpserts DEF _process_single_record
    <2>5. QED  BY <2>1, <2>3, <2>4, RowsRead
  <1>3. QED  BY <1>1, <1>2

\* A record that is stored as a snapshot.
LEMMA SnapshotMeans ==
  ASSUME NEW k, k.route # "standard", NEW p, NEW b, ~ Erase(p), Supersedes(k, p),
         \A slot \in Incoming(p) : _has_complete_primary_key(k, p, slot)
  PROVE  _replace_native_snapshot(k, p, b) = Meaning(k, p, b)
  BY LiveRowsAreFiled, SnapshotReplaces, SupersedesMeans DEF Removes

\* A snapshot that passed its checks names its key in every row.
LEMMA SnapshotIsKeyed ==
  ASSUME NEW k, NEW p \in Dictionaries, p.wire, ~ Erase(p), Parse(p) # {},
         p.type \in MiningTypes \/ (p.type \in OddsTypes /\ Validated(p) /\ ~ k.ts)
  PROVE  \A slot \in Incoming(p) : _has_complete_primary_key(k, p, slot)
  <1>1. Key(p)
    <2>1. CASE p.type \in OddsTypes
      <3>1. Validated(p)
        BY <2>1 DEF MiningTypes, OddsTypes
      <3>2. QED
        BY <2>1, <3>1 DEF Validated, validate_odds_record, odds_fields, KeyedBody, OddsTypes, VoteTypes
    <2>2. CASE p.type = "DM"
      <3>1. dm(p) # {}
        BY <2>2 DEF Parse
      <3>2. QED  BY <3>1 DEF dm, Rows
    <2>3. CASE p.type = "TM"
      <3>1. tm(p) # {}
        BY <2>3 DEF Parse
      <3>2. QED  BY <3>1 DEF tm, Rows
    <2>4. QED  BY <2>1, <2>2, <2>3 DEF MiningTypes
  <1>2. NamesKey(k, p)
    <2>1. p.type \in RECORD_TYPE_TABLE \ {"RC"}
      BY DEF RECORD_TYPE_TABLE, SplitTypes, WideTypes, OddsTypes, MiningTypes
    <2>2. ~ Timed(k, p)
      BY DEF Timed, MiningTypes, OddsTypes
    <2>3. QED  BY <1>1, <2>1, <2>2 DEF NamesKey, Key, OfficialIds
  <1>3. "head" \notin p.slots
    BY DEF Dictionaries
  <1>4. "head" \notin Incoming(p)
    <2>1. CASE p.type = "DM"
      BY <1>3, <2>1 DEF Incoming, Parse, dm, Rows
    <2>2. CASE p.type = "TM"
      BY <1>3, <2>2 DEF Incoming, Parse, tm, Rows
    <2>3. CASE p.type \in OddsTypes
      <3>1. Parse(p) \subseteq Combinations(p)
        BY <2>3 DEF OddsTypes, Parse, o1, o2, o3, o4, o5, o6, Rows
      <3>2. QED  BY <1>3, <3>1 DEF Incoming, Combinations
    <2>4. QED  BY <2>1, <2>2, <2>3 DEF MiningTypes
  <1>5. QED  BY <1>2, <1>4 DEF _has_complete_primary_key

---------------------------------------------------------------------------
(* What an import writes of a record that waited is what it means. *)

\* Of the types whose erase waits, the ordered ones delete and the others keep
\* a row that says so.
LEMMA WaitingErase ==
  ASSUME NEW k, k.route \in Imports, NEW p \in Dictionaries, Erase(p), Validated(p),
         ~ ErasesAtOnce(k, p)
  PROVE  p.type \in _ORDERED_STORAGE(k) <=> Removes(k, p)
  <1>1. p.type \notin MiningTypes
    BY DEF ErasesAtOnce, _is_mining_race_delete
  <1>2. p.type \in _OFFICIAL_ERASE_KEY_COLUMNS => (k.route = "standard" /\ p.type = "WF")
    BY DEF ErasesAtOnce, _is_official_record_erase
  <1>3. p.type \notin {"CC", "TC"}
    BY DEF Validated, validate_cc_record, cc_fields, validate_tc_record, tc_fields, Erase, OddsTypes
  <1>4. \/ k.route = "standard" /\ p.type = "WF"
        \/ p.type \in {"BN", "BR", "CH", "CS", "WH"}
        \/ p.type \in {"CK", "KS", "RC", "TK", "YS"}
    <2>1. p.type \in RecordTypes
      BY DEF Dictionaries
    <2>2. QED
      BY <1>1, <1>2, <1>3, <2>1
      DEF RecordTypes, ExpandedTypes, _OFFICIAL_ERASE_KEY_COLUMNS, SplitTypes
  <1>5. QED  BY <1>4 DEF _ORDERED_STORAGE, Removes, Tombstone

LEMMA WaitingMeans ==
  ASSUME NEW k, k.route \in Imports, ~ k.ts, NEW p \in Dictionaries, Parsed(p), Validated(p),
         ~ ErasesAtOnce(k, p), ~ ReplacesAtOnce(k, p), ~ _is_standard_split(k, p), NEW b
  PROVE  Reads(k, p, Overlaid(k, <<p>>), b, Written(k, b, p))
  <1>1. CASE Erase(p) /\ p.type \in _ORDERED_STORAGE(k)
    <2>1. Written(k, b, p) = Without(k, p, b)
      BY <1>1 DEF Written
    <2>2. QED  BY <1>1, <2>1, WaitingErase, RemovesMeans DEF Reads
  <1>2. CASE ~ (Erase(p) /\ p.type \in _ORDERED_STORAGE(k))
    <2>1. Written(k, b, p) = Upsert(b, Filed(k, p))
      BY <1>2 DEF Written
    <2>2. ~ Removes(k, p)
      BY <1>2, WaitingErase DEF Removes
    <2>3. ASSUME Supersedes(k, p) PROVE p.type \in Overlaid(k, <<p>>)
      <3>1. SUFFICES ASSUME p.type \notin Overlaid(k, <<p>>) PROVE FALSE
        OBVIOUS
      <3>2. k.route = "native" /\ p.type \in MiningTypes \cup VoteTypes \cup OddsTypes /\ p.wire
        BY <2>3 DEF Supersedes, SnapshotTypes, _is_standard_split, Imports
      <3>3. p.type \in MiningTypes \cup OddsTypes
        BY <3>1, <3>2 DEF Overlaid
      <3>4. Erase(p)
        BY <3>2, <3>3 DEF ReplacesAtOnce
      <3>5. QED
        BY <3>2, <3>3, <3>4
        DEF ErasesAtOnce, _is_official_record_erase, _is_mining_race_delete,
            _OFFICIAL_ERASE_KEY_COLUMNS, SplitTypes, OddsTypes, VoteTypes
    <2>4. QED  BY <2>1, <2>2, <2>3, RowsRead
  <1>3. QED  BY <1>1, <1>2

LEMMA SplitMeans ==
  ASSUME NEW k, NEW p, Parsed(p), _is_standard_split(k, p), ~ Erase(p), NEW b
  PROVE  Written(k, b, p) = Meaning(k, p, b)
  <1>1. p.type \in OddsTypes \/ p.type \in VoteTypes
    BY DEF _is_standard_split, SplitTypes
  <1>2. p.type \notin _ORDERED_STORAGE(k)
    BY <1>1 DEF _ORDERED_STORAGE, OddsTypes, VoteTypes
  <1>3. Written(k, b, p) = Without(k, p, b) \cup Filed(k, p)
    BY <1>1, <1>2 DEF Written, insert_standard_odds_batch, insert_standard_vote_batch
  <1>4. p.wire
    BY <1>1 DEF Parsed, ExpandedTypes
  <1>5. Supersedes(k, p)
    BY <1>4 DEF Supersedes, SnapshotTypes, _is_standard_split
  <1>6. ~ Removes(k, p)
    BY DEF Removes
  <1>7. QED  BY <1>3, <1>5, <1>6, SupersedesMeans

LEMMA ErasesMeans ==
  ASSUME NEW k, NEW p, ErasesAtOnce(k, p), NEW b
  PROVE  Without(k, p, b) = Meaning(k, p, b)
  <1>1. Removes(k, p)
    BY DEF ErasesAtOnce, _is_official_record_erase, _is_mining_race_delete,
           _OFFICIAL_ERASE_KEY_COLUMNS, Removes, Tombstone, SplitTypes, OddsTypes, VoteTypes,
           MiningTypes
  <1>2. QED  BY <1>1, RemovesMeans

LEMMA ReplacesMeans ==
  ASSUME NEW k, ~ k.ts, NEW p \in Dictionaries, ReplacesAtOnce(k, p), Incoming(p) # {},
         Validated(p), NEW b
  PROVE  _replace_native_snapshot(k, p, b) = Meaning(k, p, b)
  <1>1. /\ ~ Erase(p) /\ p.wire /\ k.route = "native" /\ Parse(p) # {}
        /\ p.type \in MiningTypes \/ p.type \in OddsTypes
    BY DEF ReplacesAtOnce, Incoming
  <1>2. Supersedes(k, p)
    BY <1>1 DEF Supersedes, SnapshotTypes
  <1>3. \A slot \in Incoming(p) : _has_complete_primary_key(k, p, slot)
    BY <1>1, SnapshotIsKeyed
  <1>4. QED  BY <1>1, <1>2, <1>3, SnapshotMeans

---------------------------------------------------------------------------
(* A batch in its order, and a batch by table. *)

LEMMA PerformedMeans ==
  ASSUME NEW k, k.route = "batch", NEW q \in Seq(Dictionaries), NEW i \in 1..Len(q),
         \A j \in DOMAIN q : Incoming(q[j]) # {},
         ~ BatchRefused(k, q), Ordered(q), \A j \in DOMAIN q : Whole(q[j]) \/ ~ Refused(k, q[j]),
         NEW b
  PROVE  Reads(k, q[i], Overlaid(k, q), b, Performed(k, q[i], b))
  <1> DEFINE p == q[i]
  <1>1. p \in Dictionaries /\ i \in DOMAIN q /\ Incoming(p) # {}
    OBVIOUS
  <1>2. ~ LostSnapshot(p) /\ (Whole(p) \/ ~ Refused(k, p))
    BY <1>1 DEF BatchRefused, Some
  <1>3. p.type \in OddsTypes \cup VoteTypes => p.type \in Overlaid(k, q)
    <2>1. PICK j \in DOMAIN q : q[j].type \in MiningTypes \/ IsDelete(q[j])
      BY DEF Ordered, HasMining, HasErase, Some
    <2>2. q[j].type \in MiningTypes \/ Erase(q[j])
      <3>1. SUFFICES ASSUME ~ Whole(q[j]), IsDelete(q[j]) PROVE Erase(q[j])
        BY <2>1 DEF Whole
      <3>2. ~ Refused(k, q[j])
        BY <3>1
      <3>3. validate_record_header(q[j], "realtime") /\ q[j].type \in RECORD_TYPE_TABLE
        BY <3>2 DEF Refused, _canonicalize_strict_record_aliases
      <3>4. QED  BY <3>1, <3>3, DeletesAreErases
    <2>3. Rowwise(k, q)
      BY <2>2 DEF Rowwise
    <2>4. QED  BY <2>3 DEF Overlaid
  <1> HIDE DEF p
  <1>4. k.route \in Live /\ k.route # "standard"
    BY DEF Live
  <1>5. CASE Whole(p)
    <2>1. p.type \in MiningTypes /\ ~ Erase(p) /\ p.wire
      BY <1>2, <1>5 DEF Whole, LostSnapshot
    <2>2. Parse(p) # {}
      BY <1>1, <2>1 DEF Incoming
    <2>3. \A slot \in Incoming(p) : _has_complete_primary_key(k, p, slot)
      BY <1>1, <2>1, <2>2, SnapshotIsKeyed
    <2>4. Supersedes(k, p)
      BY <1>4, <2>1 DEF Supersedes, SnapshotTypes
    <2>5. _replace_native_snapshot(k, p, b) = Meaning(k, p, b)
      BY <1>4, <2>1, <2>3, <2>4, SnapshotMeans
    <2>6. QED  BY <1>5, <2>5 DEF Performed, Reads, p
  <1>6. CASE ~ Whole(p)
    <2>1. ~ Erase(p) /\ Supersedes(k, p) => p.type \in OddsTypes \cup VoteTypes
      BY <1>4, <1>6 DEF Supersedes, SnapshotTypes, Whole
    <2>2. Reads(k, p, Overlaid(k, q), b, _process_single_record(k, p, Incoming(p), b))
      BY <1>1, <1>2, <1>3, <1>4, <1>6, <2>1, SingleMeans
    <2>3. QED  BY <1>6, <2>2 DEF Performed, p
  <1>7. QED  BY <1>5, <1>6

\* What every record of a sequence adds, the sequence adds.
Brought(k, q, b) == b \cup UNION {Filed(k, q[i]) : i \in DOMAIN q}

LEMMA InOrderMeans ==
  ASSUME NEW k, k.route = "batch", NEW q \in Seq(Dictionaries),
         \A j \in DOMAIN q : Incoming(q[j]) # {},
         ~ BatchRefused(k, q), Ordered(q), \A j \in DOMAIN q : Whole(q[j]) \/ ~ Refused(k, q[j]),
         NEW b
  PROVE  Board!Says(k, q, b, InOrder(k, q, b))
  <1> DEFINE L == Overlaid(k, q)
  <1>1. Len(q) \in Nat /\ DOMAIN q = 1..Len(q)
    OBVIOUS
  <1>2. \A i \in 1..Len(q) : \A c : Reads(k, q[i], L, c, Performed(k, q[i], c))
    BY PerformedMeans
  <1>3. PICK g : InOrderPath(k, q, b, g)
    BY <1>1, InOrderGoes
  <1>4. PICK h : MeaningPath(k, q, b, h)
    BY <1>1, MeaningGoes
  <1>5. ASSUME NEW i \in 1..Len(q)
        PROVE  Reads(k, q[i], L, g[i - 1], g[i]) /\ h[i] = Meaning(k, q[i], h[i - 1])
    BY <1>2, <1>3, <1>4 DEF InOrderPath, MeaningPath
  <1>6. InOrder(k, q, b) \subseteq Brought(k, q, b)
    <2> DEFINE T == {i \in Nat : g[i] \subseteq Brought(k, q, b)}
    <2>1. 0 \in T
      BY <1>3 DEF InOrderPath, Brought
    <2>2. ASSUME NEW i \in 1..Len(q), i - 1 \in T PROVE i \in T
      <3>1. g[i] \subseteq g[i - 1] \cup Filed(k, q[i])
        BY <1>5, ReadsAdds
      <3>2. Filed(k, q[i]) \subseteq Brought(k, q, b)
        BY <1>1 DEF Brought
      <3>3. g[i - 1] \subseteq Brought(k, q, b) /\ i \in Nat
        BY <1>1, <2>2
      <3>4. QED  BY <3>1, <3>2, <3>3
    <2>3. Len(q) \in T
      <3> HIDE DEF T
      <3>1. QED  BY ONLY <1>1, <2>1, <2>2, UpTo, Zenon
    <2>4. QED  BY <1>3, <2>3 DEF InOrderPath
  <1>7. ASSUME NEW type, NEW id
        PROVE  Close(type, id, type \in L, Board!MeaningOfAll(k, q, b), InOrder(k, q, b))
    <2> DEFINE T == {i \in Nat : Close(type, id, type \in L, h[i], g[i])}
    <2>1. 0 \in T
      BY <1>3, <1>4 DEF InOrderPath, MeaningPath, Close
    <2>2. ASSUME NEW i \in 1..Len(q), i - 1 \in T PROVE i \in T
      <3>1. Close(type, id, type \in L, h[i - 1], g[i - 1]) /\ i \in Nat
        BY <1>1, <2>2
      <3>2. Close(type, id, type \in L, h[i], g[i])
        BY <1>5, <3>1, CloseStep
      <3>3. QED  BY <3>1, <3>2
    <2>3. Len(q) \in T
      <3> HIDE DEF T
      <3>1. QED  BY ONLY <1>1, <2>1, <2>2, UpTo, Zenon
    <2>4. QED  BY <1>3, <1>4, <2>3 DEF InOrderPath, MeaningPath
  <1>8. QED  BY <1>6, <1>7, CloseSays DEF Brought

\* The row that names no horse comes alone.
LEMMA HeadIsAlone ==
  ASSUME NEW p \in Dictionaries, p.type \in RECORD_TYPE_TABLE, "head" \in Incoming(p)
  PROVE  Incoming(p) = {"head"}
  <1>1. "head" \notin p.slots
    BY DEF Dictionaries
  <1>2. CASE ~ p.wire
    <2>1. "head" \in Shape(p) /\ Incoming(p) = Shape(p)
      BY <1>2 DEF Incoming
    <2>2. "head" \notin Combinations(p) /\ "head" \notin p.slots \cup {"total"}
      BY <1>1 DEF Combinations
    <2>3. QED  BY <1>1, <2>1, <2>2 DEF Shape
  <1>3. CASE p.wire
    <2>1. "head" \in Parse(p) /\ Incoming(p) = Parse(p)
      BY <1>3 DEF Incoming
    <2>2. "head" \notin Combinations(p) /\ "head" \notin p.slots \cup {"total"}
      BY <1>1 DEF Combinations
    <2>3. CASE p.type \in OddsTypes
      BY <2>1, <2>2, <2>3 DEF Parse, OddsTypes, Rows, o1, o2, o3, o4, o5, o6
    <2>4. CASE p.type = "H1"
      BY <2>1, <2>2, <2>4 DEF Parse, Rows, h1
    <2>5. CASE p.type = "H6"
      BY <2>1, <2>2, <2>5 DEF Parse, Rows, h6
    <2>6. CASE p.type = "DM"
      BY <1>1, <2>1, <2>6 DEF Parse, Rows, dm
    <2>7. CASE p.type = "TM"
      BY <1>1, <2>1, <2>7 DEF Parse, Rows, tm
    <2>8. CASE p.type = "WH"
      BY <1>1, <2>1, <2>8 DEF Parse, Rows, wh
    <2>9. CASE p.type \in {"RA", "SE", "HR", "WE", "AV"}
      BY <2>1, <2>9 DEF Parse, Rows, One, ra, se, hr, we, av
    <2>10. CASE p.type \in {"JC", "TC", "CC", "WF", "RC"}
      BY <2>1, <2>10 DEF Parse, Rows, One, jc, tc, cc, wf, rc
    <2>11. QED
      BY <2>3, <2>4, <2>5, <2>6, <2>7, <2>8, <2>9, <2>10
      DEF RECORD_TYPE_TABLE, SplitTypes, WideTypes, MiningTypes, VoteTypes
  <1>4. QED  BY <1>2, <1>3

\* What has no table or no key files nothing.
LEMMA UngroupedFilesNothing ==
  ASSUME NEW k, k.route = "batch", NEW p \in Dictionaries, ~ Groupable(k, p)
  PROVE  Filed(k, p) = {}
  <1>1. CASE ~ NamesKey(k, p)
    BY <1>1 DEF Filed, _has_complete_primary_key
  <1>2. CASE NamesKey(k, p)
    <2>1. p.type \in RECORD_TYPE_TABLE
      BY <1>2 DEF NamesKey, Live
    <2>2. "head" \in Incoming(p)
      BY <1>2, <2>1 DEF Groupable, _has_complete_primary_key
    <2>3. Places(k, p) = {"head"}
      BY <2>1, <2>2, HeadIsAlone DEF Places
    <2>4. QED  BY <2>3 DEF Filed, _has_complete_primary_key
  <1>3. QED  BY <1>1, <1>2

\* A batch that is accepted and written table by table.
Accepted(k, q) ==
    /\ k.route = "batch" /\ q \in Seq(Dictionaries) /\ \A j \in DOMAIN q : Incoming(q[j]) # {}
    /\ ~ BatchRefused(k, q) /\ ~ Ordered(q)

\* A snapshot that goes first is what its record means, and a row is, but for
\* what may be left.
LEMMA LeadMeans ==
  ASSUME NEW k, NEW q, Accepted(k, q), NEW i \in 1..Len(q), Leads(k, q, q[i]), NEW b
  PROVE  /\ Replaced(k, q, q[i], b) = Meaning(k, q[i], b)
         /\ ByTable(k, q, q[i], b) = b
  <1> USE DEF Accepted
  <1> DEFINE p == q[i]
  <1>1. p \in Dictionaries /\ i \in DOMAIN q /\ Incoming(p) # {}
    OBVIOUS
  <1>2. ~ Erase(p)
    BY <1>1 DEF Ordered, HasErase, Some, IsDelete
  <1>3. Validated(p) /\ p.wire /\ p.type \in OddsTypes /\ ~ k.ts
    BY <1>1 DEF BatchRefused, Some, Leads, OddsSnapshot
  <1> HIDE DEF p
  <1>4. Parse(p) # {}
    BY <1>1, <1>3 DEF Incoming
  <1>5. \A slot \in Incoming(p) : _has_complete_primary_key(k, p, slot)
    BY <1>1, <1>2, <1>3, <1>4, SnapshotIsKeyed
  <1>6. Supersedes(k, p)
    BY <1>3 DEF Supersedes, SnapshotTypes
  <1>7. _replace_native_snapshot(k, p, b) = Meaning(k, p, b)
    BY <1>2, <1>5, <1>6, SnapshotMeans
  <1>8. QED  BY <1>7 DEF Replaced, ByTable, p

LEMMA RowMeans ==
  ASSUME NEW k, NEW q, Accepted(k, q), NEW i \in 1..Len(q), ~ Leads(k, q, q[i]), NEW b
  PROVE  /\ Reads(k, q[i], Overlaid(k, q), b, ByTable(k, q, q[i], b))
         /\ Replaced(k, q, q[i], b) = b
  <1> USE DEF Accepted
  <1> DEFINE p == q[i]
  <1>1. p \in Dictionaries /\ i \in DOMAIN q
    OBVIOUS
  <1>2. p.type \notin MiningTypes /\ ~ Erase(p) /\ ~ Removes(k, p)
    BY <1>1 DEF Ordered, HasMining, HasErase, Some, IsDelete, Removes
  <1>3. HasWF(q) => Rowwise(k, q)
    BY DEF Rowwise, HasWF, Some
  <1> HIDE DEF p
  <1>4. Supersedes(k, p) => p.type \in Overlaid(k, q)
    <2>1. SUFFICES ASSUME p.wire, p.type \in SnapshotTypes(k) PROVE p.type \in Overlaid(k, q)
      BY DEF Supersedes
    <2>2. CASE p.type \in VoteTypes
      BY <2>2 DEF Overlaid
    <2>3. CASE p.type \in OddsTypes /\ ~ k.ts
      <3>1. HasWF(q)
        BY <2>1, <2>3 DEF Leads, OddsSnapshot, p
      <3>2. QED  BY <1>3, <2>3, <3>1 DEF Overlaid
    <2>4. QED  BY <1>2, <2>1, <2>2, <2>3 DEF SnapshotTypes
  <1>5. ByTable(k, q, p, b) = Upsert(b, Filed(k, p))
    <2>1. CASE Groupable(k, p)
      <3>1. NewRows(k, p) = Filed(k, p)
        BY <2>1, LiveRowsAreFiled DEF Groupable
      <3>2. ByTable(k, q, p, b) = _handle_new_record(k, p, Incoming(p), b)
        BY <2>1 DEF ByTable, p
      <3>3. QED  BY <3>1, <3>2, NewRecordUpserts
    <2>2. CASE ~ Groupable(k, p)
      <3>1. Filed(k, p) = {}
        BY <1>1, <2>2, UngroupedFilesNothing
      <3>2. ByTable(k, q, p, b) = b
        BY <2>2 DEF ByTable
      <3>3. QED  BY <3>1, <3>2 DEF Upsert
    <2>3. QED  BY <2>1, <2>2
  <1>6. Reads(k, p, Overlaid(k, q), b, ByTable(k, q, p, b))
    BY <1>2, <1>4, <1>5, RowsRead
  <1>7. QED  BY <1>6 DEF Replaced, p

\* The two passes over a batch, beside what it means.
Passes(k, q, b, h, g, f) ==
    /\ MeaningPath(k, q, b, h)
    /\ SnapshotsPath(k, q, b, g)
    /\ RowsPath(k, q, g[Len(q)], f)
    /\ Grouped(k, q, b) = f[Len(q)]

LEMMA PassesGo ==
  ASSUME NEW k, NEW q, Len(q) \in Nat, NEW b
  PROVE  \E h, g, f : Passes(k, q, b, h, g, f)
  <1>1. PICK h : MeaningPath(k, q, b, h)
    BY MeaningGoes
  <1>2. PICK g : SnapshotsPath(k, q, b, g)
    BY SnapshotsGo
  <1>3. PICK f : RowsPath(k, q, g[Len(q)], f)
    BY RowsGo
  <1>4. Grouped(k, q, b) = f[Len(q)]
    BY <1>2, <1>3 DEF Grouped, SnapshotsPath, RowsPath
  <1>5. QED  BY <1>1, <1>2, <1>3, <1>4 DEF Passes

\* In a pass a record is either a snapshot or rows, and leaves the other alone.
LEMMA PassStep ==
  ASSUME NEW k, NEW q, Accepted(k, q), NEW b, NEW h, NEW g, NEW f, Passes(k, q, b, h, g, f),
         NEW i \in 1..Len(q)
  PROVE  /\ h[i] = Meaning(k, q[i], h[i - 1])
         /\ Leads(k, q, q[i]) => g[i] = Meaning(k, q[i], g[i - 1]) /\ f[i] = f[i - 1]
         /\ ~ Leads(k, q, q[i]) => g[i] = g[i - 1] /\ Reads(k, q[i], Overlaid(k, q), f[i - 1], f[i])
  <1>1. /\ h[i] = Meaning(k, q[i], h[i - 1])
        /\ g[i] = Replaced(k, q, q[i], g[i - 1])
        /\ f[i] = ByTable(k, q, q[i], f[i - 1])
    BY DEF Passes, MeaningPath, SnapshotsPath, RowsPath
  <1>2. CASE Leads(k, q, q[i])
    <2>1. ASSUME NEW c
          PROVE  Replaced(k, q, q[i], c) = Meaning(k, q[i], c) /\ ByTable(k, q, q[i], c) = c
      BY <1>2, LeadMeans
    <2>2. QED  BY <1>1, <1>2, <2>1
  <1>3. CASE ~ Leads(k, q, q[i])
    <2>1. ASSUME NEW c
          PROVE  Reads(k, q[i], Overlaid(k, q), c, ByTable(k, q, q[i], c)) /\ Replaced(k, q, q[i], c) = c
      BY <1>3, RowMeans
    <2>2. QED  BY <1>1, <1>3, <2>1
  <1>4. QED  BY <1>2, <1>3

\* A race of which no row is handed over before a snapshot keeps its order:
\* its snapshots come before its rows anyway.
LEMMA GroupedRace ==
  ASSUME NEW k, NEW q, Accepted(k, q), NEW b,
         NEW type, NEW id, <<type, id>> \notin Overtaken(k, q)
  PROVE  Close(type, id, type \in Overlaid(k, q), Board!MeaningOfAll(k, q, b), Grouped(k, q, b))
  <1> DEFINE n == Len(q)
             L == Overlaid(k, q)
             left == type \in L
             Of(j) == q[j].type = type /\ q[j].id = id
             Row(j) == Of(j) /\ ~ Leads(k, q, q[j])
             Late(j) == \E l \in 1..j : Row(l)
  <1>1. n \in Nat /\ DOMAIN q = 1..n
    BY DEF Accepted
  <1>2. PICK h, g, f : Passes(k, q, b, h, g, f)
    BY <1>1, PassesGo
  <1>3. ASSUME NEW j \in 1..n
        PROVE  /\ h[j] = Meaning(k, q[j], h[j - 1])
               /\ Leads(k, q, q[j]) => g[j] = Meaning(k, q[j], g[j - 1]) /\ f[j] = f[j - 1]
               /\ ~ Leads(k, q, q[j]) => g[j] = g[j - 1] /\ Reads(k, q[j], L, f[j - 1], f[j])
    BY <1>2, PassStep
  <1>4. h[0] = b /\ g[0] = b /\ f[0] = g[n]
    BY <1>2 DEF Passes, MeaningPath, SnapshotsPath, RowsPath
  <1>5. Board!MeaningOfAll(k, q, b) = h[n] /\ Grouped(k, q, b) = f[n]
    BY <1>2 DEF Passes, MeaningPath
  <1>6. ASSUME NEW l \in 1..n, NEW j \in l..n, Row(l), Of(j) PROVE ~ Leads(k, q, q[j])
    <2>1. SUFFICES ASSUME Leads(k, q, q[j]) PROVE FALSE
      OBVIOUS
    <2>2. q[j].type \in OddsTypes /\ q[j].wire /\ ~ k.ts /\ ~ HasWF(q)
      BY <2>1 DEF Leads, OddsSnapshot
    <2>3. ~ q[l].wire
      BY <1>6, <2>2 DEF Leads, OddsSnapshot
    <2>4. j \in 1..n /\ l \in 1..(j - 1)
      BY <1>1, <1>6, <2>2, <2>3
    <2>5. Race(q[l]) = Race(q[j]) /\ Race(q[j]) = <<type, id>>
      BY <1>6 DEF Race
    <2>6. QED  BY <1>1, <2>2, <2>3, <2>4, <2>5 DEF Overtaken, Accepted
  <1>7. ASSUME NEW j \in 1..n, ~ Of(j)
        PROVE  Alike(type, id, h[j - 1], h[j]) /\ Alike(type, id, g[j - 1], g[j]) /\ Alike(type, id, f[j - 1], f[j])
    <2>1. Reads(k, q[j], L, h[j - 1], h[j])
      BY <1>3 DEF Reads
    <2>2. g[j] = g[j - 1] \/ Reads(k, q[j], L, g[j - 1], g[j])
      BY <1>3 DEF Reads
    <2>3. f[j] = f[j - 1] \/ Reads(k, q[j], L, f[j - 1], f[j])
      BY <1>3
    <2>4. \A c : Alike(type, id, c, c)
      BY DEF Alike
    <2> HIDE DEF L
    <2>5. QED  BY <1>7, <2>1, <2>2, <2>3, <2>4, Elsewhere
  <1> HIDE DEF n, L, left, Of, Row, Late
  <1>8. ASSUME NEW l \in 1..n, Row(l) PROVE Alike(type, id, g[l - 1], g[n])
    <2> DEFINE T == {j \in Nat : j < l \/ Alike(type, id, g[l - 1], g[j])}
    <2>1. 0 \in T
      BY <1>1
    <2>2. ASSUME NEW j \in 1..n, j - 1 \in T PROVE j \in T
      <3>1. CASE j < l
        BY <3>1
      <3>2. CASE j = l
        <4>1. g[j] = g[l - 1]
          BY <1>3, <1>8, <3>2 DEF Row
        <4>2. QED  BY <3>2, <4>1 DEF Alike
      <3>3. CASE l < j
        <4>1. Alike(type, id, g[l - 1], g[j - 1])
          BY <1>1, <2>2, <3>3
        <4>2. CASE Of(j)
          <5>1. ~ Leads(k, q, q[j])
            BY <1>1, <1>6, <1>8, <3>3, <4>2
          <5>2. g[j] = g[j - 1]
            BY <1>3, <5>1
          <5>3. QED  BY <4>1, <5>2
        <4>3. CASE ~ Of(j)
          BY <1>7, <4>1, <4>3 DEF Alike
        <4>4. QED  BY <4>2, <4>3
      <3>4. QED  BY <1>1, <3>1, <3>2, <3>3
    <2>3. n \in T
      <3> HIDE DEF T
      <3>1. QED  BY ONLY <1>1, <2>1, <2>2, UpTo, Zenon
    <2>4. ~ n < l
      BY <1>1, <1>8
    <2>5. QED  BY <2>3, <2>4
  <1> DEFINE Goes(j) == IF Late(j) THEN Close(type, id, left, h[j], f[j])
                        ELSE Close(type, id, left, h[j], g[j]) /\ Alike(type, id, f[j], g[n])
             T == {j \in Nat : Goes(j)}
  <1>9. 0 \in T
    <2>1. ~ Late(0)
      BY DEF Late
    <2>2. Close(type, id, left, h[0], g[0]) /\ Alike(type, id, f[0], g[n])
      BY <1>4 DEF Close, Alike
    <2>3. QED  BY <2>1, <2>2
  <1>10. ASSUME NEW j \in 1..n, j - 1 \in T PROVE j \in T
    <2>1. Goes(j - 1) /\ j \in Nat
      BY <1>1, <1>10
    <2>2. Late(j) <=> Late(j - 1) \/ Row(j)
      <3>1. 1..j = 1..(j - 1) \cup {j}
        BY <1>1
      <3>2. QED  BY <3>1 DEF Late
    <2>3. CASE ~ Of(j)
      <3>1. Late(j) <=> Late(j - 1)
        BY <2>2, <2>3 DEF Row
      <3>2. QED  BY <1>7, <2>1, <2>3, <3>1 DEF Close, Alike
    <2>4. CASE Of(j) /\ Leads(k, q, q[j])
      <3>1. ~ Late(j - 1)
        <4>1. SUFFICES ASSUME NEW l \in 1..(j - 1), Row(l) PROVE FALSE
          BY DEF Late
        <4>2. l \in 1..n /\ j \in l..n
          BY <1>1
        <4>3. QED  BY <1>6, <2>4, <4>1, <4>2
      <3>2. ~ Late(j)
        BY <2>2, <2>4, <3>1 DEF Row
      <3>3. Close(type, id, left, h[j - 1], g[j - 1]) /\ Alike(type, id, f[j - 1], g[n])
        BY <2>1, <3>1
      <3>4. g[j] = Meaning(k, q[j], g[j - 1]) /\ f[j] = f[j - 1] /\ h[j] = Meaning(k, q[j], h[j - 1])
        BY <1>3, <2>4
      <3>5. Reads(k, q[j], L, g[j - 1], g[j])
        BY <3>4 DEF Reads
      <3>6. Close(type, id, left, h[j], g[j])
        BY <3>3, <3>4, <3>5, CloseStep DEF left
      <3>7. QED  BY <2>1, <3>2, <3>3, <3>4, <3>6
    <2>5. CASE Row(j)
      <3>1. Late(j)
        BY <2>2, <2>5
      <3>2. Close(type, id, left, h[j - 1], f[j - 1])
        <4>1. CASE Late(j - 1)
          BY <2>1, <4>1
        <4>2. CASE ~ Late(j - 1)
          <5>1. Close(type, id, left, h[j - 1], g[j - 1]) /\ Alike(type, id, f[j - 1], g[n])
            BY <2>1, <4>2
          <5>2. Alike(type, id, g[j - 1], g[n])
            BY <1>8, <2>5
          <5>3. QED  BY <5>1, <5>2 DEF Close, Alike
        <4>3. QED  BY <4>1, <4>2
      <3>3. h[j] = Meaning(k, q[j], h[j - 1]) /\ Reads(k, q[j], L, f[j - 1], f[j])
        BY <1>3, <2>5 DEF Row
      <3>4. Close(type, id, left, h[j], f[j])
        BY <3>2, <3>3, CloseStep DEF left
      <3>5. QED  BY <2>1, <3>1, <3>4
    <2>6. QED  BY <2>3, <2>4, <2>5 DEF Row
  <1>11. Goes(n)
    <2>1. n \in T
      <3> HIDE DEF T
      <3>1. QED  BY ONLY <1>1, <1>9, <1>10, UpTo, Zenon
    <2>2. QED  BY <2>1
  <1>12. Close(type, id, left, h[n], f[n])
    BY <1>11 DEF Close, Alike
  <1>13. QED  BY <1>5, <1>12 DEF left, L

LEMMA GroupedMeans ==
  ASSUME NEW k, NEW q, Accepted(k, q), NEW b
  PROVE  Board!Says(k, q, b, Grouped(k, q, b))
  <1> DEFINE n == Len(q)
             B == Brought(k, q, b)
  <1>1. n \in Nat /\ DOMAIN q = 1..n
    BY DEF Accepted
  <1>2. PICK h, g, f : Passes(k, q, b, h, g, f)
    BY <1>1, PassesGo
  <1>3. ASSUME NEW j \in 1..n
        PROVE  g[j] \subseteq g[j - 1] \cup B /\ f[j] \subseteq f[j - 1] \cup B
    <2>1. Filed(k, q[j]) \subseteq B
      BY <1>1 DEF Brought
    <2>2. /\ Leads(k, q, q[j]) => g[j] = Meaning(k, q[j], g[j - 1]) /\ f[j] = f[j - 1]
          /\ ~ Leads(k, q, q[j]) => g[j] = g[j - 1] /\ Reads(k, q[j], Overlaid(k, q), f[j - 1], f[j])
      BY <1>2, PassStep
    <2>3. CASE Leads(k, q, q[j])
      BY <2>1, <2>2, <2>3, MeaningAdds
    <2>4. CASE ~ Leads(k, q, q[j])
      BY <2>1, <2>2, <2>4, ReadsAdds
    <2>5. QED  BY <2>3, <2>4
  <1>4. g[0] = b /\ f[0] = g[n] /\ Grouped(k, q, b) = f[n]
    BY <1>2 DEF Passes, SnapshotsPath, RowsPath
  <1>5. b \subseteq B
    BY DEF Brought
  <1> HIDE DEF n, B
  <1>6. g[n] \subseteq B
    <2> DEFINE T == {j \in Nat : g[j] \subseteq B}
    <2>1. 0 \in T
      BY <1>4, <1>5
    <2>2. \A j \in 1..n : j - 1 \in T => j \in T
      BY <1>1, <1>3
    <2>3. n \in T
      <3> HIDE DEF T
      <3>1. QED  BY ONLY <1>1, <2>1, <2>2, UpTo, Zenon
    <2>4. QED  BY <2>3
  <1>7. f[n] \subseteq B
    <2> DEFINE T == {j \in Nat : f[j] \subseteq B}
    <2>1. 0 \in T
      BY <1>4, <1>6
    <2>2. \A j \in 1..n : j - 1 \in T => j \in T
      BY <1>1, <1>3
    <2>3. n \in T
      <3> HIDE DEF T
      <3>1. QED  BY ONLY <1>1, <2>1, <2>2, UpTo, Zenon
    <2>4. QED  BY <2>3
  <1>8. Grouped(k, q, b) \subseteq b \cup UNION {Filed(k, q[i]) : i \in DOMAIN q}
    BY <1>4, <1>7 DEF B, Brought
  <1>9. ASSUME NEW type, NEW id, <<type, id>> \notin Unsettled(k, q, b)
        PROVE  Close(type, id, type \in Overlaid(k, q), Board!MeaningOfAll(k, q, b), Grouped(k, q, b))
    <2>1. <<type, id>> \notin Overtaken(k, q)
      BY <1>9 DEF Unsettled
    <2>2. QED  BY <2>1, GroupedRace
  <1>10. QED  BY <1>8, <1>9, CloseSays

---------------------------------------------------------------------------
(* The board. *)

\* A wide row that comes again is there already, or its race is unsettled.
Lost(k, p, b) == p.type = "WH" /\ \E r \in b : Race(r) = Race(p) /\ r.is = "erased"
Echoes(k, p, b) == Upsert(b, Filed(k, p)) = b \/ Lost(k, p, b)

BoardInv ==
    /\ Importing \/ buf = <<>>
    /\ told = "done" => buf = <<>>
    /\ open \/ work = kept
    /\ finger # <<>> => /\ kind.route = "standard"
                        /\ kind.type \in WideTypes /\ finger[1].type = kind.type
                        /\ Echoes(kind, finger[1], Shown)

LEMMA ShownBare ==
  ASSUME buf = <<>>
  PROVE  Shown = IF told = "broken" THEN kept ELSE work
  BY FlushNothing DEF Shown

LEMMA ShownBareNext ==
  ASSUME buf' = <<>>
  PROVE  Shown' = IF told' = "broken" THEN kept' ELSE work'
  BY FlushNothing DEF Shown

LEMMA InitBoard == Init => BoardInv /\ Board!BoardInit
  <1> SUFFICES ASSUME Init PROVE BoardInv /\ Board!BoardInit
    OBVIOUS
  <1>1. Shown = {}
    BY ShownBare DEF Init
  <1>2. QED  BY <1>1 DEF Init, BoardInv, Board!BoardInit

\* The ways of the board.
LEMMA BoardTakes ==
  ASSUME NEW p \in Records[kind.type], kind.route # "batch",
         kind' = kind, taken' = taken + 1, last' = <<p>>,
         Board!Says(kind, <<p>>, Shown, Shown'), kept' \in {kept, Shown'},
         told' = told \/ told' = "rejected"
  PROVE  Board!BoardNext
  <1>1. Board!Take(<<p>>)
    BY DEF Board!Take, Board!Handed
  <1>2. QED  BY <1>1 DEF Board!BoardNext

LEMMA BoardTakesAll ==
  ASSUME NEW q \in Batches[kind.type], kind.route = "batch",
         kind' = kind, taken' = taken + 1, last' = q,
         Board!Says(kind, q, Shown, Shown'), kept' \in {kept, Shown'},
         told' = told \/ told' = "rejected"
  PROVE  Board!BoardNext
  <1>1. Board!Take(q)
    BY DEF Board!Take, Board!Handed
  <1>2. QED  BY <1>1 DEF Board!BoardNext

LEMMA BoardRefuses ==
  ASSUME kind' = kind, taken' = taken + 1, last' = <<>>,
         kept' = kept, Shown' \in {Shown, kept}, told' \in {"rejected", "broken"}
  PROVE  Board!BoardNext
  <1>1. Board!Refuse
    BY DEF Board!Refuse, Board!Handed
  <1>2. QED  BY <1>1 DEF Board!BoardNext

\* What the live ways leave of the invariant.
LEMMA LiveKeeps ==
  ASSUME BoardInv, ~ Importing, kind' = kind, buf' = buf, finger' = finger, open' \/ work' = kept'
  PROVE  BoardInv' /\ buf = <<>> /\ buf' = <<>> /\ finger = <<>>
  <1>1. kind.route # "standard" /\ buf = <<>>
    BY DEF BoardInv, Importing, Imports
  <1>2. finger = <<>>
    BY <1>1 DEF BoardInv
  <1>3. QED  BY <1>1, <1>2 DEF BoardInv, Importing

---------------------------------------------------------------------------
(* Raw records on the board. *)

LEMMA ListedMeans ==
  ASSUME NEW k, k.route = "list", NEW p \in Dictionaries, p.wire, ~ Unstorable(k, p), NEW b
  PROVE  /\ ~ SnapshotRecord(k, p) =>
              Reads(k, p, Overlaid(k, <<p>>), b, _process_single_record(k, p, Incoming(p), b))
         /\ SnapshotRecord(k, p) =>
              Reads(k, p, Overlaid(k, <<p>>), b, _replace_native_snapshot(k, p, b))
  <1>1. Incoming(p) # {} /\ Parse(p) # {}
    BY DEF Unstorable, Incoming
  <1>2. k.route \in Live /\ k.route # "standard"
    BY DEF Live
  <1>3. ASSUME ~ SnapshotRecord(k, p)
        PROVE  Reads(k, p, Overlaid(k, <<p>>), b, _process_single_record(k, p, Incoming(p), b))
    <2>1. ~ Refused(k, p)
      BY <1>3 DEF Unstorable
    <2>2. ~ Erase(p) /\ Supersedes(k, p) => p.type \in Overlaid(k, <<p>>)
      BY <1>2, <1>3 DEF SnapshotRecord, Supersedes, SnapshotTypes, Overlaid
    <2>3. QED  BY <1>1, <1>2, <2>1, <2>2, SingleMeans
  <1>4. ASSUME SnapshotRecord(k, p)
        PROVE  Reads(k, p, Overlaid(k, <<p>>), b, _replace_native_snapshot(k, p, b))
    <2>1. Validated(p)
      BY <1>4 DEF Unstorable
    <2>2. \A slot \in Incoming(p) : _has_complete_primary_key(k, p, slot)
      BY <1>1, <1>4, <2>1, SnapshotIsKeyed DEF SnapshotRecord
    <2>3. Supersedes(k, p)
      BY <1>2, <1>4 DEF SnapshotRecord, Supersedes, SnapshotTypes
    <2>4. ~ Erase(p)
      BY <1>4 DEF SnapshotRecord
    <2>5. QED  BY <1>2, <2>2, <2>3, <2>4, SnapshotMeans DEF Reads
  <1>5. QED  BY <1>3, <1>4

LEMMA ListBoard ==
  ASSUME LifecycleInv, BoardInv, NEW p \in Records[kind.type],
         ListRefused(p) \/ ListRows(p) \/ ListSnapshot(p) \/ ListBreaks(p)
  PROVE  BoardInv' /\ Board!BoardNext
  <1>1. Listed(p)
    BY DEF ListRefused, ListRows, ListSnapshot, ListBreaks
  <1>2. /\ kind.route = "list" /\ p.wire /\ p \in Dictionaries /\ ~ Importing /\ kind.route # "batch"
        /\ kind' = kind /\ buf' = buf /\ finger' = finger /\ taken' = taken + 1
        /\ open \/ work = kept
    BY <1>1, KindRecords DEF Listed, LifecycleInv, Handed, Importing, Imports, BoardInv
  <1>3. open' \/ work' = kept'
    BY <1>2 DEF ListRefused, ListRows, ListSnapshot, ListBreaks, Untouched, Into, OnItsOwn, RolledBack
  <1>4. BoardInv' /\ buf = <<>> /\ buf' = <<>>
    BY <1>2, <1>3, LiveKeeps
  <1>5. /\ Shown = IF told = "broken" THEN kept ELSE work
        /\ Shown' = IF told' = "broken" THEN kept' ELSE work'
    BY <1>4, ShownBare, ShownBareNext
  <1>6. CASE ListRefused(p)
    <2>1. /\ kept' = kept /\ work' = work /\ last' = <<>>
          /\ told' = IF told = "broken" THEN "broken" ELSE "rejected"
      BY <1>6 DEF ListRefused, Untouched, Refuses, Rejects
    <2>2. QED  BY <1>2, <1>4, <1>5, <2>1, BoardRefuses
  <1>7. CASE ListRows(p)
    <2>1. Board!Says(kind, <<p>>, work, work')
      BY <1>2, <1>7, ListedMeans, SaysOne DEF ListRows, Into
    <2>2. /\ kept' = kept /\ told' = told
          /\ last' = IF told = "broken" THEN <<>> ELSE <<p>>
      BY <1>7 DEF ListRows, Into, Takes
    <2>3. CASE told = "broken"
      BY <1>2, <1>4, <1>5, <2>2, <2>3, BoardRefuses
    <2>4. CASE told # "broken"
      BY <1>2, <1>4, <1>5, <2>1, <2>2, <2>4, BoardTakes
    <2>5. QED  BY <2>3, <2>4
  <1>8. CASE ListSnapshot(p)
    <2>1. Board!Says(kind, <<p>>, work, work')
      BY <1>2, <1>8, ListedMeans, SaysOne DEF ListSnapshot, Into, OnItsOwn
    <2>2. told' = told
      BY <1>8 DEF ListSnapshot
    <2>3. CASE open
      <3>1. kept' = kept /\ last' = IF told = "broken" THEN <<>> ELSE <<p>>
        BY <1>8, <2>3 DEF ListSnapshot, Into, Takes
      <3>2. CASE told = "broken"
        BY <1>2, <1>4, <1>5, <2>2, <3>1, <3>2, BoardRefuses
      <3>3. CASE told # "broken"
        BY <1>2, <1>4, <1>5, <2>1, <2>2, <3>1, <3>3, BoardTakes
      <3>4. QED  BY <3>2, <3>3
    <2>4. CASE ~ open
      <3>1. kept' = work' /\ last' = <<p>> /\ work = kept
        BY <1>2, <1>8, <2>4 DEF ListSnapshot, OnItsOwn, Takes
      <3>2. Board!Says(kind, <<p>>, Shown, Shown') /\ kept' = Shown'
        BY <1>5, <2>1, <3>1
      <3>3. QED  BY <1>2, <1>4, <2>2, <3>1, <3>2, BoardTakes
    <2>5. QED  BY <2>3, <2>4
  <1>9. CASE ListBreaks(p)
    <2>1. kept' = kept /\ told' = "broken" /\ last' = <<>>
      BY <1>9 DEF ListBreaks, Breaks, RolledBack, Into
    <2>2. QED  BY <1>2, <1>4, <1>5, <2>1, BoardRefuses
  <1>10. QED  BY <1>6, <1>7, <1>8, <1>9

---------------------------------------------------------------------------
(* Rows and batches of them on the board. *)

LEMMA RowsBoard ==
  ASSUME LifecycleInv, BoardInv, NEW p \in Records[kind.type],
         RowsRefused(p) \/ RowsWritten(p) \/ RowsBreak(p)
  PROVE  BoardInv' /\ Board!BoardNext
  <1>1. Rowed(p)
    BY DEF RowsRefused, RowsWritten, RowsBreak
  <1>2. /\ kind.route = "rows" /\ told = "fine" /\ Incoming(p) # {} /\ ~ Importing /\ kind.route # "batch"
        /\ kind' = kind /\ buf' = buf /\ finger' = finger /\ taken' = taken + 1
        /\ open \/ work = kept
    BY <1>1 DEF Rowed, Handed, Importing, Imports, BoardInv
  <1>3. open' \/ work' = kept'
    BY <1>2 DEF RowsRefused, RowsWritten, RowsBreak, Untouched, Into, RolledBack
  <1>4. BoardInv' /\ buf = <<>> /\ buf' = <<>>
    BY <1>2, <1>3, LiveKeeps
  <1>5. Shown = work /\ Shown' = IF told' = "broken" THEN kept' ELSE work'
    BY <1>2, <1>4, ShownBare, ShownBareNext
  <1>6. CASE RowsRefused(p)
    <2>1. kept' = kept /\ work' = work /\ last' = <<>> /\ told' = "rejected"
      BY <1>2, <1>6 DEF RowsRefused, Untouched, Refuses, Rejects
    <2>2. QED  BY <1>2, <1>4, <1>5, <2>1, BoardRefuses
  <1>7. CASE RowsWritten(p)
    <2>1. kind.route \in Live /\ ~ Refused(kind, p) /\ work' = _process_single_record(kind, p, Incoming(p), work)
      BY <1>2, <1>7 DEF Live, RowsWritten, Into
    <2>2. Board!Says(kind, <<p>>, work, work')
      <3>1. ~ Erase(p) /\ Supersedes(kind, p) => p.type \in Overlaid(kind, <<p>>)
        <4>1. ~ Erase(p) => p.type \notin MiningTypes
          BY <2>1 DEF Refused
        <4>2. QED  BY <1>2, <4>1 DEF Supersedes, SnapshotTypes, Overlaid, Rowwise
      <3>2. QED  BY <1>2, <2>1, <3>1, SingleMeans, SaysOne
    <2>3. kept' = kept /\ told' = told /\ last' = <<p>>
      BY <1>2, <1>7 DEF RowsWritten, Into, Takes
    <2>4. QED  BY <1>2, <1>4, <1>5, <2>2, <2>3, BoardTakes
  <1>8. CASE RowsBreak(p)
    <2>1. kept' = kept /\ told' = "broken" /\ last' = <<>>
      BY <1>8 DEF RowsBreak, Breaks, RolledBack
    <2>2. QED  BY <1>2, <1>4, <1>5, <2>1, BoardRefuses
  <1>9. QED  BY <1>6, <1>7, <1>8

LEMMA BatchBoard ==
  ASSUME LifecycleInv, BoardInv, NEW q \in Batches[kind.type],
         RefuseBatch(q) \/ ApplyInOrder(q) \/ ApplyGrouped(q) \/ BatchBreaks(q)
  PROVE  BoardInv' /\ Board!BoardNext
  <1>1. Handover(q)
    BY DEF RefuseBatch, ApplyInOrder, ApplyGrouped, BatchBreaks
  <1>2. /\ kind.route = "batch" /\ told = "fine" /\ q \in Seq(Dictionaries) /\ ~ Importing
        /\ \A i \in DOMAIN q : Incoming(q[i]) # {}
        /\ kind' = kind /\ buf' = buf /\ finger' = finger /\ taken' = taken + 1
        /\ open \/ work = kept
    BY <1>1, KindRecords DEF Handover, LifecycleInv, Handed, Importing, Imports, BoardInv
  <1>3. open' \/ work' = kept'
    BY <1>2 DEF RefuseBatch, ApplyInOrder, ApplyGrouped, BatchBreaks, Ends, Untouched, Into,
                OnItsOwn, RolledBack
  <1>4. BoardInv' /\ buf = <<>> /\ buf' = <<>>
    BY <1>2, <1>3, LiveKeeps
  <1>5. Shown = work /\ Shown' = IF told' = "broken" THEN kept' ELSE work'
    BY <1>2, <1>4, ShownBare, ShownBareNext
  <1>6. ASSUME NEW b, Ends(b) PROVE work' = b /\ kept' \in {kept, b}
    BY <1>6 DEF Ends, Into, OnItsOwn
  <1>7. CASE RefuseBatch(q)
    <2>1. kept' = kept /\ work' = work /\ last' = <<>> /\ told' = "rejected"
      BY <1>2, <1>7 DEF RefuseBatch, Untouched, Refuses, Rejects
    <2>2. QED  BY <1>2, <1>4, <1>5, <2>1, BoardRefuses
  <1>8. CASE ApplyInOrder(q)
    <2>1. CASE Some(q, LAMBDA p : ~ Whole(p) /\ Refused(kind, p))
      <3>1. kept' = kept /\ work' = kept /\ last' = <<>> /\ told' = "rejected"
        BY <1>2, <1>8, <2>1 DEF ApplyInOrder, RolledBack, Refuses, Rejects
      <3>2. QED  BY <1>2, <1>4, <1>5, <3>1, BoardRefuses
    <2>2. CASE ~ Some(q, LAMBDA p : ~ Whole(p) /\ Refused(kind, p))
      <3>1. \A j \in DOMAIN q : Whole(q[j]) \/ ~ Refused(kind, q[j])
        BY <2>2 DEF Some
      <3>2. ~ BatchRefused(kind, q) /\ Ordered(q)
        BY <1>8 DEF ApplyInOrder
      <3>3. Board!Says(kind, q, work, InOrder(kind, q, work))
        BY <1>2, <3>1, <3>2, InOrderMeans
      <3>4. Ends(InOrder(kind, q, work)) /\ told' = told /\ last' = q
        BY <1>2, <1>8, <2>2 DEF ApplyInOrder, Takes
      <3>5. Board!Says(kind, q, work, work') /\ kept' \in {kept, work'}
        BY <1>6, <3>3, <3>4
      <3>6. Shown' = work'
        BY <1>2, <1>5, <3>4
      <3>7. QED  BY <1>2, <1>4, <1>5, <3>4, <3>5, <3>6, BoardTakesAll
    <2>3. QED  BY <2>1, <2>2
  <1>9. CASE ApplyGrouped(q)
    <2>1. ~ BatchRefused(kind, q) /\ ~ Ordered(q) /\ Ends(Grouped(kind, q, work))
      BY <1>9 DEF ApplyGrouped
    <2>2. Board!Says(kind, q, work, Grouped(kind, q, work))
      BY <1>2, <2>1, GroupedMeans DEF Accepted
    <2>3. (told' = told \/ told' = "rejected") /\ last' = q
      BY <1>2, <1>9 DEF ApplyGrouped, Rejects, Takes
    <2>4. Board!Says(kind, q, work, work') /\ kept' \in {kept, work'}
      BY <1>6, <2>1, <2>2
    <2>5. Shown' = work'
      BY <1>2, <1>5, <2>3
    <2>6. QED  BY <1>2, <1>4, <1>5, <2>3, <2>4, <2>5, BoardTakesAll
  <1>10. CASE BatchBreaks(q)
    <2>1. kept' = kept /\ told' = "broken" /\ last' = <<>>
      BY <1>10 DEF BatchBreaks, Breaks, RolledBack
    <2>2. QED  BY <1>2, <1>4, <1>5, <2>1, BoardRefuses
  <1>11. QED  BY <1>7, <1>8, <1>9, <1>10

---------------------------------------------------------------------------
(* Rows that come again. *)

LEMMA EchoOfItself ==
  ASSUME NEW k, NEW p, NEW b
  PROVE  Echoes(k, p, Upsert(b, Filed(k, p)))
  <1>1. \A r : SamePlace(r, r)
    BY DEF SamePlace
  <1>2. QED  BY <1>1 DEF Echoes, Upsert

\* Horse weights whose erase has been written may be lost, those of another
\* race are there still.
LEMMA EchoAfterErase ==
  ASSUME NEW k, k.route = "standard", ~ k.ts, NEW p, NEW f, NEW b,
         p.type = "WH", f.type = "WH", Erase(p), Echoes(k, f, b)
  PROVE  Echoes(k, f, Upsert(b, Filed(k, p)))
  <1> DEFINE c == Upsert(b, Filed(k, p))
             t == _prepare_data_for_db(k, p, "wide")
             s == _prepare_data_for_db(k, f, "wide")
  <1>1. Places(k, p) = {"wide"} /\ Places(k, f) = {"wide"}
    BY DEF Places, SplitTypes, WideTypes, OddsTypes, VoteTypes
  <1>2. /\ NamesKey(k, p) <=> p.id # "blank"
        /\ NamesKey(k, f) <=> f.id # "blank"
    BY DEF NamesKey, Timed, Live, OddsTypes
  <1>3. /\ Filed(k, p) = IF p.id # "blank" THEN {t} ELSE {}
        /\ Filed(k, f) = IF f.id # "blank" THEN {s} ELSE {}
    BY <1>1, <1>2 DEF Filed, _has_complete_primary_key
  <1>4. t.type = "WH" /\ t.id = p.id /\ t.is = "erased" /\ s.id = f.id
    BY DEF _prepare_data_for_db, Holds
  <1>5. \A r : SamePlace(r, t) => r.id = p.id
    BY <1>4 DEF SamePlace
  <1>6. \A r : SamePlace(r, s) => r.id = f.id
    BY <1>4 DEF SamePlace
  <1> HIDE DEF t, s
  <1>7. CASE p.id = "blank"
    <2>1. c = b
      BY <1>3, <1>7 DEF Upsert
    <2>2. QED  BY <2>1
  <1>8. CASE p.id # "blank" /\ f.id = p.id
    <2>1. t \in c
      BY <1>3, <1>8 DEF Upsert
    <2>2. Race(t) = Race(f)
      BY <1>4, <1>8 DEF Race
    <2>3. Lost(k, f, c)
      BY <1>4, <2>1, <2>2 DEF Lost
    <2>4. QED  BY <2>3 DEF Echoes
  <1>9. CASE p.id # "blank" /\ f.id # p.id
    <2>1. c = {r \in b : ~ SamePlace(r, t)} \cup {t}
      BY <1>3, <1>9 DEF Upsert
    <2>2. \A r \in b : r.id = f.id => r \in c
      BY <1>5, <1>9, <2>1
    <2>3. CASE Lost(k, f, b)
      <3>1. PICK r \in b : Race(r) = Race(f) /\ r.is = "erased"
        BY <2>3 DEF Lost
      <3>2. r \in c
        BY <2>2, <3>1 DEF Race
      <3>3. QED  BY <3>1, <3>2 DEF Echoes, Lost
    <2>4. CASE Upsert(b, Filed(k, f)) = b
      <3>1. CASE f.id = "blank"
        BY <1>3, <3>1 DEF Echoes, Upsert
      <3>2. CASE f.id # "blank"
        <4>1. b = {r \in b : ~ SamePlace(r, s)} \cup {s}
          BY <1>3, <2>4, <3>2 DEF Upsert
        <4>2. s \in c
          BY <1>4, <2>2, <4>1
        <4>3. \A r \in c : SamePlace(r, s) => r = s
          BY <1>4, <1>6, <1>9, <2>1, <4>1
        <4>4. {r \in c : ~ SamePlace(r, s)} \cup {s} = c
          BY <4>2, <4>3
        <4>5. Upsert(c, Filed(k, f)) = c
          BY <1>3, <3>2, <4>4 DEF Upsert
        <4>6. QED  BY <4>5 DEF Echoes
      <3>3. QED  BY <3>1, <3>2
    <2>5. QED  BY <2>3, <2>4 DEF Echoes
  <1>10. QED  BY <1>7, <1>8, <1>9

---------------------------------------------------------------------------
(* An import on the board. *)

LEMMA ShownOfImport ==
  ASSUME told # "broken"
  PROVE  Shown = _flush_batch(kind, work, buf)
  BY DEF Shown

LEMMA ImportedMeans ==
  ASSUME LifecycleInv, NEW p \in Records[kind.type], Importable(p)
  PROVE  /\ p \in Dictionaries /\ p.type = kind.type /\ Parsed(p) /\ Validated(p) /\ Incoming(p) # {}
         /\ kind.route \in Imports /\ kind.route # "batch" /\ ~ kind.ts /\ Importing
         /\ kind' = kind /\ taken' = taken + 1 /\ told \in {"fine", "rejected"}
         /\ buf \in Seq(Dictionaries)
         /\ Shown = _flush_batch(kind, work, buf)
         /\ Takes(<<p>>) => last' = <<p>>
         /\ \A q : Counts(q) => told' = told \/ told' = "rejected"
  <1>1. p \in Dictionaries /\ p.type = kind.type
    BY KindRecords DEF LifecycleInv
  <1>2. /\ kind.route \in Imports /\ Importing /\ kind' = kind /\ taken' = taken + 1
        /\ told \in {"fine", "rejected"} /\ Parsed(p) /\ Incoming(p) # {}
    BY DEF Importable, Imported, Importing, Handed
  <1>3. Validated(p)
    BY DEF Importable, validate_import_record_header
  <1>4. kind.route # "batch" /\ ~ kind.ts
    <2>1. kind \in Kinds
      BY DEF LifecycleInv
    <2>2. kind.ts => kind.route \in Live
      BY <2>1 DEF Kinds
    <2>3. QED  BY <1>2, <2>2 DEF Imports, Live
  <1>5. Takes(<<p>>) => last' = <<p>>
    BY <1>2 DEF Takes
  <1>6. ASSUME NEW q, Counts(q) PROVE told' = told \/ told' = "rejected"
    BY <1>2, <1>6 DEF Counts, Rejects
  <1>7. buf \in Seq(Dictionaries)
    BY DEF LifecycleInv
  <1>8. Shown = _flush_batch(kind, work, buf)
    BY <1>2, ShownOfImport
  <1>9. QED  BY <1>1, <1>2, <1>3, <1>4, <1>5, <1>6, <1>7, <1>8

\* What an import raises.
LEMMA RaisesBoard ==
  ASSUME BoardInv, Importing, kind' = kind, Raises
  PROVE  BoardInv' /\ kept' = kept /\ Shown' = kept /\ told' = "broken" /\ last' = <<>>
  <1>1. kept' = kept /\ work' = kept /\ told' = "broken" /\ last' = <<>> /\ buf' = <<>> /\ finger' = <<>>
    BY DEF Raises, RolledBack, Breaks
  <1>2. Shown' = kept
    BY <1>1, ShownBareNext
  <1>3. BoardInv'
    BY <1>1 DEF BoardInv, Importing
  <1>4. QED  BY <1>1, <1>2, <1>3

LEMMA ImportEraseBoard ==
  ASSUME LifecycleInv, BoardInv, NEW p \in Records[kind.type], ImportErase(p)
  PROVE  BoardInv' /\ Board!BoardNext
  <1>1. /\ Importable(p) /\ Takes(<<p>>) /\ ErasesAtOnce(kind, p) /\ Counts(buf)
        /\ work' = Without(kind, p, _flush_batch(kind, work, buf)) /\ kept' = kept /\ open'
        /\ buf' = <<>> /\ finger' = <<>>
    BY DEF ImportErase, Into
  <1>2. /\ kind.route # "batch" /\ Importing /\ kind' = kind /\ taken' = taken + 1
        /\ told \in {"fine", "rejected"} /\ last' = <<p>> /\ (told' = told \/ told' = "rejected")
        /\ Shown = _flush_batch(kind, work, buf)
    BY <1>1, ImportedMeans
  <1>3. Board!Says(kind, <<p>>, Shown, Shown')
    <2>1. Shown' = work'
      BY <1>1, <1>2, ShownBareNext
    <2>2. Shown' = Meaning(kind, p, Shown)
      BY <1>1, <1>2, <2>1, ErasesMeans
    <2>3. QED  BY <2>2, SaysOne DEF Reads
  <1>4. BoardInv'
    BY <1>1, <1>2 DEF BoardInv, Importing
  <1>5. QED  BY <1>1, <1>2, <1>3, <1>4, BoardTakes

LEMMA ImportSnapshotBoard ==
  ASSUME LifecycleInv, BoardInv, NEW p \in Records[kind.type], ImportSnapshot(p)
  PROVE  BoardInv' /\ Board!BoardNext
  <1>1. /\ Importable(p) /\ Takes(<<p>>) /\ ReplacesAtOnce(kind, p) /\ Counts(buf)
        /\ work' = _replace_native_snapshot(kind, p, _flush_batch(kind, work, buf))
        /\ kept' = kept /\ open' /\ buf' = <<>> /\ finger' = finger
    BY DEF ImportSnapshot, Into
  <1>2. /\ kind.route # "batch" /\ Importing /\ kind' = kind /\ taken' = taken + 1
        /\ told \in {"fine", "rejected"} /\ last' = <<p>> /\ (told' = told \/ told' = "rejected")
        /\ Shown = _flush_batch(kind, work, buf)
        /\ p \in Dictionaries /\ Incoming(p) # {} /\ Validated(p) /\ ~ kind.ts
    BY <1>1, ImportedMeans
  <1>3. Board!Says(kind, <<p>>, Shown, Shown')
    <2>1. Shown' = work'
      BY <1>1, <1>2, ShownBareNext
    <2>2. Shown' = Meaning(kind, p, Shown)
      BY <1>1, <1>2, <2>1, ReplacesMeans
    <2>3. QED  BY <2>2, SaysOne DEF Reads
  <1>4. finger = <<>>
    BY <1>1 DEF ReplacesAtOnce, BoardInv
  <1>5. BoardInv'
    BY <1>1, <1>2, <1>4 DEF BoardInv, Importing
  <1>6. QED  BY <1>1, <1>2, <1>3, <1>5, BoardTakes

LEMMA ImportSplitBoard ==
  ASSUME LifecycleInv, BoardInv, NEW p \in Records[kind.type], ImportSplit(p)
  PROVE  BoardInv' /\ Board!BoardNext
  <1>1. /\ Importable(p) /\ Takes(<<p>>) /\ _is_standard_split(kind, p) /\ ~ Erase(p)
        /\ work' = _flush_batch(kind, work, buf) /\ kept' = kept /\ open'
        /\ buf' = <<p>> /\ finger' = finger /\ told' = told
    BY DEF ImportSplit, Into
  <1>2. /\ kind.route # "batch" /\ Importing /\ kind' = kind /\ taken' = taken + 1
        /\ told \in {"fine", "rejected"} /\ last' = <<p>>
        /\ Shown = _flush_batch(kind, work, buf)
        /\ p \in Dictionaries /\ p.type = kind.type /\ Parsed(p)
    BY <1>1, ImportedMeans
  <1>3. Board!Says(kind, <<p>>, Shown, Shown')
    <2>1. Shown' = _flush_batch(kind, Shown, <<p>>)
      BY <1>1, <1>2 DEF Shown
    <2>2. Shown' = Written(kind, Shown, p)
      BY <2>1, FlushOne
    <2>3. Shown' = Meaning(kind, p, Shown)
      BY <1>1, <1>2, <2>2, SplitMeans
    <2>4. QED  BY <2>3, SaysOne DEF Reads
  <1>4. finger = <<>>
    <2>1. kind.type \notin WideTypes
      BY <1>1, <1>2 DEF _is_standard_split, WideTypes, SplitTypes, MiningTypes, OddsTypes, VoteTypes
    <2>2. QED  BY <2>1 DEF BoardInv
  <1>5. BoardInv'
    BY <1>1, <1>2, <1>4 DEF BoardInv, Importing
  <1>6. QED  BY <1>1, <1>2, <1>3, <1>5, BoardTakes

\* A wide row is written over the last one.
LEMMA WideMeans ==
  ASSUME NEW k, k.route = "standard", NEW p, p.type \in WideTypes, ~ Removes(k, p), NEW b
  PROVE  Meaning(k, p, b) = Upsert(b, Filed(k, p))
  <1>1. ~ Supersedes(k, p)
    BY DEF Supersedes, SnapshotTypes, SplitTypes, WideTypes, OddsTypes, VoteTypes, MiningTypes
  <1>2. QED  BY <1>1, AddsMeans

\* Of the horse weights that are lost only their own race is unsettled.
LEMMA LostSays ==
  ASSUME NEW k, k.route = "standard", NEW p, ~ Erase(p), NEW b, Lost(k, p, b)
  PROVE  Board!Says(k, <<p>>, b, b)
  <1>1. DOMAIN <<p>> = {1} /\ <<p>>[1] = p
    OBVIOUS
  <1>2. Race(p) \in Unsettled(k, <<p>>, b)
    BY <1>1 DEF Unsettled, Forgotten, Lost
  <1>3. ASSUME NEW type, NEW id, <<type, id>> \notin Unsettled(k, <<p>>, b)
        PROVE  Close(type, id, type \in Overlaid(k, <<p>>), Board!MeaningOfAll(k, <<p>>, b), b)
    <2>1. ~ (p.type = type /\ p.id = id)
      BY <1>2, <1>3 DEF Race
    <2>2. Reads(k, p, Overlaid(k, <<p>>), b, Meaning(k, p, b))
      BY DEF Reads
    <2>3. Alike(type, id, b, Meaning(k, p, b))
      BY <2>1, <2>2, Elsewhere
    <2>4. QED  BY <2>3, MeaningOne DEF Close, Alike
  <1>4. QED  BY <1>3, CloseSays

LEMMA ImportRepeatedBoard ==
  ASSUME LifecycleInv, BoardInv, NEW p \in Records[kind.type], ImportRepeated(p)
  PROVE  BoardInv' /\ Board!BoardNext
  <1>1. /\ Importable(p) /\ Takes(<<p>>) /\ Repeated(p)
        /\ ~ ErasesAtOnce(kind, p) /\ ~ ReplacesAtOnce(kind, p) /\ ~ _is_standard_split(kind, p)
        /\ work' = work /\ kept' = kept /\ open' = open /\ buf' = buf /\ finger' = finger
        /\ told' = told
    BY DEF ImportRepeated, Plain, Untouched
  <1>2. /\ kind.route # "batch" /\ kind.route \in Imports /\ Importing /\ kind' = kind
        /\ taken' = taken + 1 /\ last' = <<p>> /\ Parsed(p)
        /\ p \in Dictionaries /\ p.type = kind.type
    BY <1>1, ImportedMeans
  <1>3. Shown' = Shown
    BY <1>1, <1>2 DEF Shown
  <1>4. BoardInv'
    BY <1>1, <1>2, <1>3 DEF BoardInv, Importing
  <1>5. /\ finger[1] = p /\ finger # <<>> /\ ~ Erase(p)
        /\ kind.route = "standard" /\ p.type \in WideTypes
    BY <1>1 DEF Repeated, _expanded_record_fingerprint
  <1>6. Echoes(kind, p, Shown)
    BY <1>5 DEF BoardInv
  <1>7. CASE Lost(kind, p, Shown)
    <2>1. Board!Says(kind, <<p>>, Shown, Shown')
      BY <1>3, <1>5, <1>7, LostSays
    <2>2. QED  BY <1>1, <1>2, <1>4, <2>1, BoardTakes
  <1>8. CASE Upsert(Shown, Filed(kind, p)) = Shown
    <2>1. Shown' = Meaning(kind, p, Shown)
      BY <1>3, <1>5, <1>8, WideMeans DEF Removes
    <2>2. Board!Says(kind, <<p>>, Shown, Shown')
      BY <2>1, SaysOne DEF Reads
    <2>3. QED  BY <1>1, <1>2, <1>4, <2>2, BoardTakes
  <1>9. QED  BY <1>6, <1>7, <1>8 DEF Echoes

LEMMA ImportRowBoard ==
  ASSUME LifecycleInv, BoardInv, NEW p \in Records[kind.type], ImportRow(p)
  PROVE  BoardInv' /\ Board!BoardNext
  <1> DEFINE q == Append(buf, p)
             f == _expanded_record_fingerprint(kind, p)
  <1>1. /\ Importable(p) /\ Takes(<<p>>)
        /\ ~ ErasesAtOnce(kind, p) /\ ~ ReplacesAtOnce(kind, p) /\ ~ _is_standard_split(kind, p)
        /\ finger' = IF f = <<>> THEN finger ELSE f
    BY DEF ImportRow, Plain
  <1>2. /\ kind.route # "batch" /\ kind.route \in Imports /\ ~ kind.ts /\ Importing /\ kind' = kind
        /\ taken' = taken + 1 /\ last' = <<p>> /\ Parsed(p) /\ Validated(p)
        /\ told \in {"fine", "rejected"} /\ p \in Dictionaries /\ p.type = kind.type
        /\ buf \in Seq(Dictionaries)
        /\ Shown = _flush_batch(kind, work, buf)
    BY <1>1, ImportedMeans
  <1>3. kind' = kind /\ \A x : Counts(x) => told' = told \/ told' = "rejected"
    BY <1>1, ImportedMeans
  <1>4. _flush_batch(kind, work, q) = Written(kind, Shown, p)
    BY <1>2, FlushAppend
  <1>5. /\ Shown' = Written(kind, Shown, p) /\ kept' = kept /\ open'
        /\ told' = told \/ told' = "rejected"
    <2> HIDE DEF q, f
    <2>1. CASE Full(kind, q)
      <3>1. /\ work' = _flush_batch(kind, work, q) /\ buf' = <<>> /\ Counts(q) /\ kept' = kept /\ open'
        BY <2>1 DEF ImportRow, Into, q
      <3>2. told' = told \/ told' = "rejected"
        BY <1>3, <3>1
      <3>3. Shown' = work'
        BY <1>2, <3>1, <3>2, ShownBareNext
      <3>4. QED  BY <1>4, <3>1, <3>2, <3>3
    <2>2. CASE ~ Full(kind, q)
      <3>1. work' = work /\ kept' = kept /\ open' = open /\ buf' = q /\ told' = told
        BY <2>2 DEF ImportRow, Untouched, q
      <3>2. open
        BY <1>1 DEF Importable, Imported
      <3>3. Shown' = _flush_batch(kind, work, q)
        BY <1>2, <3>1 DEF Shown
      <3>4. QED  BY <1>4, <3>1, <3>2, <3>3
    <2>3. QED  BY <2>1, <2>2
  <1> HIDE DEF q, f
  <1>6. /\ Reads(kind, p, Overlaid(kind, <<p>>), Shown, Shown')
        /\ Board!Says(kind, <<p>>, Shown, Shown')
    BY <1>1, <1>2, <1>5, WaitingMeans, SaysOne
  <1>7. finger' # <<>> => /\ kind.route = "standard" /\ kind.type \in WideTypes
                          /\ finger'[1].type = kind.type
                          /\ Echoes(kind, finger'[1], Shown')
    <2>1. CASE f # <<>>
      <3>1. f = <<p>> /\ kind.route = "standard" /\ p.type \in WideTypes /\ ~ Erase(p)
        BY <2>1 DEF f, _expanded_record_fingerprint
      <3>2. Shown' = Upsert(Shown, Filed(kind, p))
        <4>1. ~ Removes(kind, p)
          BY <3>1 DEF Removes
        <4>2. QED  BY <1>6, <3>1, <4>1, WideMeans DEF Reads
      <3>3. finger' = <<p>> /\ finger'[1] = p
        BY <1>1, <2>1, <3>1
      <3>4. QED  BY <1>2, <3>1, <3>2, <3>3, EchoOfItself
    <2>2. CASE f = <<>> /\ finger # <<>>
      <3>1. /\ finger' = finger /\ kind.route = "standard" /\ kind.type \in WideTypes
            /\ finger[1].type = kind.type /\ Echoes(kind, finger[1], Shown)
        BY <1>1, <2>2 DEF BoardInv
      <3>2. Erase(p)
        BY <1>2, <2>2, <3>1 DEF f, _expanded_record_fingerprint
      <3>3. p.type = "WH"
        BY <1>1, <1>2, <3>1, <3>2 DEF ErasesAtOnce, _is_mining_race_delete, WideTypes, MiningTypes
      <3>4. Shown' = Upsert(Shown, Filed(kind, p))
        <4>1. ~ Removes(kind, p)
          BY <1>2, <3>3 DEF Removes, Tombstone
        <4>2. QED  BY <1>2, <1>6, <3>1, <4>1, WideMeans DEF Reads
      <3>5. QED  BY <1>2, <3>1, <3>2, <3>3, <3>4, EchoAfterErase
    <2>3. QED  BY <1>1, <2>1, <2>2
  <1>8. BoardInv'
    BY <1>2, <1>5, <1>7 DEF BoardInv, Importing
  <1>9. QED  BY <1>2, <1>5, <1>6, <1>8, BoardTakes

LEMMA ImportBoard ==
  ASSUME LifecycleInv, BoardInv, NEW p \in Records[kind.type],
         \/ ImportRefused(p) \/ ImportErase(p) \/ ImportSnapshot(p) \/ ImportSplit(p)
         \/ ImportRepeated(p) \/ ImportRow(p) \/ ImportBreaks(p)
  PROVE  BoardInv' /\ Board!BoardNext
  <1>1. CASE ImportRefused(p) \/ ImportBreaks(p)
    <2>1. Importing /\ kind' = kind /\ taken' = taken + 1 /\ Raises
      BY <1>1 DEF ImportRefused, ImportBreaks, Importable, Imported, Handed
    <2>2. QED  BY <2>1, RaisesBoard, BoardRefuses
  <1>2. QED
    BY <1>1, ImportEraseBoard, ImportSnapshotBoard, ImportSplitBoard, ImportRepeatedBoard,
       ImportRowBoard

LEMMA ImportEndsBoard ==
  ASSUME LifecycleInv, BoardInv, ImportEnds
  PROVE  BoardInv' /\ Board!BoardNext
  <1>1. Importing /\ kind' = kind /\ taken' = taken /\ last' = <<>> /\ told \in {"fine", "rejected"}
    BY DEF ImportEnds, Between
  <1>2. CASE Raises
    <2>1. BoardInv' /\ kept' = kept /\ Shown' = kept /\ told' = "broken"
      BY <1>1, <1>2, RaisesBoard
    <2>2. Board!Complain
      BY <1>1, <2>1 DEF Board!Complain, Board!Between
    <2>3. QED  BY <2>1, <2>2 DEF Board!BoardNext
  <1>3. CASE ~ Raises
    <2>1. /\ work' = _flush_batch(kind, work, buf) /\ kept' = kept /\ open'
          /\ buf' = <<>> /\ finger' = <<>>
          /\ told' = "rejected" \/ (told' = "done" /\ told = "fine")
      BY <1>1, <1>3 DEF ImportEnds, Into
    <2>2. Shown' = Shown
      BY <1>1, <2>1, ShownBareNext, ShownOfImport
    <2>3. BoardInv'
      BY <1>1, <2>1 DEF BoardInv, Importing
    <2>4. CASE told' = "rejected"
      <3>1. Board!Complain
        BY <1>1, <2>1, <2>2, <2>4 DEF Board!Complain, Board!Between
      <3>2. QED  BY <2>3, <3>1 DEF Board!BoardNext
    <2>5. CASE told' = "done" /\ told = "fine"
      <3>1. Board!Pause
        BY <1>1, <2>1, <2>2, <2>5 DEF Board!Pause, Board!Between
      <3>2. QED  BY <2>3, <3>1 DEF Board!BoardNext
    <2>6. QED  BY <2>1, <2>4, <2>5
  <1>4. QED  BY <1>2, <1>3

---------------------------------------------------------------------------
(* The caller's transaction on the board. *)

LEMMA CallerBoard ==
  ASSUME BoardInv, Begin \/ Commit \/ Abort
  PROVE  BoardInv' /\ Board!BoardNext
  <1>1. kind' = kind /\ taken' = taken /\ last' = <<>> /\ (Importing' <=> Importing)
    BY DEF Begin, Commit, Abort, Between, Importing
  <1>2. CASE Begin
    <2>1. UNCHANGED <<kept, work, buf, finger, told>> /\ open'
      BY <1>2 DEF Begin
    <2>2. Shown' = Shown
      BY <1>1, <2>1 DEF Shown
    <2>3. BoardInv'
      BY <1>1, <2>1, <2>2 DEF BoardInv
    <2>4. Board!Pause
      BY <1>1, <2>1, <2>2 DEF Board!Pause, Board!Between
    <2>5. QED  BY <2>3, <2>4 DEF Board!BoardNext
  <1>3. CASE Commit
    <2>1. /\ UNCHANGED <<work, buf, finger>> /\ kept' = work /\ told' = "fine"
          /\ told \in {"fine", "done"} /\ ~ open'
          /\ Importing => told = "done"
      BY <1>3 DEF Commit
    <2>2. buf = <<>> /\ buf' = <<>>
      BY <2>1 DEF BoardInv
    <2>3. Shown = work /\ Shown' = work
      BY <2>1, <2>2, ShownBare, ShownBareNext
    <2>4. BoardInv'
      BY <1>1, <2>1, <2>2, <2>3 DEF BoardInv
    <2>5. Board!Commit
      BY <1>1, <2>1, <2>3 DEF Board!Commit, Board!Between
    <2>6. QED  BY <2>4, <2>5 DEF Board!BoardNext
  <1>4. CASE Abort
    <2>1. work' = kept /\ kept' = kept /\ buf' = <<>> /\ finger' = <<>> /\ told' = "fine"
      BY <1>4 DEF Abort, RolledBack
    <2>2. Shown' = kept
      BY <2>1, ShownBareNext
    <2>3. BoardInv'
      BY <1>1, <2>1 DEF BoardInv
    <2>4. Board!Abort
      BY <1>1, <2>1, <2>2 DEF Board!Abort, Board!Between
    <2>5. QED  BY <2>3, <2>4 DEF Board!BoardNext
  <1>5. QED  BY <1>2, <1>3, <1>4

LEMMA StepBoard ==
  LifecycleInv /\ BoardInv /\ [Next]_vars => BoardInv' /\ [Board!BoardNext]_Board!boardVars
  <1> SUFFICES ASSUME LifecycleInv, BoardInv, [Next]_vars
               PROVE  BoardInv' /\ [Board!BoardNext]_Board!boardVars
    OBVIOUS
  <1>1. CASE UNCHANGED vars
    <2>1. /\ kind' = kind /\ kept' = kept /\ work' = work /\ open' = open /\ buf' = buf
          /\ finger' = finger /\ told' = told /\ taken' = taken /\ last' = last
      BY <1>1 DEF vars
    <2>2. Shown' = Shown
      BY <2>1 DEF Shown
    <2>3. BoardInv'
      BY <2>1, <2>2 DEF BoardInv, Importing
    <2>4. UNCHANGED Board!boardVars
      BY <2>1, <2>2 DEF Board!boardVars
    <2>5. QED  BY <2>3, <2>4
  <1>2. CASE \E p \in Records[kind.type] :
                \/ ListRefused(p) \/ ListRows(p) \/ ListSnapshot(p) \/ ListBreaks(p)
                \/ RowsRefused(p) \/ RowsWritten(p) \/ RowsBreak(p)
                \/ ImportRefused(p) \/ ImportErase(p) \/ ImportSnapshot(p) \/ ImportSplit(p)
                \/ ImportRepeated(p) \/ ImportRow(p) \/ ImportBreaks(p)
    BY <1>2, ListBoard, RowsBoard, ImportBoard
  <1>3. CASE \E q \in Batches[kind.type] :
                RefuseBatch(q) \/ ApplyInOrder(q) \/ ApplyGrouped(q) \/ BatchBreaks(q)
    BY <1>3, BatchBoard
  <1>4. QED  BY <1>1, <1>2, <1>3, ImportEndsBoard, CallerBoard DEF Next

\* Whatever way records take - row by row, as snapshots, in batches, or
\* through the buffers of an import - what is stored is what they mean in the
\* order they came, for any records and batches: import_records,
\* process_record, process_parsed_record and process_parsed_records_batch
\* implement the one board.
THEOREM LifecycleRefinesBoard == Spec => BoardKept
  <1>1. Init => BoardInv /\ Board!BoardInit
    BY InitBoard
  <1>2. LifecycleInv /\ BoardInv /\ [Next]_vars => BoardInv' /\ [Board!BoardNext]_Board!boardVars
    BY StepBoard
  <1>3. QED  BY <1>1, <1>2, LifecycleInvariant, PTL DEF Spec, BoardKept, Board!BoardSpec

=============================================================================
