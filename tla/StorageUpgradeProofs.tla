------------------------ MODULE StorageUpgradeProofs ------------------------
(***************************************************************************)
(* Proofs about StorageUpgrade, for any tables, databases (one or two, of  *)
(* any drivers), commands and faults: no row is written to a table that    *)
(* would harm it, because the writer verified the table, and neither an    *)
(* upgrade nor a rollback makes a sound table unsound; what the caller of  *)
(* an import wrote before it stays in the caller's transaction; and an     *)
(* importer that remembers its tables are ready finds them so after any    *)
(* rollback or lost connection.                                            *)
(***************************************************************************)
EXTENDS StorageUpgrade, SequenceTheorems, TLAPS

(***************************************************************************)
(* The contracts: what a verification admits harms no row.                 *)
(***************************************************************************)
Harms == {"key", "unique", "keyType", "nullKey", "old", "orphan"}

\* A compatible type keeps every value of the declared one, or refuses it.
LEMMA CompatibleKeeps ==
  ASSUME NEW t \in TableStates, NEW driver,
         Compatible(t.type, t.want) \/ (t.fixed /\ FixedWidthHolds(t.type, t.want.n))
  PROVE  ValueIn(driver, t) # "harmed"
  <1> DEFINE w == t.want  a == t.type
  <1>1. w \in Types /\ a \in Types /\ (t.fixed => w.kind \in {"text", "varchar", "char"})
    BY DEF TableStates
  <1>2. w.n \in Nat /\ w.s \in Nat /\ a.n \in Nat /\ a.s \in Nat
    BY <1>1 DEF Types
  <1>3. IsIntegral(w) <=> w.kind \in {"smallint", "integer", "bigint"}
    BY DEF IsIntegral, integral_rank
  <1>4. CASE w.kind \in {"text", "varchar", "char"}
    <2>1. \/ a.kind = "text"
          \/ a.kind = "varchar"
          \/ a.kind = "char" /\ (t.fixed \/ w.kind = "char") /\ a.n = w.n
      BY <1>3, <1>4 DEF Compatible, FixedWidthHolds
    <2>2. QED  BY <1>4, <2>1 DEF ValueIn, Bounded
  <1>5. CASE w.kind \notin {"text", "varchar", "char"} /\ IsIntegral(w)
    <2>1. Compatible(a, w)
      BY <1>1, <1>5
    <2>2. IsIntegral(a)
      BY <1>3, <1>5, <2>1 DEF Compatible
    <2>3. QED  BY <1>5, <2>2, Zenon DEF ValueIn
  <1>6. CASE w.kind = "numeric"
    <2>1. a.kind = "numeric" /\ ~(a.s < w.s)
      BY <1>1, <1>2, <1>3, <1>6 DEF Compatible
    <2>2. QED  BY <1>2, <1>3, <1>6, <2>1 DEF ValueIn
  <1>7. CASE w.kind \notin {"text", "varchar", "char", "numeric"} /\ ~IsIntegral(w)
    <2>1. a = w
      BY <1>1, <1>7 DEF Compatible
    <2>2. QED  BY <1>7, <2>1 DEF ValueIn
  <1>8. QED  BY <1>4, <1>5, <1>6, <1>7

\* The verification of each record type.
LEMMA VerificationOf ==
  ASSUME NEW t
  PROVE  /\ t.kind = "SE" => verify_storage(t, FALSE) = se_storage(t, FALSE)
         /\ t.kind = "WE" => verify_storage(t, FALSE) = we_storage(t, FALSE)
         /\ t.kind = "AV" => verify_storage(t, FALSE) = av_storage(t, FALSE)
         /\ t.kind = "HR" => verify_storage(t, FALSE) = hr_storage(t, FALSE)
         /\ t.kind = "HS" => verify_storage(t, FALSE) = hs_storage(t, FALSE)
         /\ t.kind = "HC" => verify_storage(t, FALSE) = hc_storage(t, FALSE)
         /\ t.kind = "HN" => verify_storage(t, FALSE) = hn_storage(t, FALSE)
         /\ t.kind = "SK" => verify_storage(t, FALSE) = sk_storage(t, FALSE)
         /\ t.kind = "UM" => verify_storage(t, FALSE) = um_storage(t, FALSE)
         /\ t.kind = "H1" => verify_storage(t, FALSE) = h1_storage(t, FALSE)
         /\ t.kind = "H6" => verify_storage(t, FALSE) = h6_storage(t, FALSE)
         /\ t.kind = "O1" => verify_storage(t, FALSE) = odds_storage(t, FALSE)
         /\ t.kind = "TC" => verify_storage(t, FALSE) = tc_storage(t, FALSE)
         /\ t.kind = "CC" => verify_storage(t, FALSE) = cc_storage(t, FALSE)
         /\ t.kind = "JC" => verify_storage(t, FALSE) = jc_storage(t, FALSE)
         /\ t.kind = "CK" => verify_storage(t, FALSE) = ck_storage(t, FALSE)
         /\ t.kind = "BT" => verify_storage(t, FALSE) = bt_storage(t, FALSE)
         /\ t.kind = "CS" => verify_storage(t, FALSE) = cs_storage(t, FALSE)
         /\ t.kind = "JG" => verify_storage(t, FALSE) = jg_storage(t, FALSE)
         /\ t.kind = "WC" => verify_storage(t, FALSE) = wc_storage(t, FALSE)
         /\ t.kind = "RC" => verify_storage(t, FALSE) = rc_storage(t, FALSE)
         /\ t.kind = "HY" => verify_storage(t, FALSE) = hy_storage(t, FALSE)
         /\ t.kind = "YS" => verify_storage(t, FALSE) = ys_storage(t, FALSE)
         /\ t.kind = "WF" => verify_storage(t, FALSE) = wf_storage(t, FALSE)
  BY Zenon DEF verify_storage

\* What a strict one admits has no flaw that harms, and keeps every value.
LEMMA StrictVerified ==
  ASSUME NEW t \in TableStates, verify_storage(t, FALSE),
         t.kind \in STRICT_STORAGE \cup STRICT_RECREATE
  PROVE  /\ ~Has(t, Harms)
         /\ Compatible(t.type, t.want) \/ (t.fixed /\ FixedWidthHolds(t.type, t.want.n))
  <1> DEFINE Typed == Compatible(t.type, t.want) \/ (t.fixed /\ FixedWidthHolds(t.type, t.want.n))
             Free(S) == t.flaws \cap S = {}
  <1>1. /\ t.kind # "CK" => Free({"orphan"})
        /\ t.kind # "HS" => Free({"old"})
    BY DEF TableStates, STRICT_STORAGE, STRICT_RECREATE
  <1>2. /\ FixedColumns(t, FALSE) => Free({"keyType", "nullKey"}) /\ Typed
        /\ Columns(t, FALSE) => Free({"keyType", "nullKey"}) /\ Typed
        /\ verify_table_schema(t, FALSE, FALSE) => Free({"key"})
        /\ ReplacementKey(t) => Free({"unique"})
    BY DEF FixedColumns, Columns, verify_table_schema, ReplacementKey, Has
  <1>3. CASE t.kind \in {"SE", "WE", "AV", "HR", "JC"}
    BY <1>1, <1>2, <1>3, VerificationOf
       DEF se_storage, we_storage, av_storage, hr_storage, jc_storage, Has, Harms
  <1>4. CASE t.kind \in {"HC", "HN", "SK", "TC", "CC", "UM"}
    BY <1>1, <1>2, <1>4, VerificationOf
       DEF hc_storage, hn_storage, sk_storage, tc_storage, cc_storage, um_storage, ExactTable,
           Has, Harms
  <1>5. CASE t.kind \in {"H1", "H6", "O1"}
    BY <1>1, <1>2, <1>5, VerificationOf
       DEF h1_storage, h6_storage, odds_storage, SnapshotTable, Has, Harms
  <1>6. CASE t.kind = "HS"
    BY <1>1, <1>2, <1>6, VerificationOf DEF hs_storage, hs_layout, Has, Harms
  <1>7. CASE t.kind = "CK"
    BY <1>1, <1>2, <1>7, VerificationOf DEF ck_storage, Compatible, Has, Harms
  <1>8. QED  BY <1>3, <1>4, <1>5, <1>6, <1>7 DEF STRICT_STORAGE, STRICT_RECREATE

\* A verified table harms no row, or is of a type whose verification lets it.
LEMMA VerifiedIsSound ==
  ASSUME NEW t \in TableStates, NEW driver, verify_storage(t, FALSE)
  PROVE  Sound(driver, t)
  <1>1. CASE t.kind \in STRICT_STORAGE \cup STRICT_RECREATE
    <2>1. ~Has(t, Harms) /\ ValueIn(driver, t) # "harmed"
      BY <1>1, StrictVerified, CompatibleKeeps
    <2>2. QED  BY <2>1 DEF Sound, Harmless, Harms
  <1>2. CASE t.kind \notin STRICT_STORAGE \cup STRICT_RECREATE
    <2>1. t.kind \in {"RA", "BT", "CS", "JG", "WC", "RC", "HY", "YS", "WF"}
      BY <1>2 DEF TableStates, RecordKinds, STRICT_STORAGE, STRICT_RECREATE
    <2>2. t.kind # "RA" => verify_table_schema(t, FALSE, FALSE)
      BY <2>1, VerificationOf DEF bt_storage, cs_storage, jg_storage, wc_storage, rc_storage,
           hy_storage, ys_storage, wf_storage
    <2>3. t.kind \in {"CS", "JG", "WC", "RC", "WF"} => ReplacementKey(t)
      BY VerificationOf DEF cs_storage, jg_storage, wc_storage, rc_storage, wf_storage
    <2>4. MayHarm(t)
      BY <1>2, <2>1, <2>2, <2>3 DEF MayHarm, verify_table_schema, ReplacementKey, Has
    <2>5. QED  BY <2>4 DEF Sound
  <1>3. QED  BY <1>1, <1>2

\* So a row it harms was let through.
LEMMA SoundRow ==
  ASSUME NEW driver, NEW t, Sound(driver, t)
  PROVE  /\ RowIn(driver, t) = "harmed" => MayHarm(t)
         /\ RowIn(driver, t) \in {"kept", "refused", "harmed"}
  <1>1. ValueIn(driver, t) \in {"kept", "refused", "harmed"}
    BY Zenon DEF ValueIn
  <1>2. QED  BY <1>1 DEF RowIn, Sound, Harmless, Has

-----------------------------------------------------------------------------
(***************************************************************************)
(* The rows: a statement leaves sound tables sound.                        *)
(***************************************************************************)
Rows == [cat : [Tables -> TableStates],
         row : [Tables -> {"none", "kept", "refused", "harmed"}], own : BOOLEAN]

\* The tables V of the rows R are sound.
SoundIn(driver, V, R) == \A t \in V \cap Tables : Sound(driver, R.cat[t])

\* What a statement may make of a table.
Upgrades(a, b) ==
    \/ b = a
    \/ ~a.there /\ b = Created(a)
    \/ \E c \in Addable : b = [a EXCEPT !.flaws = @ \ {c}]
    \/ b = [a EXCEPT !.rows = TRUE]

\* It stays a table that is as sound, and as likely to harm a row, as it was.
LEMMA UpgradedIs ==
  ASSUME NEW a \in TableStates, NEW b, Upgrades(a, b), NEW driver
  PROVE  /\ b \in TableStates
         /\ a.there => Alike(a, b)
         /\ MayHarm(a) => MayHarm(b)
         /\ Sound(driver, a) => Sound(driver, b)
  <1>1. CASE b = a
    BY <1>1 DEF Alike
  <1>2. CASE ~a.there /\ b = Created(a)
    <2>1. /\ b.kind = a.kind /\ b.there = TRUE /\ b.rows = a.rows /\ b.want = a.want
          /\ b.fixed = a.fixed /\ b.type = a.want /\ b.flaws = {} /\ a.want \in Types
          /\ b \in [kind : RecordKinds, there : BOOLEAN, rows : BOOLEAN, want : Types,
                    fixed : BOOLEAN, type : Types, flaws : SUBSET Flaws]
      BY <1>2, Zenon DEF Created, TableStates
    <2>2. b \in TableStates
      BY <2>1 DEF TableStates
    <2>3. MayHarm(a) => MayHarm(b)
      BY <2>1 DEF MayHarm, Has
    <2>4. ValueIn(driver, b) # "harmed"
      BY <2>1, <2>2, CompatibleKeeps DEF Compatible
    <2>5. Sound(driver, b)
      BY <2>1, <2>4 DEF Sound, Harmless, Has
    <2>6. QED  BY <1>2, <2>2, <2>3, <2>5
  <1> DEFINE TableShapes == [kind : RecordKinds, there : BOOLEAN, rows : BOOLEAN, want : Types,
                             fixed : BOOLEAN, type : Types, flaws : SUBSET Flaws]
             Still == /\ b \in TableShapes /\ b.there = a.there /\ b.kind = a.kind
                      /\ b.want = a.want /\ b.type = a.type /\ b.fixed = a.fixed
                      /\ b.flaws \subseteq a.flaws /\ b.flaws \cup Addable = a.flaws \cup Addable
  <1>3. a \in TableShapes /\ a.flaws \in SUBSET Flaws
    BY DEF TableStates
  <1>4. ASSUME NEW c \in Addable, b = [a EXCEPT !.flaws = @ \ {c}]
        PROVE  Still
    <2> DEFINE f == a.flaws \ {c}
    <2>1. f \in SUBSET Flaws /\ f \subseteq a.flaws /\ f \cup Addable = a.flaws \cup Addable
      BY <1>3
    <2>2. b = [a EXCEPT !.flaws = f]
      BY <1>4
    <2> HIDE DEF f
    <2>3. /\ b \in TableShapes /\ b.there = a.there /\ b.kind = a.kind
          /\ b.want = a.want /\ b.type = a.type /\ b.fixed = a.fixed /\ b.flaws = f
      BY <1>3, <2>1, <2>2, Zenon
    <2>4. QED  BY <2>1, <2>3
  <1>5. ASSUME b = [a EXCEPT !.rows = TRUE]
        PROVE  Still
    <2>1. /\ b \in TableShapes /\ b.there = a.there /\ b.kind = a.kind
          /\ b.want = a.want /\ b.type = a.type /\ b.fixed = a.fixed /\ b.flaws = a.flaws
      BY <1>3, <1>5, Zenon
    <2>2. QED  BY <2>1
  <1>6. Still => /\ b \in TableStates /\ (a.there => Alike(a, b)) /\ (MayHarm(a) => MayHarm(b))
                 /\ (Sound(driver, a) => Sound(driver, b))
    <2> SUFFICES ASSUME Still
                 PROVE  /\ b \in TableStates /\ (a.there => Alike(a, b)) /\ (MayHarm(a) => MayHarm(b))
                        /\ (Sound(driver, a) => Sound(driver, b))
      OBVIOUS
    <2> HIDE DEF TableShapes
    <2>1. b \in TableStates
      BY DEF TableStates, TableShapes
    <2>2. a.there => Alike(a, b)
      BY <1>3 DEF Alike, TableShapes
    <2>3. MayHarm(a) => MayHarm(b)
      BY DEF MayHarm, Has
    <2>4. ValueIn(driver, b) = ValueIn(driver, a)
      BY DEF ValueIn
    <2>5. Harmless(driver, a) => Harmless(driver, b)
      BY <2>4 DEF Harmless, Has
    <2>6. QED  BY <2>1, <2>2, <2>3, <2>5 DEF Sound
  <1>7. QED  BY <1>1, <1>2, <1>4, <1>5, <1>6, Zenon DEF Upgrades

\* A table that has grown is not sounder than it was.
LEMMA GrownIsSound ==
  ASSUME NEW a \in TableStates, NEW b \in TableStates, a.there => Alike(a, b), NEW driver,
         Sound(driver, b)
  PROVE  Sound(driver, a)
  <1> SUFFICES ASSUME a.there PROVE MayHarm(a) \/ Harmless(driver, a)
    BY DEF Sound
  <1>1. /\ b.there /\ b.kind = a.kind /\ b.want = a.want /\ b.type = a.type /\ b.fixed = a.fixed
        /\ b.flaws \cup Addable = a.flaws \cup Addable
    BY DEF Alike
  <1>2. \A S \in SUBSET Harms : Has(a, S) <=> Has(b, S)
    BY <1>1 DEF Has, Harms, Addable
  <1>3. MayHarm(b) => MayHarm(a)
    BY <1>1, <1>2 DEF MayHarm, Harms
  <1>4. ValueIn(driver, a) = ValueIn(driver, b)
    BY <1>1 DEF ValueIn
  <1>5. Harmless(driver, b) => Harmless(driver, a)
    BY <1>2, <1>4 DEF Harmless, Harms
  <1>6. QED  BY <1>1, <1>3, <1>5 DEF Sound

\* Growing on.
LEMMA GrowsOn ==
  ASSUME NEW R, NEW S, NEW T, Grown(R, S), Grown(S, T)
  PROVE  Grown(R, T)
  BY DEF Grown, Alike

\* Statements that add only columns that may be missing, and write only rows of
\* the tables V.
Fits(s, V) == /\ s.do = "add" => s.column \in Addable
              /\ s.do = "row" => s.table \in V

\* A statement keeps the fields of the rows.
LEMMA PutShape ==
  ASSUME NEW driver, NEW R \in Rows, NEW s, NEW N, N = Put(driver, R, s)
  PROVE  N = [cat |-> N.cat, row |-> N.row, own |-> N.own]
  <1> DEFINE Shape == [cat : {N.cat}, row : {N.row}, own : {N.own}]
  <1>1. CASE N = R
    <2>1. N \in Shape
      BY <1>1, Zenon DEF Rows
    <2>2. QED  BY <2>1
  <1>3. CASE s.do = "create" /\ N # R
    <2>1. N = [R EXCEPT !.cat = [R.cat EXCEPT ![s.table] = Created(R.cat[s.table])]]
      BY <1>3, Zenon DEF Put
    <2>2. N \in Shape
      BY <2>1, Zenon DEF Rows
    <2>3. QED  BY <2>2
  <1>4. CASE s.do = "add"
    <2>1. N = [R EXCEPT !.cat = [R.cat EXCEPT ![s.table] =
                                   [R.cat[s.table] EXCEPT !.flaws = @ \ {s.column}]]]
      BY <1>4, Zenon DEF Put
    <2>2. N \in Shape
      BY <2>1, Zenon DEF Rows
    <2>3. QED  BY <2>2
  <1>5. CASE s.do = "row"
    <2>1. N = [R EXCEPT !.row = [R.row EXCEPT ![s.table] = RowIn(driver, R.cat[s.table])],
                        !.cat = [R.cat EXCEPT ![s.table] = [R.cat[s.table] EXCEPT !.rows = TRUE]]]
      BY <1>5, Zenon DEF Put
    <2>2. N \in Shape
      BY <2>1, Zenon DEF Rows
    <2>3. QED  BY <2>2
  <1>6. CASE s.do = "own"
    <2>1. N \in Shape
      BY <1>6, Zenon DEF Put, Rows
    <2>2. QED  BY <2>1
  <1>7. CASE s.do \notin {"create", "add", "row", "own"}
    <2>1. N = R
      BY <1>7, Zenon DEF Put
    <2>2. QED  BY <1>1, <2>1
  <1>8. QED  BY <1>1, <1>3, <1>4, <1>5, <1>6, <1>7

OnTables(f) == f = [t \in Tables |-> f[t]]
Becomes(driver, V, R, N) ==
    /\ OnTables(N.cat) /\ N.own \in BOOLEAN
    /\ \A t \in Tables : Upgrades(R.cat[t], N.cat[t])
    /\ OnTables(N.row)
    /\ \A t \in Tables : N.row[t] = R.row[t] \/ (t \in V /\ N.row[t] = RowIn(driver, R.cat[t]))

\* What a statement makes of the rows, table by table.
LEMMA PutUpgrades ==
  ASSUME NEW driver, NEW V, NEW R \in Rows, NEW s, Fits(s, V),
         NEW N, N = Put(driver, R, s)
  PROVE  Becomes(driver, V, R, N)
  <1> USE DEF Becomes
  <1>1. R.cat \in [Tables -> TableStates] /\ R.own \in BOOLEAN
        /\ R.row \in [Tables -> {"none", "kept", "refused", "harmed"}]
    BY DEF Rows
  <1>2. CASE s.do = "create"
    <2>1. CASE R.cat[s.table].there
      BY <1>1, <1>2, <2>1 DEF Put, Upgrades, OnTables
    <2>2. CASE ~R.cat[s.table].there
      <3>1. N = [R EXCEPT !.cat = [R.cat EXCEPT ![s.table] = Created(R.cat[s.table])]]
        BY <1>2, <2>2, Zenon DEF Put
      <3>2. N.cat = [R.cat EXCEPT ![s.table] = Created(R.cat[s.table])] /\ N.row = R.row /\ N.own = R.own
        BY <3>1, Zenon DEF Rows
      <3>3. QED  BY <1>1, <2>2, <3>2 DEF Upgrades, OnTables
    <2>3. QED  BY <2>1, <2>2
  <1>3. CASE s.do = "add"
    <2> DEFINE c == [R.cat[s.table] EXCEPT !.flaws = @ \ {s.column}]
    <2>1. N = [R EXCEPT !.cat = [R.cat EXCEPT ![s.table] = c]]
      BY <1>3, Zenon DEF Put
    <2>2. N.cat = [R.cat EXCEPT ![s.table] = c] /\ N.row = R.row /\ N.own = R.own
      BY <2>1, Zenon DEF Rows
    <2>3. Upgrades(R.cat[s.table], c)
      BY <1>3, Zenon DEF Upgrades, Fits
    <2> HIDE DEF c
    <2>4. \A t \in Tables : R.cat[t] = N.cat[t] \/ (t = s.table /\ N.cat[t] = c)
      BY <1>1, <2>2
    <2>5. \A a : Upgrades(a, a)
      BY Zenon DEF Upgrades
    <2>6. QED  BY <1>1, <2>2, <2>3, <2>4, <2>5 DEF OnTables
  <1>4. CASE s.do = "row"
    <2> DEFINE c == [R.cat[s.table] EXCEPT !.rows = TRUE]
               r == RowIn(driver, R.cat[s.table])
    <2>1. N = [R EXCEPT !.row = [R.row EXCEPT ![s.table] = r],
                        !.cat = [R.cat EXCEPT ![s.table] = c]]
      BY <1>4, Zenon DEF Put
    <2>2. /\ N.cat = [R.cat EXCEPT ![s.table] = c]
          /\ N.row = [R.row EXCEPT ![s.table] = r] /\ N.own = R.own
      BY <2>1, Zenon DEF Rows
    <2>3. Upgrades(R.cat[s.table], c) /\ s.table \in V
      BY <1>4, Zenon DEF Upgrades, Fits
    <2>4. r = RowIn(driver, R.cat[s.table])
      OBVIOUS
    <2> HIDE DEF c, r
    <2>5. \A t \in Tables : \/ R.cat[t] = N.cat[t] /\ R.row[t] = N.row[t]
                            \/ t = s.table /\ N.cat[t] = c /\ N.row[t] = r
      BY <1>1, <2>2
    <2>6. \A t \in Tables : Upgrades(R.cat[t], N.cat[t])
      BY <2>3, <2>5 DEF Upgrades
    <2>7. QED  BY <1>1, <2>2, <2>3, <2>4, <2>5, <2>6 DEF OnTables
  <1>5. CASE s.do \notin {"create", "add", "row"}
    <2>1. N.cat = R.cat /\ N.row = R.row /\ N.own \in BOOLEAN
      <3>1. CASE s.do = "own"
        BY <3>1, Zenon DEF Put, Rows
      <3>2. CASE s.do # "own"
        <4>1. N = R
          BY <1>5, <3>2, Zenon DEF Put
        <4>2. QED  BY <1>1, <4>1
      <3>3. QED  BY <3>1, <3>2
    <2>2. QED  BY <1>1, <2>1 DEF Upgrades, OnTables
  <1>6. QED  BY <1>2, <1>3, <1>4, <1>5

\* Rows that a statement leaves: no row harmed that might not be, and the
\* verified tables as sound as they were.
LEMMA PutIs ==
  ASSUME NEW driver, NEW V, NEW R \in Rows, NEW s, Fits(s, V),
         RowsSafe(R), SoundIn(driver, V, R),
         NEW N, N = Put(driver, R, s)
  PROVE  N \in Rows /\ RowsSafe(N) /\ SoundIn(driver, V, N) /\ Grown(R, N)
  <1>1. Becomes(driver, V, R, N)
    BY PutUpgrades
  <1>2. N = [cat |-> N.cat, row |-> N.row, own |-> N.own]
    BY PutShape
  <1>3. \A t \in Tables : R.cat[t] \in TableStates /\ R.row[t] \in {"none", "kept", "refused", "harmed"}
    BY DEF Rows
  <1>4. \A t \in Tables : /\ N.cat[t] \in TableStates
                          /\ R.cat[t].there => Alike(R.cat[t], N.cat[t])
                          /\ MayHarm(R.cat[t]) => MayHarm(N.cat[t])
                          /\ Sound(driver, R.cat[t]) => Sound(driver, N.cat[t])
    BY <1>1, <1>3, UpgradedIs DEF Becomes
  <1>5. \A t \in Tables : /\ N.row[t] \in {"none", "kept", "refused", "harmed"}
                          /\ N.row[t] = "harmed" => MayHarm(R.cat[t])
    BY <1>1, <1>3, SoundRow DEF Becomes, RowsSafe, SoundIn
  <1>6. N \in Rows
    BY <1>1, <1>2, <1>4, <1>5 DEF Becomes, Rows, OnTables
  <1>7. QED  BY <1>4, <1>5, <1>6 DEF RowsSafe, SoundIn, Grown

\* Only its own statement writes the caller's row.
LEMMA PutOwn ==
  ASSUME NEW driver, NEW R \in Rows, NEW s
  PROVE  Put(driver, R, s).own <=> (R.own \/ s.do = "own")
  <1> DEFINE N == Put(driver, R, s)
  <1>1. R.own \in BOOLEAN
    BY DEF Rows
  <1>2. CASE s.do = "create"
    <2>1. CASE R.cat[s.table].there
      BY <1>2, <2>1 DEF Put
    <2>2. CASE ~R.cat[s.table].there
      <3>1. N = [R EXCEPT !.cat = [R.cat EXCEPT ![s.table] = Created(R.cat[s.table])]]
        BY <1>2, <2>2, Zenon DEF Put
      <3>2. N.own = R.own
        BY <3>1, Zenon DEF Rows
      <3>3. QED  BY <1>2, <3>2
    <2>3. QED  BY <2>1, <2>2
  <1>3. CASE s.do = "add"
    <2>1. N = [R EXCEPT !.cat = [R.cat EXCEPT ![s.table] =
                                   [R.cat[s.table] EXCEPT !.flaws = @ \ {s.column}]]]
      BY <1>3, Zenon DEF Put
    <2>2. N.own = R.own
      BY <2>1, Zenon DEF Rows
    <2>3. QED  BY <1>3, <2>2
  <1>4. CASE s.do = "row"
    <2>1. N = [R EXCEPT !.row = [R.row EXCEPT ![s.table] = RowIn(driver, R.cat[s.table])],
                        !.cat = [R.cat EXCEPT ![s.table] = [R.cat[s.table] EXCEPT !.rows = TRUE]]]
      BY <1>4, Zenon DEF Put
    <2>2. N.own = R.own
      BY <2>1, Zenon DEF Rows
    <2>3. QED  BY <1>4, <2>2
  <1>5. CASE s.do = "own"
    <2>1. N = [R EXCEPT !.own = TRUE]
      BY <1>5, Zenon DEF Put
    <2>2. N.own = TRUE
      BY <2>1, Zenon DEF Rows
    <2>3. QED  BY <1>5, <2>2
  <1>6. CASE s.do \notin {"create", "add", "row", "own"}
    <2>1. N = R
      BY <1>6, Zenon DEF Put
    <2>2. QED  BY <1>1, <1>6, <2>1
  <1>7. QED  BY <1>2, <1>3, <1>4, <1>5, <1>6

-----------------------------------------------------------------------------
(***************************************************************************)
(* Sessions: every call leaves the verified tables sound, whatever it      *)
(* undoes, commits or loses.                                               *)
(***************************************************************************)
SessionShapes ==
    [driver : Drivers, store : Rows, seen : Rows, open : BOOLEAN, active : BOOLEAN,
     dirty : BOOLEAN, failed : BOOLEAN, broken : BOOLEAN, lost : BOOLEAN]

\* Sessions under which the tables V were verified, and outcomes of their calls.
SafeSessions(V) == {b \in SessionShapes : SafeSession(b, V)}
Outcomes(V) == [db : SafeSessions(V), ok : BOOLEAN, faults : Nat]

\* The session c has rows that the session b had, and is not newly open.
Derived(b, c) ==
    /\ c \in SessionShapes /\ c.driver = b.driver /\ (c.open => b.open)
    /\ \/ /\ c.store = b.store /\ c.seen = b.seen
          /\ (b.dirty => c.dirty) /\ (b.active => c.active)
       \/ c.store = b.store /\ c.seen = b.store
       \/ c.store = b.seen /\ c.seen = b.seen

\* Nothing comes back with a rollback that was not sound when it was verified.
LEMMA DerivedIsSafe ==
  ASSUME NEW V, NEW b \in SafeSessions(V), NEW c, Derived(b, c)
  PROVE  c \in SafeSessions(V)
  <1>1. b \in SessionShapes /\ SafeSession(b, V) /\ c \in SessionShapes
    BY DEF SafeSessions, Derived
  <1>2. \A t \in Tables : b.store.cat[t] \in TableStates /\ b.seen.cat[t] \in TableStates
    BY <1>1 DEF SessionShapes, Rows
  <1>3. \A t \in Tables : Sound(b.driver, b.seen.cat[t]) => Sound(b.driver, b.store.cat[t])
    BY <1>1, <1>2, GrownIsSound DEF SafeSession, Grown
  <1>4. Grown(b.store, b.store) /\ Grown(b.seen, b.seen)
    BY DEF Grown, Alike
  <1>5. OwnSound(c)
    BY <1>1 DEF SafeSession, Derived, OwnSound
  <1>7. SafeSession(c, V)
    BY <1>1, <1>3, <1>4, <1>5 DEF SafeSession, Derived
  <1>6. QED  BY <1>1, <1>7 DEF SafeSessions

\* The updates of a session that a call may make, read field by field.
LEMMA FreshIs ==
  ASSUME NEW b \in SessionShapes
  PROVE  Derived(b, Fresh(b)) /\ Fresh(b).open = b.open /\ Fresh(b).seen = b.store
  BY Zenon DEF SessionShapes, Derived, Fresh

\* A lost connection.
LEMMA GoneIs ==
  ASSUME NEW b \in SessionShapes
  PROVE  Derived(b, Gone(b)) /\ Gone(b).open = b.open
  BY Zenon DEF SessionShapes, Derived, Gone

\* A closed one.
LEMMA ClosedIs ==
  ASSUME NEW b \in SessionShapes
  PROVE  Derived(b, Closed(b)) /\ Closed(b).open = FALSE
  BY Zenon DEF SessionShapes, Derived, Closed, Fresh

\* One that was rebuilt.
LEMMA RebuiltIs ==
  ASSUME NEW b \in SessionShapes
  PROVE  LET c == [Fresh(b) EXCEPT !.broken = FALSE] IN Derived(b, c) /\ c.open = b.open
  BY Zenon DEF SessionShapes, Derived, Fresh

\* A transaction that was begun.
LEMMA BegunIs ==
  ASSUME NEW b \in SessionShapes
  PROVE  LET c == [b EXCEPT !.active = TRUE] IN Derived(b, c) /\ c.open = b.open
  BY Zenon DEF SessionShapes, Derived

\* One that a read began.
LEMMA ReadIs ==
  ASSUME NEW b \in SessionShapes, NEW x \in BOOLEAN, b.dirty => x
  PROVE  LET c == [b EXCEPT !.dirty = x] IN
         Derived(b, c) /\ c.open = b.open /\ c.seen = b.seen
  BY Zenon DEF SessionShapes, Derived

\* One that failed.
LEMMA FailedIs ==
  ASSUME NEW b \in SessionShapes, NEW x \in BOOLEAN
  PROVE  LET c == [b EXCEPT !.failed = x] IN Derived(b, c) /\ c.open = b.open
  BY Zenon DEF SessionShapes, Derived

\* What was seen made durable.
LEMMA SavedIs ==
  ASSUME NEW b \in SessionShapes
  PROVE  LET c == [b EXCEPT !.store = b.seen] IN Derived(b, c) /\ c.open = b.open
  BY Zenon DEF SessionShapes, Derived

\* The same, with the answer lost.
LEMMA LostIs ==
  ASSUME NEW b \in SessionShapes, NEW x \in BOOLEAN
  PROVE  LET c == [b EXCEPT !.store = b.seen, !.lost = x] IN Derived(b, c) /\ c.open = b.open
  BY Zenon DEF SessionShapes, Derived

\* A new connection, before anything was verified.
LEMMA Connects ==
  ASSUME NEW b \in SafeSessions({}), NEW o \in connect(b)
  PROVE  o \in Outcomes({})
  <1> DEFINE c == [Fresh(b) EXCEPT !.open = TRUE, !.broken = FALSE]
  <1>1. b \in SessionShapes /\ SafeSession(b, {})
    BY DEF SafeSessions
  <1>2. c \in SessionShapes /\ c.store = b.store /\ c.seen = b.store
    BY <1>1, Zenon DEF SessionShapes, Fresh
  <1>3. o = Ok(c, 0) \/ o = Err(b, 1)
    BY Zenon DEF connect
  <1> HIDE DEF c
  <1>4. c \in SafeSessions({})
    BY <1>1, <1>2 DEF SafeSession, SafeSessions, Grown, Alike, OwnSound
  <1>5. CASE o = Ok(c, 0)
    BY <1>4, <1>5 DEF Ok, Outcomes
  <1>6. CASE o = Err(b, 1)
    BY <1>6 DEF Err, Outcomes
  <1>7. QED  BY <1>3, <1>5, <1>6

\* Beginning a transaction.
LEMMA Begins ==
  ASSUME NEW V, NEW b \in SafeSessions(V), NEW o \in begin_transaction(b)
  PROVE  o \in Outcomes(V) /\ (o.ok /\ b.open => o.db.open)
  <1> DEFINE c == [b EXCEPT !.active = TRUE]
             g == Gone(b)
  <1>1. b \in SessionShapes
    BY DEF SafeSessions
  <1>2. Derived(b, c) /\ c.open = b.open
    BY <1>1, BegunIs
  <1>3. Derived(b, g) /\ g.open = b.open
    BY <1>1, GoneIs
  <1>4. o = Ok(c, 0) \/ o = Err(b, 0) \/ o = Err(g, 1) \/ o = Ok(b, 0)
    BY Zenon DEF begin_transaction
  <1> HIDE DEF c, g
  <1>5. c \in SafeSessions(V) /\ g \in SafeSessions(V)
    BY <1>2, <1>3, DerivedIsSafe
  <1>6. ASSUME NEW x \in {c, b}, o = Ok(x, 0)
        PROVE  o \in Outcomes(V) /\ (b.open => o.db.open)
    BY <1>2, <1>5, <1>6 DEF Ok, Outcomes
  <1>7. ASSUME NEW x \in {g, b}, NEW n \in Nat, o = Err(x, n)
        PROVE  o \in Outcomes(V) /\ ~o.ok
    BY <1>5, <1>7 DEF Err, Outcomes
  <1>8. QED  BY <1>4, <1>6, <1>7

\* A rollback.
LEMMA RollsBack ==
  ASSUME NEW V, NEW b \in SafeSessions(V), NEW o \in rollback(b)
  PROVE  o \in Outcomes(V) /\ (o.ok => o.db.open)
  <1> DEFINE f == Fresh(b)
             g == Gone(b)
             c == Closed(b)
             r == [Fresh(b) EXCEPT !.broken = FALSE]
  <1>1. b \in SessionShapes
    BY DEF SafeSessions
  <1>2. Derived(b, f) /\ f.open = b.open
    BY <1>1, FreshIs
  <1>3. Derived(b, g) /\ Derived(b, c)
    BY <1>1, GoneIs, ClosedIs
  <1>4. Derived(b, r) /\ r.open = b.open
    BY <1>1, RebuiltIs
  <1>5. \/ o = Ok(f, 0) /\ b.open
        \/ o = Ok(r, 0) /\ b.open
        \/ o = Ok(b, 0) /\ b.open
        \/ o = Err(g, 1) \/ o = Err(c, 1) \/ o = Err(b, 0) \/ o = Err(b, 1)
    <2>1. CASE ~IsServer(b)
      BY <2>1, Zenon DEF rollback, sqlite_rollback
    <2>2. CASE IsServer(b)
      BY <2>2, Zenon DEF rollback, postgresql_rollback, _reconnect
    <2>3. QED  BY <2>1, <2>2
  <1> HIDE DEF f, g, c, r
  <1>6. f \in SafeSessions(V) /\ g \in SafeSessions(V) /\ c \in SafeSessions(V)
        /\ r \in SafeSessions(V)
    BY <1>2, <1>3, <1>4, DerivedIsSafe
  <1>7. ASSUME NEW x \in {f, r, b}, o = Ok(x, 0), x.open
        PROVE  o \in Outcomes(V) /\ o.db.open
    BY <1>6, <1>7 DEF Ok, Outcomes
  <1>8. ASSUME NEW x \in {g, c, b}, NEW n \in Nat, o = Err(x, n)
        PROVE  o \in Outcomes(V) /\ ~o.ok
    BY <1>6, <1>8 DEF Err, Outcomes
  <1>9. QED  BY <1>2, <1>4, <1>5, <1>7, <1>8

\* Closing a connection.
LEMMA Disconnects ==
  ASSUME NEW V, NEW b \in SafeSessions(V), NEW o \in disconnect(b)
  PROVE  o \in Outcomes(V)
  <1> DEFINE c == Closed(b)
  <1>1. Derived(b, c)
    BY ClosedIs DEF SafeSessions
  <1>2. o = Ok(c, 0) \/ o = Err(b, 1)
    BY Zenon DEF disconnect
  <1> HIDE DEF c
  <1>4. c \in SafeSessions(V)
    BY <1>1, DerivedIsSafe
  <1>5. CASE o = Ok(c, 0)
    BY <1>4, <1>5 DEF Ok, Outcomes
  <1>6. CASE o = Err(b, 1)
    BY <1>6 DEF Err, Outcomes
  <1>7. QED  BY <1>2, <1>5, <1>6

\* A commit, answered or not.
LEMMA Commits ==
  ASSUME NEW V, NEW b \in SafeSessions(V), NEW o \in commit(b)
  PROVE  o \in Outcomes(V) /\ (o.ok => o.db.open)
  <1> DEFINE f == Fresh(b)
             g == Gone(b)
             c == [b EXCEPT !.store = b.seen]
             k == Fresh(c)
             l == b.lost \/ b.store # b.seen
             u == [b EXCEPT !.store = b.seen, !.lost = l]
             v == Gone(u)
  <1>1. b \in SessionShapes /\ l \in BOOLEAN
    BY DEF SafeSessions, SessionShapes
  <1>2. Derived(b, f) /\ f.open = b.open /\ Derived(b, g)
    BY <1>1, FreshIs, GoneIs
  <1>3. Derived(b, c) /\ c.open = b.open
    BY <1>1, SavedIs
  <1>4. Derived(c, k) /\ k.open = c.open
    BY <1>3, FreshIs DEF Derived
  <1>5. /\ Committed(b) = IF b.failed THEN f ELSE k
        /\ Unanswered(b) = {Err(g, 1), Err(v, 1)}
    BY Zenon DEF Committed, Unanswered
  <1> HIDE DEF l
  <1>6. Derived(b, u)
    BY <1>1, LostIs
  <1>7. Derived(u, v)
    BY <1>6, GoneIs DEF Derived
  <1> HIDE DEF f, g, c, k, u, v
  <1>8. /\ f \in SafeSessions(V) /\ g \in SafeSessions(V) /\ k \in SafeSessions(V)
        /\ v \in SafeSessions(V)
    BY <1>2, <1>3, <1>4, <1>6, <1>7, DerivedIsSafe
  <1>9. \/ o = Err(b, 0) \/ o = Err(b, 1) \/ o \in Unanswered(b)
        \/ o = Ok(Committed(b), 0) /\ b.open
        \/ o = Ok(b, 0) /\ b.open
    <2>1. CASE ~b.open \/ b.broken
      BY <2>1 DEF commit
    <2>2. CASE b.open /\ ~b.broken
      BY <2>2, Zenon DEF commit
    <2>3. QED  BY <2>1, <2>2
  <1>10. ASSUME NEW x \in {f, k, b}, o = Ok(x, 0), x.open
        PROVE  o \in Outcomes(V) /\ o.db.open
    BY <1>8, <1>10 DEF Ok, Outcomes
  <1>11. ASSUME NEW x \in {g, v, b}, NEW n \in Nat, o = Err(x, n)
        PROVE  o \in Outcomes(V) /\ ~o.ok
    BY <1>8, <1>11 DEF Err, Outcomes
  <1>12. QED  BY <1>2, <1>3, <1>4, <1>5, <1>9, <1>10, <1>11

\* A statement took effect.
LEMMA DoneIs ==
  ASSUME NEW V, NEW b \in SafeSessions(V), b.open, NEW s, Fits(s, V)
  PROVE  Done(b, s) \in SafeSessions(V) /\ Done(b, s).open
  <1> DEFINE N == Put(b.driver, b.seen, s)
             x == [b EXCEPT !.seen = N, !.store = N]
             y == [b EXCEPT !.seen = N, !.dirty = TRUE]
  <1>1. b \in SessionShapes /\ SafeSession(b, V)
    BY DEF SafeSessions
  <1>2. N \in Rows /\ RowsSafe(N) /\ SoundIn(b.driver, V, N) /\ Grown(b.seen, N)
    BY <1>1, PutIs DEF SessionShapes, SafeSession, SoundIn
  <1>3. \/ Done(b, s) = x
        \/ Done(b, s) = y /\ (b.driver = "pg8000" => b.active)
    BY Zenon DEF Done
  <1>10. N.own <=> (b.seen.own \/ s.do = "own")
    BY <1>1, PutOwn DEF SessionShapes
  <1> HIDE DEF N
  <1>4. x \in SessionShapes /\ x.driver = b.driver /\ x.open = b.open /\ x.seen = N /\ x.store = N
    BY <1>1, <1>2, Zenon DEF SessionShapes
  <1>5. /\ y \in SessionShapes /\ y.driver = b.driver /\ y.open = b.open /\ y.seen = N
        /\ y.store = b.store /\ y.dirty = TRUE /\ y.active = b.active
    BY <1>1, <1>2, Zenon DEF SessionShapes
  <1> HIDE DEF x, y
  <1>6. Grown(N, N) /\ Grown(b.store, N)
    BY <1>1, <1>2, GrowsOn DEF SafeSession, Grown, Alike
  <1>7. x \in SafeSessions(V)
    BY <1>2, <1>4, <1>6 DEF SafeSessions, SafeSession, SoundIn, OwnSound
  <1>11. (b.driver = "pg8000" => b.active) => OwnSound(y)
    BY <1>1, <1>5, <1>10 DEF SafeSession, OwnSound
  <1>8. (b.driver = "pg8000" => b.active) => y \in SafeSessions(V)
    BY <1>1, <1>2, <1>5, <1>6, <1>11 DEF SafeSessions, SafeSession, SoundIn
  <1>9. QED  BY <1>3, <1>4, <1>5, <1>7, <1>8

\* An error that was handled.
LEMMA HandledIs ==
  ASSUME NEW V, NEW p \in Outcomes(V), NEW n \in Nat, NEW o, o = Err(p.db, n + p.faults)
  PROVE  o \in Outcomes(V) /\ o.ok = FALSE
  <1>1. p.db \in SafeSessions(V) /\ p.faults \in Nat
    BY DEF Outcomes
  <1>2. QED  BY <1>1 DEF Err, Outcomes

\* An outcome whose faults were added up.
LEMMA SummedIs ==
  ASSUME NEW V, NEW p \in Outcomes(V), NEW n \in Nat, NEW o, o = [p EXCEPT !.faults = @ + n]
  PROVE  o \in Outcomes(V) /\ o.db = p.db /\ o.ok = p.ok
  <1> DEFINE m == p.faults + n
  <1>1. m \in Nat
    BY DEF Outcomes
  <1>2. o = [p EXCEPT !.faults = m]
    OBVIOUS
  <1> HIDE DEF m
  <1>3. QED  BY <1>1, <1>2, Zenon DEF Outcomes

\* What PostgreSQL's handler does after a statement failed on session x.
LEMMA UndoneIs ==
  ASSUME NEW V, NEW x \in SafeSessions(V), IsServer(x),
         NEW p \in (IF x.active THEN {Ok(x, 0)} ELSE postgresql_rollback(x))
  PROVE  p \in Outcomes(V)
  <1>1. CASE x.active
    <2>1. p = Ok(x, 0)
      BY <1>1
    <2>2. QED  BY <2>1 DEF Ok, Outcomes
  <1>2. CASE ~x.active
    <2>1. p \in rollback(x)
      BY <1>2, Zenon DEF rollback
    <2>2. QED  BY <2>1, RollsBack
  <1>3. QED  BY <1>1, <1>2

\* What SQLite's does.
LEMMA LiteUndone ==
  ASSUME NEW V, NEW x \in SafeSessions(V), ~IsServer(x), NEW p \in sqlite_rollback(x)
  PROVE  p \in Outcomes(V)
  <1>1. p \in rollback(x)
    BY DEF rollback
  <1>2. QED  BY <1>1, RollsBack

\* The statements of the handlers, whatever they raise and roll back.
LEMMA Executes ==
  ASSUME NEW V, NEW b \in SafeSessions(V), NEW s, Fits(s, V), NEW o \in execute(b, s)
  PROVE  o \in Outcomes(V) /\ (o.ok => b.open /\ o.db.open)
  <1> DEFINE d == Done(b, s)
             Undo(x) == IF x.active THEN {Ok(x, 0)} ELSE postgresql_rollback(x)
             f == b.active \/ b.driver = "psycopg"
             r == [b EXCEPT !.failed = f]
             g == Gone(b)
             l == d.lost \/ d.store # b.store
             u == [d EXCEPT !.lost = l]
             v == Gone(u)
  <1>1. b.open => d \in SafeSessions(V) /\ d.open
    BY DoneIs
  <1>2. b \in SessionShapes /\ (b.open => d \in SessionShapes)
    BY <1>1 DEF SafeSessions
  <1>3. f \in BOOLEAN /\ (b.open => l \in BOOLEAN)
    BY <1>2 DEF SessionShapes
  <1> HIDE DEF d, f, l
  <1>4. Derived(b, r) /\ r.driver = b.driver
    BY <1>2, <1>3, FailedIs, Zenon DEF Derived
  <1>5. Derived(b, g) /\ g.driver = b.driver
    BY <1>2, GoneIs, Zenon DEF Derived
  <1>6. b.open => d.driver = b.driver
    BY Zenon DEF d, Done, SafeSessions, SessionShapes
  <1>7. b.open => Derived(d, u) /\ u \in SessionShapes
    BY <1>2, <1>3, Zenon DEF Derived, SessionShapes
  <1>8. b.open => Derived(u, v) /\ v.driver = b.driver
    BY <1>6, <1>7, GoneIs, Zenon DEF Derived
  <1> HIDE DEF r, g, u, v
  <1>9. /\ r \in SafeSessions(V) /\ g \in SafeSessions(V)
        /\ b.open => v \in SafeSessions(V)
    BY <1>1, <1>4, <1>5, <1>7, <1>8, DerivedIsSafe
  <1>10. CASE o = Ok(d, 0) /\ b.open
    BY <1>1, <1>10 DEF Ok, Outcomes
  <1>11. CASE o = Err(b, 0)
    BY <1>11 DEF Err, Outcomes
  <1>12. CASE b.driver = "sqlite"
    <2>1. execute(b, s) = sqlite_execute(b, s) /\ ~IsServer(b)
      BY <1>12 DEF execute, IsServer
    <2>2. CASE ~b.open
      BY <1>11, <2>1, <2>2 DEF sqlite_execute
    <2>3. CASE b.open
      <3>1. o \in {Ok(d, 0)} \cup Handling({Err(b, 1)}, sqlite_rollback)
        BY <2>1, <2>3, Zenon DEF sqlite_execute, d
      <3>2. CASE o \in Handling({Err(b, 1)}, sqlite_rollback)
        <4>1. Err(b, 1).ok = FALSE /\ Err(b, 1).db = b /\ Err(b, 1).faults = 1
          BY DEF Err
        <4>2. PICK p \in sqlite_rollback(b) : o = Err(p.db, 1 + p.faults)
          BY <3>2, <4>1, Zenon DEF Handling
        <4>3. QED  BY <2>1, <4>2, LiteUndone, HandledIs
      <3>3. QED  BY <1>10, <2>3, <3>1, <3>2
    <2>4. QED  BY <2>2, <2>3
  <1>13. CASE b.driver # "sqlite"
    <2>1. execute(b, s) = postgresql_execute(b, s) /\ IsServer(b)
      BY <1>13 DEF execute, IsServer
    <2> HIDE DEF Undo
    <2>5. ASSUME NEW x \in SafeSessions(V), x.driver = b.driver, NEW n \in Nat,
                 NEW p \in Undo(x), o = Err(p.db, n + p.faults)
          PROVE  o \in Outcomes(V) /\ ~o.ok
      <3>1. IsServer(x)
        BY <1>13, <2>5 DEF IsServer
      <3>2. p \in Outcomes(V)
        BY <2>5, <3>1, UndoneIs DEF Undo
      <3>3. QED  BY <2>5, <3>2, HandledIs
    <2>2. CASE ~b.open
      BY <1>11, <2>1, <2>2, Zenon DEF postgresql_execute
    <2>3. CASE b.open /\ (b.broken \/ b.failed)
      <3>1. o \in Handling({Err(b, 0)}, Undo)
        BY <2>1, <2>3, Zenon DEF postgresql_execute, Undo
      <3>2. Err(b, 0).ok = FALSE /\ Err(b, 0).db = b /\ Err(b, 0).faults = 0
        BY DEF Err
      <3>3. PICK p \in Undo(b) : o = Err(p.db, 0 + p.faults)
        BY <3>1, <3>2, Zenon DEF Handling
      <3>4. QED  BY <2>5, <3>3
    <2>4. CASE b.open /\ ~(b.broken \/ b.failed)
      <3>1. o \in {Ok(d, 0)} \cup Handling({Err(r, 1), Err(g, 1), Err(v, 1)}, Undo)
        BY <2>1, <2>4, Zenon DEF postgresql_execute, d, f, l, r, g, u, v, Undo
      <3>2. CASE o \in Handling({Err(r, 1), Err(g, 1), Err(v, 1)}, Undo)
        <4>1. /\ Err(r, 1).ok = FALSE /\ Err(r, 1).db = r /\ Err(r, 1).faults = 1
              /\ Err(g, 1).ok = FALSE /\ Err(g, 1).db = g /\ Err(g, 1).faults = 1
              /\ Err(v, 1).ok = FALSE /\ Err(v, 1).db = v /\ Err(v, 1).faults = 1
          BY DEF Err
        <4>2. PICK e \in {Err(r, 1), Err(g, 1), Err(v, 1)} :
                o \in IF e.ok THEN {e} ELSE {Err(p.db, e.faults + p.faults) : p \in Undo(e.db)}
          BY <3>2, Zenon DEF Handling
        <4> DEFINE x == e.db
        <4>3. x \in {r, g, v} /\ e.ok = FALSE /\ e.faults = 1
          BY <4>1, <4>2, Zenon
        <4>4. PICK p \in Undo(x) : o = Err(p.db, 1 + p.faults)
          BY <4>2, <4>3, Zenon
        <4> HIDE DEF x
        <4>5. x \in SafeSessions(V) /\ x.driver = b.driver
          BY <1>4, <1>5, <1>8, <1>9, <2>4, <4>3
        <4>6. QED  BY <2>5, <4>4, <4>5
      <3>3. QED  BY <1>10, <2>4, <3>1, <3>2
    <2>6. QED  BY <2>2, <2>3, <2>4
  <1>14. QED  BY <1>12, <1>13

\* A read.
LEMMA Fetches ==
  ASSUME NEW V, NEW b \in SafeSessions(V), NEW o \in fetch(b)
  PROVE  o \in Outcomes(V)
  <1> DEFINE Undo(x) == IF x.active THEN {Ok(x, 0)} ELSE postgresql_rollback(x)
             e == b.dirty \/ b.driver = "psycopg"
             y == [b EXCEPT !.dirty = e]
             f == b.active \/ b.driver = "psycopg"
             r == [b EXCEPT !.failed = f]
             g == Gone(b)
  <1>1. b \in SessionShapes
    BY DEF SafeSessions
  <1>2. e \in BOOLEAN /\ f \in BOOLEAN /\ (b.dirty => e)
    BY <1>1 DEF SessionShapes
  <1> HIDE DEF e, f
  <1>3. Derived(b, y)
    BY <1>1, <1>2, ReadIs, Zenon
  <1>4. Derived(b, r) /\ r.driver = b.driver
    BY <1>1, <1>2, FailedIs, Zenon DEF Derived
  <1>5. Derived(b, g) /\ g.driver = b.driver
    BY <1>1, GoneIs, Zenon DEF Derived
  <1> HIDE DEF y, r, g, Undo
  <1>6. y \in SafeSessions(V) /\ r \in SafeSessions(V) /\ g \in SafeSessions(V)
    BY <1>3, <1>4, <1>5, DerivedIsSafe
  <1>7. CASE o = Ok(y, 0)
    BY <1>6, <1>7 DEF Ok, Outcomes
  <1>8. CASE o = Ok(b, 0)
    BY <1>8 DEF Ok, Outcomes
  <1>9. CASE o = Err(b, 0)
    BY <1>9 DEF Err, Outcomes
  <1>10. ASSUME NEW x \in SafeSessions(V), IsServer(x), NEW n \in Nat,
                NEW p \in Undo(x), o = Err(p.db, n + p.faults)
         PROVE  o \in Outcomes(V)
    <2>1. p \in Outcomes(V)
      BY <1>10, UndoneIs DEF Undo
    <2>2. QED  BY <1>10, <2>1, HandledIs
  <1>11. CASE ~b.open
    BY <1>9, <1>11, Zenon DEF fetch
  <1>12. CASE b.open /\ ~IsServer(b)
    <2>1. o \in {Ok(b, 0)} \cup Handling({Err(b, 1)}, sqlite_rollback)
      BY <1>12, Zenon DEF fetch
    <2>2. CASE o \in Handling({Err(b, 1)}, sqlite_rollback)
      <3>1. Err(b, 1).ok = FALSE /\ Err(b, 1).db = b /\ Err(b, 1).faults = 1
        BY DEF Err
      <3>2. PICK p \in sqlite_rollback(b) : o = Err(p.db, 1 + p.faults)
        BY <2>2, <3>1, Zenon DEF Handling
      <3>3. QED  BY <1>12, <3>2, LiteUndone, HandledIs
    <2>3. QED  BY <1>8, <2>1, <2>2
  <1>13. CASE b.open /\ IsServer(b) /\ (b.broken \/ b.failed)
    <2>1. o \in Handling({Err(b, 0)}, Undo)
      BY <1>13, Zenon DEF fetch, Undo
    <2>2. Err(b, 0).ok = FALSE /\ Err(b, 0).db = b /\ Err(b, 0).faults = 0
      BY DEF Err
    <2>3. PICK p \in Undo(b) : o = Err(p.db, 0 + p.faults)
      BY <2>1, <2>2, Zenon DEF Handling
    <2>4. QED  BY <1>10, <1>13, <2>3
  <1>14. CASE b.open /\ IsServer(b) /\ ~(b.broken \/ b.failed)
    <2>1. o \in {Ok(y, 0)} \cup Handling({Err(r, 1), Err(g, 1)}, Undo)
      BY <1>14, Zenon DEF fetch, Undo, y, r, g, e, f
    <2>2. CASE o \in Handling({Err(r, 1), Err(g, 1)}, Undo)
      <3>1. /\ Err(r, 1).ok = FALSE /\ Err(r, 1).db = r /\ Err(r, 1).faults = 1
            /\ Err(g, 1).ok = FALSE /\ Err(g, 1).db = g /\ Err(g, 1).faults = 1
        BY DEF Err
      <3>2. PICK k \in {Err(r, 1), Err(g, 1)} :
              o \in IF k.ok THEN {k} ELSE {Err(p.db, k.faults + p.faults) : p \in Undo(k.db)}
        BY <2>2, Zenon DEF Handling
      <3> DEFINE x == k.db
      <3>3. x \in {r, g} /\ k.ok = FALSE /\ k.faults = 1
        BY <3>1, <3>2, Zenon
      <3>4. PICK p \in Undo(x) : o = Err(p.db, 1 + p.faults)
        BY <3>2, <3>3, Zenon
      <3> HIDE DEF x
      <3>5. x \in SafeSessions(V) /\ IsServer(x)
        BY <1>4, <1>5, <1>6, <1>14, <3>3 DEF IsServer
      <3>6. QED  BY <1>10, <3>4, <3>5
    <2>3. QED  BY <1>7, <2>1, <2>2
  <1>15. QED  BY <1>11, <1>12, <1>13, <1>14

\* A statement that is durable at once.
LEMMA Defines ==
  ASSUME NEW V, NEW b \in SafeSessions(V), NEW s, Fits(s, V), NEW o \in ddl(b, s)
  PROVE  o \in Outcomes(V)
  <1>1. CASE o \in execute(b, s)
    BY <1>1, Executes
  <1>2. CASE \E e \in execute(b, s) :
               e.ok /\ o = Ok([e.db EXCEPT !.store = e.db.seen, !.dirty = FALSE], e.faults)
    <2>1. PICK e \in execute(b, s) :
               e.ok /\ o = Ok([e.db EXCEPT !.store = e.db.seen, !.dirty = FALSE], e.faults)
      BY <1>2
    <2>2. e \in Outcomes(V)
      BY Executes
    <2> DEFINE c == e.db
               k == [c EXCEPT !.store = c.seen, !.dirty = FALSE]
               n == e.faults
    <2>3. c \in SafeSessions(V) /\ n \in Nat /\ o = Ok(k, n)
      BY <2>1, <2>2 DEF Outcomes
    <2> HIDE DEF c, n
    <2>4. Derived(c, k)
      BY <2>3, Zenon DEF SafeSessions, SessionShapes, Derived
    <2> HIDE DEF k
    <2>5. k \in SafeSessions(V)
      BY <2>3, <2>4, DerivedIsSafe
    <2>6. QED  BY <2>3, <2>5 DEF Ok, Outcomes
  <1>3. QED  BY <1>1, <1>2, Zenon DEF ddl

\* A row of a table that was verified.
LEMMA Upserts ==
  ASSUME NEW V, NEW b \in SafeSessions(V), NEW t \in V, NEW o \in upsert(b, t)
  PROVE  o \in Outcomes(V)
  <1> DEFINE s == [do |-> "row", table |-> t]
             Undo(x) == IF IsServer(x) /\ x.active THEN {Ok(x, 0)} ELSE rollback(x)
             f == IsServer(b)
             r == [b EXCEPT !.failed = f]
  <1>1. CASE o \in execute(b, s)
    <2>1. Fits(s, V)
      BY DEF Fits
    <2>2. QED  BY <1>1, <2>1, Executes
  <1> HIDE DEF s, Undo
  <1>2. CASE o \in Handling({Err(r, 0)}, Undo)
    <2>1. b \in SessionShapes /\ f \in BOOLEAN
      BY DEF SafeSessions, IsServer
    <2> HIDE DEF f
    <2>2. Derived(b, r)
      BY <2>1, FailedIs, Zenon
    <2> HIDE DEF r
    <2>3. r \in SafeSessions(V)
      BY <2>2, DerivedIsSafe
    <2>4. Err(r, 0).ok = FALSE /\ Err(r, 0).db = r /\ Err(r, 0).faults = 0
      BY DEF Err
    <2>5. PICK p \in Undo(r) : o = Err(p.db, 0 + p.faults)
      BY <1>2, <2>4, Zenon DEF Handling
    <2>6. p \in Outcomes(V)
      <3>1. CASE p \in rollback(r)
        BY <2>3, <3>1, RollsBack
      <3>2. CASE p = Ok(r, 0)
        BY <2>3, <3>2 DEF Ok, Outcomes
      <3>3. QED  BY <2>5, <3>1, <3>2 DEF Undo
    <2>7. QED  BY <2>5, <2>6, HandledIs
  <1>3. QED  BY <1>1, <1>2, Zenon DEF upsert, s, Undo

\* What a call that failed did of its own is undone, or the session dropped.
Recovers(b) ==
    UNION {IF o.ok THEN {o} ELSE {[d EXCEPT !.faults = @ + o.faults] : d \in disconnect(o.db)}
           : o \in rollback(b)}

LEMMA RecoversIs ==
  ASSUME NEW V, NEW b \in SafeSessions(V), NEW o \in Recovers(b)
  PROVE  o \in Outcomes(V)
  <1>1. PICK e \in rollback(b) :
          \/ o = e
          \/ \E d \in disconnect(e.db) : o = [d EXCEPT !.faults = @ + e.faults]
    BY Zenon DEF Recovers
  <1>2. e \in Outcomes(V)
    BY RollsBack
  <1>3. CASE \E d \in disconnect(e.db) : o = [d EXCEPT !.faults = @ + e.faults]
    <2>1. PICK d \in disconnect(e.db) : o = [d EXCEPT !.faults = @ + e.faults]
      BY <1>3
    <2>2. e.db \in SafeSessions(V) /\ e.faults \in Nat
      BY <1>2 DEF Outcomes
    <2>3. d \in Outcomes(V)
      BY <2>1, <2>2, Disconnects
    <2>4. QED  BY <2>1, <2>2, <2>3, SummedIs
  <1>4. QED  BY <1>1, <1>2, <1>3

\* The columns of one table.
LEMMA AddsColumns ==
  ASSUME NEW V, NEW b \in SafeSessions(V), NEW t, NEW c, NEW o \in AddColumns(b, t, c)
  PROVE  o \in Outcomes(V)
  <1> DEFINE left(x) == x.seen.cat[t].flaws \cap Addable
             Add(a) == [do |-> "add", table |-> t, column |-> a]
             One(x) == IF left(x) = {} THEN {Ok(x, 0)}
                       ELSE UNION {ddl(x, Add(a)) : a \in left(x)}
             Begun(x) == IF c THEN {Ok(x, 0)}
                         ELSE IF IsServer(x) THEN begin_transaction(x)
                         ELSE IF x.dirty THEN {Ok(x, 0)}
                         ELSE execute(x, [do |-> "BEGIN"])
             Last(x) == IF c THEN commit(x) ELSE {Ok(x, 0)}
  <1>1. o \in Then(Then(Then(Then(Begun(b), One), One), One), Last)
    BY Zenon DEF AddColumns
  <1>2. ASSUME NEW x \in SafeSessions(V), NEW e, e = Ok(x, 0)
        PROVE  e \in Outcomes(V)
    BY <1>2 DEF Ok, Outcomes
  <1>3. Begun(b) \subseteq Outcomes(V)
    <2>1. \A e \in execute(b, [do |-> "BEGIN"]) : e \in Outcomes(V)
      <3>1. Fits([do |-> "BEGIN"], V)
        BY DEF Fits
      <3>2. QED  BY <3>1, Executes
    <2>2. \A e \in begin_transaction(b) : e \in Outcomes(V)
      BY Begins
    <2>3. Ok(b, 0) \in Outcomes(V)
      BY <1>2
    <2>4. QED  BY <2>1, <2>2, <2>3
  <1>4. ASSUME NEW x \in SafeSessions(V), NEW e \in One(x)
        PROVE  e \in Outcomes(V)
    <2>1. CASE e = Ok(x, 0)
      BY <1>2, <2>1
    <2>2. CASE \E a \in left(x) : e \in ddl(x, Add(a))
      <3>1. PICK a \in left(x) : e \in ddl(x, Add(a))
        BY <2>2
      <3>2. Fits(Add(a), V)
        BY DEF Fits
      <3> HIDE DEF Add
      <3>3. QED  BY <3>1, <3>2, Defines
    <2>3. QED  BY <1>4, <2>1, <2>2
  <1>5. ASSUME NEW x \in SafeSessions(V), NEW e \in Last(x)
        PROVE  e \in Outcomes(V)
    <2>1. CASE e = Ok(x, 0)
      BY <1>2, <2>1
    <2>2. CASE e \in commit(x)
      BY <2>2, Commits
    <2>3. QED  BY <1>5, <2>1, <2>2
  <1> HIDE DEF One, Begun, Last
  <1>6. ASSUME NEW S, S \subseteq Outcomes(V)
        PROVE  Then(S, One) \subseteq Outcomes(V)
    <2> SUFFICES ASSUME NEW e \in Then(S, One)
                 PROVE  e \in Outcomes(V)
      OBVIOUS
    <2>1. PICK q \in S : \/ e = q
                         \/ \E p \in One(q.db) : e = [p EXCEPT !.faults = @ + q.faults]
      BY Zenon DEF Then
    <2>2. q \in Outcomes(V) /\ q.db \in SafeSessions(V) /\ q.faults \in Nat
      BY <1>6 DEF Outcomes
    <2>3. CASE \E p \in One(q.db) : e = [p EXCEPT !.faults = @ + q.faults]
      BY <1>4, <2>2, <2>3, SummedIs
    <2>4. QED  BY <2>1, <2>2, <2>3
  <1>7. ASSUME NEW S, S \subseteq Outcomes(V), NEW e \in Then(S, Last)
        PROVE  e \in Outcomes(V)
    <2>1. PICK q \in S : \/ e = q
                         \/ \E p \in Last(q.db) : e = [p EXCEPT !.faults = @ + q.faults]
      BY <1>7, Zenon DEF Then
    <2>2. q \in Outcomes(V) /\ q.db \in SafeSessions(V) /\ q.faults \in Nat
      BY <1>7 DEF Outcomes
    <2>3. CASE \E p \in Last(q.db) : e = [p EXCEPT !.faults = @ + q.faults]
      BY <1>5, <2>2, <2>3, SummedIs
    <2>4. QED  BY <2>1, <2>2, <2>3
  <1>8. Then(Begun(b), One) \subseteq Outcomes(V)
    BY <1>3, <1>6
  <1>9. Then(Then(Begun(b), One), One) \subseteq Outcomes(V)
    BY <1>6, <1>8
  <1>10. Then(Then(Then(Begun(b), One), One), One) \subseteq Outcomes(V)
    BY <1>6, <1>9
  <1>11. QED  BY <1>1, <1>7, <1>10

\* The migration of one table.
LEMMA Migrates ==
  ASSUME NEW V, NEW b \in SafeSessions(V), NEW t, NEW c, NEW o \in MigrateOne(b, t, c)
  PROVE  o \in Outcomes(V)
  <1> DEFINE Upgrade(x) ==
               LET tab == x.seen.cat[t] IN
               IF Has(tab, {"capture"}) THEN {Err(x, 0)}
               ELSE IF Has(tab, Addable) /\ ~Has(tab, {"key"}) THEN AddColumns(x, t, c)
               ELSE {Ok(x, 0)}
             Existing(x) ==
               UNION {IF ~e.ok THEN {e} ELSE {[p EXCEPT !.faults = @ + e.faults] : p \in Upgrade(e.db)}
                      : e \in fetch(x)}
             Absent(x) == {Ok(x, 0)}
  <1>1. ASSUME NEW x \in SafeSessions(V), NEW p \in Upgrade(x)
        PROVE  p \in Outcomes(V)
    <2>1. CASE p = Err(x, 0)
      BY <2>1 DEF Err, Outcomes
    <2>2. CASE p = Ok(x, 0)
      BY <2>2 DEF Ok, Outcomes
    <2>3. CASE p \in AddColumns(x, t, c)
      BY <2>3, AddsColumns
    <2>4. QED  BY <1>1, <2>1, <2>2, <2>3
  <1>2. MigrateOne(b, t, c) =
          UNION {{[p EXCEPT !.faults = @ + e.faults]
                  : p \in IF e.ok /\ e.db.seen.cat[t].there THEN Existing(e.db) ELSE Absent(e.db)}
                 : e \in fetch(b)}
    BY Zenon DEF MigrateOne, table_exists
  <1> HIDE DEF Upgrade
  <1>3. ASSUME NEW x \in SafeSessions(V), NEW p \in Existing(x)
        PROVE  p \in Outcomes(V)
    <2>1. PICK e \in fetch(x) : \/ p = e
                                \/ \E q \in Upgrade(e.db) : p = [q EXCEPT !.faults = @ + e.faults]
      BY <1>3, Zenon
    <2>2. e \in Outcomes(V) /\ e.db \in SafeSessions(V) /\ e.faults \in Nat
      BY Fetches DEF Outcomes
    <2>3. CASE \E q \in Upgrade(e.db) : p = [q EXCEPT !.faults = @ + e.faults]
      BY <1>1, <2>2, <2>3, SummedIs
    <2>4. QED  BY <2>1, <2>2, <2>3
  <1>4. ASSUME NEW x \in SafeSessions(V), NEW p \in Absent(x)
        PROVE  p \in Outcomes(V)
    <2>1. p = Ok(x, 0)
      BY <1>4
    <2>2. QED  BY <2>1 DEF Ok, Outcomes
  <1> HIDE DEF Existing, Absent
  <1>5. PICK e \in fetch(b) :
          o \in {[p EXCEPT !.faults = @ + e.faults]
                 : p \in IF e.ok /\ e.db.seen.cat[t].there THEN Existing(e.db) ELSE Absent(e.db)}
    BY <1>2, Zenon
  <1>6. e.db \in SafeSessions(V) /\ e.faults \in Nat
    BY Fetches DEF Outcomes
  <1>7. PICK p \in Existing(e.db) \cup Absent(e.db) : o = [p EXCEPT !.faults = @ + e.faults]
    BY <1>5, Zenon
  <1>8. QED  BY <1>3, <1>4, <1>6, <1>7, SummedIs

-----------------------------------------------------------------------------
(***************************************************************************)
(* The handle: its calls touch its databases only through theirs.          *)
(***************************************************************************)
HandleShapes(V) ==
    [dual : BOOLEAN, p : SafeSessions(V), s : SafeSessions(V), active : BOOLEAN, gen : Nat,
     sync : BOOLEAN, invalid : BOOLEAN]

\* Handles under which V was verified, and outcomes of their calls; one that is
\* not dual has no secondary to open.
HandlesOf(V) == {hd \in HandleShapes(V) : hd.dual \/ ~hd.s.open}
Results(V) == [db : HandlesOf(V), ok : BOOLEAN, faults : Nat]

\* The handle k holds the databases c and d and is otherwise used like hd.
Holds(V, hd, c, d, k) ==
    k \in HandlesOf(V) /\ k.p = c /\ k.s = d /\ k.dual = hd.dual /\ k.active = hd.active

\* The outcome o of a handle that took the outcome q of its primary, of its
\* secondary.
FromPrimary(hd, q, o) == o = [q EXCEPT !.db = [hd EXCEPT !.p = q.db]]
FromSecondary(hd, q, o) == o = [q EXCEPT !.db = [hd EXCEPT !.s = q.db]]

\* Taking it leaves the other database as it is.
LEMMA OnPrimaryIs ==
  ASSUME NEW V, NEW hd \in HandlesOf(V), NEW q \in Outcomes(V),
         NEW o, FromPrimary(hd, q, o)
  PROVE  o \in Results(V) /\ o.ok = q.ok /\ Holds(V, hd, q.db, hd.s, o.db)
  <1> DEFINE k == [hd EXCEPT !.p = q.db]
  <1>1. q.db \in SafeSessions(V) /\ q.ok \in BOOLEAN /\ q.faults \in Nat
    BY DEF Outcomes
  <1>2. hd \in HandleShapes(V) /\ (hd.dual \/ ~hd.s.open)
    BY DEF HandlesOf
  <1>3. /\ k \in HandleShapes(V) /\ k.p = q.db /\ k.s = hd.s /\ k.dual = hd.dual
        /\ k.active = hd.active
    BY <1>1, <1>2, Zenon DEF HandleShapes
  <1>4. o = [q EXCEPT !.db = k]
    BY Zenon DEF FromPrimary
  <1> HIDE DEF k
  <1>5. k \in HandlesOf(V)
    BY <1>2, <1>3 DEF HandlesOf
  <1>6. o \in Results(V) /\ o.ok = q.ok /\ o.db = k
    BY <1>1, <1>4, <1>5, Zenon DEF Outcomes, Results
  <1>7. QED  BY <1>3, <1>5, <1>6 DEF Holds

\* The same of the secondary of a dual handle.
LEMMA OnSecondaryIs ==
  ASSUME NEW V, NEW hd \in HandlesOf(V), hd.dual, NEW q \in Outcomes(V),
         NEW o, FromSecondary(hd, q, o)
  PROVE  o \in Results(V) /\ o.ok = q.ok /\ Holds(V, hd, hd.p, q.db, o.db)
  <1> DEFINE k == [hd EXCEPT !.s = q.db]
  <1>1. q.db \in SafeSessions(V) /\ q.ok \in BOOLEAN /\ q.faults \in Nat
    BY DEF Outcomes
  <1>2. hd \in HandleShapes(V)
    BY DEF HandlesOf
  <1>3. /\ k \in HandleShapes(V) /\ k.p = hd.p /\ k.s = q.db /\ k.dual = hd.dual
        /\ k.active = hd.active
    BY <1>1, <1>2, Zenon DEF HandleShapes
  <1>4. o = [q EXCEPT !.db = k]
    BY Zenon DEF FromSecondary
  <1> HIDE DEF k
  <1>5. k \in HandlesOf(V)
    BY <1>3 DEF HandlesOf
  <1>6. o \in Results(V) /\ o.ok = q.ok /\ o.db = k
    BY <1>1, <1>4, <1>5, Zenon DEF Outcomes, Results
  <1>7. QED  BY <1>3, <1>5, <1>6 DEF Holds

\* Marks of the handle.
LEMMA MarkedIs ==
  ASSUME NEW V, NEW hd \in HandlesOf(V), NEW k \in HandleShapes(V),
         k.p = hd.p, k.s = hd.s, k.dual = hd.dual
  PROVE  k \in HandlesOf(V)
  BY DEF HandlesOf

\* Counting a secondary error.
LEMMA OutOfSyncIs ==
  ASSUME NEW V, NEW hd \in HandlesOf(V)
  PROVE  Holds(V, hd, hd.p, hd.s, OutOfSync(hd))
  <1> DEFINE k == OutOfSync(hd)
  <1>1. /\ k \in HandleShapes(V) /\ k.p = hd.p /\ k.s = hd.s /\ k.dual = hd.dual
        /\ k.active = hd.active
    BY Zenon DEF HandlesOf, HandleShapes, OutOfSync
  <1> HIDE DEF k
  <1>2. k \in HandlesOf(V)
    BY <1>1, MarkedIs
  <1>3. QED  BY <1>1, <1>2 DEF Holds, k

\* The end of a transaction, noted.
LEMMA NotedIs ==
  ASSUME NEW V, NEW hd \in HandlesOf(V), NEW x \in BOOLEAN
  PROVE  LET k == [hd EXCEPT !.active = FALSE, !.sync = @ /\ x] IN
         k \in HandlesOf(V) /\ k.p = hd.p
  <1> DEFINE k == [hd EXCEPT !.active = FALSE, !.sync = @ /\ x]
  <1>1. k \in HandleShapes(V) /\ k.p = hd.p /\ k.s = hd.s /\ k.dual = hd.dual
    BY Zenon DEF HandlesOf, HandleShapes
  <1> HIDE DEF k
  <1>2. k \in HandlesOf(V)
    BY <1>1, MarkedIs
  <1>3. QED  BY <1>1, <1>2, Zenon DEF k

\* A handle that holds no transaction any more, or was invalidated.
LEMMA FlaggedIs ==
  ASSUME NEW V, NEW hd \in HandlesOf(V), NEW x \in BOOLEAN, NEW y \in BOOLEAN
  PROVE  LET k == [hd EXCEPT !.active = x, !.invalid = y] IN
         k \in HandlesOf(V) /\ k.p = hd.p /\ k.s = hd.s /\ k.dual = hd.dual
  <1> DEFINE k == [hd EXCEPT !.active = x, !.invalid = y]
  <1>1. k \in HandleShapes(V) /\ k.p = hd.p /\ k.s = hd.s /\ k.dual = hd.dual
    BY Zenon DEF HandlesOf, HandleShapes
  <1> HIDE DEF k
  <1>2. k \in HandlesOf(V)
    BY <1>1, MarkedIs
  <1>3. QED  BY <1>1, <1>2, Zenon DEF k

\* Outcomes of a handle.
LEMMA ResultIs ==
  ASSUME NEW V, NEW k \in HandlesOf(V), NEW x \in BOOLEAN, NEW n \in Nat,
         NEW o, o = [db |-> k, ok |-> x, faults |-> n]
  PROVE  o \in Results(V) /\ o.db = k /\ o.ok = x
  BY DEF Results

\* Adding up faults changes nothing else.
LEMMA CountedIs ==
  ASSUME NEW V, NEW e \in Results(V), NEW n \in Nat, NEW o, o = [e EXCEPT !.faults = @ + n]
  PROVE  o \in Results(V) /\ o.db = e.db /\ o.ok = e.ok
  <1> DEFINE m == e.faults + n
  <1>1. m \in Nat
    BY DEF Results
  <1>2. o = [e EXCEPT !.faults = m]
    OBVIOUS
  <1> HIDE DEF m
  <1>3. QED  BY <1>1, <1>2, Zenon DEF Results

\* What an outcome leaves to go on with.
LEMMA ResultHolds ==
  ASSUME NEW V, NEW o \in Results(V)
  PROVE  /\ o.db \in HandlesOf(V) /\ o.ok \in BOOLEAN /\ o.faults \in Nat
         /\ o.db.p \in SafeSessions(V) /\ o.db.s \in SafeSessions(V)
  BY DEF Results, HandlesOf, HandleShapes

\* The databases of a handle.
LEMMA HandleHolds ==
  ASSUME NEW V, NEW hd \in HandlesOf(V)
  PROVE  hd.p \in SafeSessions(V) /\ hd.s \in SafeSessions(V) /\ hd.dual \in BOOLEAN
  BY DEF HandlesOf, HandleShapes

\* Leaving the connection.
LEMMA DisconnectIs ==
  ASSUME NEW V, NEW hd \in HandlesOf(V), NEW o \in Disconnect(hd)
  PROVE  o \in Results(V)
  <1>1. ASSUME NEW e \in OnPrimary(hd, disconnect)
        PROVE  e \in Results(V) /\ e.db.dual = hd.dual
    <2>1. PICK q \in disconnect(hd.p) : FromPrimary(hd, q, e)
      BY <1>1, Zenon DEF OnPrimary, FromPrimary
    <2>2. q \in Outcomes(V)
      BY <2>1, HandleHolds, Disconnects
    <2>3. QED  BY <2>1, <2>2, OnPrimaryIs DEF Holds
  <1>2. ASSUME NEW g \in HandlesOf(V), g.dual, NEW e \in OnSecondary(g, disconnect)
        PROVE  e \in Results(V)
    <2>1. PICK q \in disconnect(g.s) : FromSecondary(g, q, e)
      BY <1>2, Zenon DEF OnSecondary, FromSecondary
    <2>2. q \in Outcomes(V)
      BY <2>1, HandleHolds, Disconnects
    <2>3. QED  BY <1>2, <2>1, <2>2, OnSecondaryIs
  <1>3. CASE ~hd.dual
    BY <1>1, <1>3 DEF Disconnect
  <1>4. CASE hd.dual
    <2>1. PICK e \in OnPrimary(hd, disconnect) :
            \E q \in OnSecondary(e.db, disconnect) :
               o = IF e.ok THEN Ok([q.db EXCEPT !.active = FALSE], e.faults + q.faults)
                   ELSE Err(q.db, e.faults + q.faults)
      BY <1>4, Zenon DEF Disconnect
    <2>2. PICK q \in OnSecondary(e.db, disconnect) :
               o = IF e.ok THEN Ok([q.db EXCEPT !.active = FALSE], e.faults + q.faults)
                   ELSE Err(q.db, e.faults + q.faults)
      BY <2>1
    <2>3. e \in Results(V) /\ e.db.dual /\ e.db \in HandlesOf(V) /\ e.faults \in Nat
      BY <1>1, <1>4, <2>1, ResultHolds
    <2>4. q \in Results(V) /\ q.db \in HandlesOf(V) /\ q.faults \in Nat
      BY <1>2, <2>2, <2>3, ResultHolds
    <2> DEFINE c == q.db
               k == [c EXCEPT !.active = FALSE]
               n == e.faults + q.faults
    <2>5. n \in Nat /\ c \in HandlesOf(V)
      BY <2>3, <2>4
    <2>6. k \in HandlesOf(V)
      <3> HIDE DEF c
      <3>1. k \in HandleShapes(V) /\ k.p = c.p /\ k.s = c.s /\ k.dual = c.dual
        BY <2>5, Zenon DEF HandlesOf, HandleShapes
      <3> HIDE DEF k
      <3>2. QED  BY <2>5, <3>1, MarkedIs
    <2>7. o = Ok(k, n) \/ o = Err(c, n)
      BY <2>2, Zenon
    <2> HIDE DEF c, k, n
    <2>8. CASE o = Ok(k, n)
      BY <2>5, <2>6, <2>8 DEF Ok, Results
    <2>9. CASE o = Err(c, n)
      BY <2>5, <2>9 DEF Err, Results
    <2>10. QED  BY <2>7, <2>8, <2>9
  <1>5. QED  BY <1>3, <1>4

\* A rollback of both.
LEMMA RollbackIs ==
  ASSUME NEW V, NEW hd \in HandlesOf(V), NEW o \in Rollback(hd)
  PROVE  o \in Results(V) /\ (o.ok => o.db.p.open)
  <1>1. ASSUME NEW e \in OnPrimary(hd, rollback)
        PROVE  e \in Results(V) /\ e.db.dual = hd.dual /\ (e.ok => e.db.p.open)
    <2>1. PICK q \in rollback(hd.p) : FromPrimary(hd, q, e)
      BY <1>1, Zenon DEF OnPrimary, FromPrimary
    <2>2. q \in Outcomes(V) /\ (q.ok => q.db.open)
      BY <2>1, HandleHolds, RollsBack
    <2>3. QED  BY <2>1, <2>2, OnPrimaryIs DEF Holds
  <1>2. ASSUME NEW g \in HandlesOf(V), g.dual, NEW e \in OnSecondary(g, rollback)
        PROVE  e \in Results(V) /\ e.db.p = g.p
    <2>1. PICK q \in rollback(g.s) : FromSecondary(g, q, e)
      BY <1>2, Zenon DEF OnSecondary, FromSecondary
    <2>2. q \in Outcomes(V)
      BY <2>1, HandleHolds, RollsBack
    <2>3. QED  BY <1>2, <2>1, <2>2, OnSecondaryIs DEF Holds
  <1>3. CASE ~hd.dual
    BY <1>1, <1>3 DEF Rollback
  <1>4. CASE hd.dual
    <2>1. PICK e \in OnPrimary(hd, rollback) :
            \E q \in OnSecondary(e.db, rollback) :
               o = [db |-> [q.db EXCEPT !.active = FALSE, !.sync = @ /\ q.ok],
                    ok |-> e.ok /\ q.ok, faults |-> e.faults + q.faults]
      BY <1>4, Zenon DEF Rollback
    <2>2. PICK q \in OnSecondary(e.db, rollback) :
               o = [db |-> [q.db EXCEPT !.active = FALSE, !.sync = @ /\ q.ok],
                    ok |-> e.ok /\ q.ok, faults |-> e.faults + q.faults]
      BY <2>1
    <2>3. /\ e \in Results(V) /\ e.db.dual /\ e.db \in HandlesOf(V) /\ e.faults \in Nat
          /\ e.ok \in BOOLEAN /\ (e.ok => e.db.p.open)
      BY <1>1, <1>4, <2>1, ResultHolds
    <2>4. /\ q \in Results(V) /\ q.db \in HandlesOf(V) /\ q.faults \in Nat /\ q.ok \in BOOLEAN
          /\ q.db.p = e.db.p
      BY <1>2, <2>2, <2>3, ResultHolds
    <2> DEFINE k == [q.db EXCEPT !.active = FALSE, !.sync = @ /\ q.ok]
               n == e.faults + q.faults
               x == e.ok /\ q.ok
    <2>5. k \in HandlesOf(V) /\ k.p = q.db.p
      BY <2>4, NotedIs, Zenon
    <2>6. o = [db |-> k, ok |-> x, faults |-> n]
      BY <2>2, Zenon
    <2>7. n \in Nat /\ x \in BOOLEAN /\ (x => e.ok)
      BY <2>3, <2>4
    <2> HIDE DEF k, n, x
    <2>8. o \in Results(V) /\ o.db = k /\ o.ok = x
      BY <2>5, <2>6, <2>7, ResultIs
    <2>9. QED  BY <2>3, <2>4, <2>5, <2>7, <2>8
  <1>5. QED  BY <1>3, <1>4

\* An outcome that goes on from another: the rest of Then.
Follows(e, q, o) == e.ok /\ o = [q EXCEPT !.faults = @ + e.faults]

LEMMA FollowsIs ==
  ASSUME NEW V, NEW e \in Results(V), NEW q \in Results(V), NEW o, Follows(e, q, o)
  PROVE  o \in Results(V) /\ o.db = q.db /\ o.ok = q.ok
  BY CountedIs, ResultHolds DEF Follows

\* A commit, which the primary decides.
LEMMA CommitIs ==
  ASSUME NEW V, NEW hd \in HandlesOf(V), NEW o \in Commit(hd)
  PROVE  o \in Results(V) /\ (o.ok => o.db.p.open)
  <1> DEFINE Second(g) ==
               {Ok([e.db EXCEPT !.active = FALSE, !.sync = @ /\ e.ok], e.faults)
                : e \in OnSecondary(g, commit)}
             Next2(g) == IF hd.dual THEN Second(g) ELSE {Ok(g, 0)}
  <1>1. \E e \in OnPrimary(hd, commit) : o = e \/ \E q \in Next2(e.db) : Follows(e, q, o)
    <2>1. o \in Then(OnPrimary(hd, commit), Next2)
      BY Zenon DEF Commit
    <2> HIDE DEF Next2
    <2>2. QED  BY <2>1, Zenon DEF Then, Follows
  <1>2. ASSUME NEW e \in OnPrimary(hd, commit)
        PROVE  e \in Results(V) /\ e.db.dual = hd.dual /\ (e.ok => e.db.p.open)
    <2>1. PICK q \in commit(hd.p) : FromPrimary(hd, q, e)
      BY <1>2, Zenon DEF OnPrimary, FromPrimary
    <2>2. q \in Outcomes(V) /\ (q.ok => q.db.open)
      BY <2>1, HandleHolds, Commits
    <2>3. QED  BY <2>1, <2>2, OnPrimaryIs DEF Holds
  <1>3. ASSUME NEW g \in HandlesOf(V), g.dual, NEW e \in Second(g)
        PROVE  e \in Results(V) /\ e.db.p = g.p
    <2>1. PICK d \in OnSecondary(g, commit) :
            e = Ok([d.db EXCEPT !.active = FALSE, !.sync = @ /\ d.ok], d.faults)
      BY <1>3, Zenon
    <2>2. PICK q \in commit(g.s) : FromSecondary(g, q, d)
      BY <2>1, Zenon DEF OnSecondary, FromSecondary
    <2>3. q \in Outcomes(V)
      BY <2>2, HandleHolds, Commits
    <2>9. g.dual
      BY <1>3
    <2> HIDE DEF Second
    <2>4. d \in Results(V) /\ d.db.p = g.p
      BY <2>2, <2>3, <2>9, OnSecondaryIs DEF Holds
    <2>5. d.db \in HandlesOf(V) /\ d.ok \in BOOLEAN /\ d.faults \in Nat
      BY <2>4, ResultHolds
    <2> DEFINE k == [d.db EXCEPT !.active = FALSE, !.sync = @ /\ d.ok]
    <2>6. k \in HandlesOf(V) /\ k.p = d.db.p
      BY <2>5, NotedIs, Zenon
    <2>7. e = Ok(k, d.faults)
      BY <2>1
    <2> HIDE DEF k, Second
    <2>8. QED  BY <2>4, <2>5, <2>6, <2>7 DEF Ok, Results
  <1> HIDE DEF Second
  <1>4. ASSUME NEW g \in HandlesOf(V), g.dual = hd.dual, NEW e \in Next2(g)
        PROVE  e \in Results(V) /\ e.db.p = g.p
    <2>1. CASE e \in Second(g) /\ g.dual
      BY <1>3, <2>1
    <2>2. CASE e = Ok(g, 0)
      BY <2>2 DEF Ok, Results
    <2>3. QED  BY <1>4, <2>1, <2>2, HandleHolds
  <1> HIDE DEF Next2
  <1>5. PICK e \in OnPrimary(hd, commit) : o = e \/ \E q \in Next2(e.db) : Follows(e, q, o)
    BY <1>1
  <1>6. e \in Results(V) /\ e.db \in HandlesOf(V) /\ e.db.dual = hd.dual /\ (e.ok => e.db.p.open)
    BY <1>2, ResultHolds
  <1>7. CASE \E q \in Next2(e.db) : Follows(e, q, o)
    <2>1. PICK q \in Next2(e.db) : Follows(e, q, o)
      BY <1>7
    <2>2. q \in Results(V) /\ q.db.p = e.db.p
      BY <1>4, <1>6
    <2>3. o \in Results(V) /\ o.db = q.db /\ e.ok
      BY <1>6, <2>1, <2>2, FollowsIs DEF Follows
    <2>4. QED  BY <1>6, <2>2, <2>3
  <1>8. QED  BY <1>5, <1>6, <1>7

\* A new connection, before anything was verified.
LEMMA ConnectIs ==
  ASSUME NEW hd \in HandlesOf({}), NEW o \in Connect(hd)
  PROVE  o \in Results({})
  <1> DEFINE a == [hd EXCEPT !.active = FALSE, !.invalid = FALSE]
             Second(g) ==
               {IF e.ok THEN e ELSE Ok(OutOfSync(e.db), e.faults) : e \in OnSecondary(g, connect)}
             Next2(g) == IF hd.dual THEN Second(g) ELSE {Ok(g, 0)}
  <1>1. a \in HandlesOf({}) /\ a.dual = hd.dual
    BY FlaggedIs, Zenon
  <1>2. \E e \in OnPrimary(a, connect) : o = e \/ \E q \in Next2(e.db) : Follows(e, q, o)
    <2>1. o \in Then(OnPrimary(a, connect), Next2)
      BY Zenon DEF Connect, Second
    <2> HIDE DEF Next2, a
    <2>2. QED  BY <2>1, Zenon DEF Then, Follows
  <1> HIDE DEF a
  <1>3. ASSUME NEW e \in OnPrimary(a, connect)
        PROVE  e \in Results({}) /\ e.db.dual = hd.dual
    <2>1. PICK q \in connect(a.p) : FromPrimary(a, q, e)
      BY <1>3, Zenon DEF OnPrimary, FromPrimary
    <2>2. q \in Outcomes({})
      BY <1>1, <2>1, HandleHolds, Connects
    <2>3. QED  BY <1>1, <2>1, <2>2, OnPrimaryIs DEF Holds
  <1>4. ASSUME NEW g \in HandlesOf({}), g.dual, NEW e \in Second(g)
        PROVE  e \in Results({})
    <2>1. PICK d \in OnSecondary(g, connect) :
            e = IF d.ok THEN d ELSE Ok(OutOfSync(d.db), d.faults)
      BY <1>4, Zenon
    <2>2. PICK q \in connect(g.s) : FromSecondary(g, q, d)
      BY <2>1, Zenon DEF OnSecondary, FromSecondary
    <2>3. q \in Outcomes({})
      BY <2>2, HandleHolds, Connects
    <2>4. d \in Results({}) /\ d.db \in HandlesOf({}) /\ d.faults \in Nat
      BY <1>4, <2>2, <2>3, OnSecondaryIs, ResultHolds
    <2> DEFINE k == OutOfSync(d.db)
    <2>5. k \in HandlesOf({})
      BY <2>4, OutOfSyncIs DEF Holds
    <2>6. e = d \/ e = Ok(k, d.faults)
      BY <2>1
    <2> HIDE DEF k
    <2>7. CASE e = Ok(k, d.faults)
      BY <2>4, <2>5, <2>7 DEF Ok, Results
    <2>8. QED  BY <2>4, <2>6, <2>7
  <1> HIDE DEF Second
  <1>5. ASSUME NEW g \in HandlesOf({}), g.dual = hd.dual, NEW e \in Next2(g)
        PROVE  e \in Results({})
    <2>1. CASE e \in Second(g) /\ g.dual
      BY <1>4, <2>1
    <2>2. CASE e = Ok(g, 0)
      BY <2>2 DEF Ok, Results
    <2>3. QED  BY <1>5, <2>1, <2>2, HandleHolds
  <1> HIDE DEF Next2
  <1>6. PICK e \in OnPrimary(a, connect) : o = e \/ \E q \in Next2(e.db) : Follows(e, q, o)
    BY <1>2
  <1>7. e \in Results({}) /\ e.db \in HandlesOf({}) /\ e.db.dual = hd.dual
    BY <1>3, ResultHolds
  <1>8. CASE \E q \in Next2(e.db) : Follows(e, q, o)
    BY <1>5, <1>7, <1>8, FollowsIs
  <1>9. QED  BY <1>6, <1>7, <1>8

\* _mark_transaction_started touches neither database.
LEMMA StartedIs ==
  ASSUME NEW V, NEW hd \in HandlesOf(V), NEW g \in HandlesOf(V)
  PROVE  Started(hd, g) \in HandlesOf(V) /\ Started(hd, g).p = g.p
  <1> DEFINE n == g.gen + 1
             a == hd.dual
             k == [g EXCEPT !.gen = n, !.active = a]
  <1>1. n \in Nat /\ a \in BOOLEAN
    BY HandleHolds DEF HandlesOf, HandleShapes
  <1>2. Started(hd, g) = k \/ Started(hd, g) = g
    BY Zenon DEF Started
  <1> HIDE DEF n, a
  <1>3. k \in HandleShapes(V) /\ k.p = g.p /\ k.s = g.s /\ k.dual = g.dual
    BY <1>1, Zenon DEF HandlesOf, HandleShapes
  <1> HIDE DEF k
  <1>4. k \in HandlesOf(V)
    BY <1>3, MarkedIs
  <1>5. QED  BY <1>2, <1>3, <1>4

\* Beginning a transaction on both.
LEMMA BeginIs ==
  ASSUME NEW V, NEW hd \in HandlesOf(V), NEW o \in Begin(hd)
  PROVE  o \in Results(V) /\ (o.ok /\ hd.p.open => o.db.p.open)
  <1> DEFINE Undo(g) == {Ok(e.db, e.faults) : e \in OnPrimary(OutOfSync(g), rollback)}
             Both(g) == Handling(OnSecondary(g, begin_transaction), Undo)
             Primary == OnPrimary(hd, begin_transaction)
             Opens(e) == e.ok /\ hd.p.open => e.db.p.open
  <1>1. ASSUME NEW e \in Primary
        PROVE  e \in Results(V) /\ e.db.dual = hd.dual /\ Opens(e)
    <2>1. PICK q \in begin_transaction(hd.p) : FromPrimary(hd, q, e)
      BY <1>1, Zenon DEF OnPrimary, FromPrimary
    <2>2. q \in Outcomes(V) /\ (q.ok /\ hd.p.open => q.db.open)
      BY <2>1, HandleHolds, Begins
    <2>3. QED  BY <2>1, <2>2, OnPrimaryIs DEF Holds
  <1>2. ASSUME NEW g \in HandlesOf(V), g.dual, NEW e \in OnSecondary(g, begin_transaction)
        PROVE  e \in Results(V) /\ e.db.p = g.p
    <2>1. PICK q \in begin_transaction(g.s) : FromSecondary(g, q, e)
      BY <1>2, Zenon DEF OnSecondary, FromSecondary
    <2>2. q \in Outcomes(V)
      BY <2>1, HandleHolds, Begins
    <2>3. QED  BY <1>2, <2>1, <2>2, OnSecondaryIs DEF Holds
  <1>3. ASSUME NEW g \in HandlesOf(V), NEW e \in Undo(g)
        PROVE  e \in Results(V)
    <2>1. PICK d \in OnPrimary(OutOfSync(g), rollback) : e = Ok(d.db, d.faults)
      BY <1>3, Zenon
    <2> DEFINE k == OutOfSync(g)
    <2>2. k \in HandlesOf(V)
      BY OutOfSyncIs DEF Holds
    <2>3. PICK q \in rollback(k.p) : FromPrimary(k, q, d)
      BY <2>1, Zenon DEF OnPrimary, FromPrimary
    <2> HIDE DEF k
    <2>4. q \in Outcomes(V)
      BY <2>2, <2>3, HandleHolds, RollsBack
    <2>5. d \in Results(V)
      BY <2>2, <2>3, <2>4, OnPrimaryIs
    <2>6. QED  BY <2>1, <2>5 DEF Ok, Results
  <1> HIDE DEF Undo, Primary
  <1>4. ASSUME NEW g \in HandlesOf(V), g.dual, NEW e \in Both(g)
        PROVE  e \in Results(V) /\ (e.ok => e.db.p = g.p)
    <2>1. PICK d \in OnSecondary(g, begin_transaction) :
            \/ d.ok /\ e = d
            \/ \E q \in Undo(d.db) : e = Err(q.db, d.faults + q.faults)
      BY <1>4, Zenon DEF Handling
    <2>2. d \in Results(V) /\ d.db.p = g.p /\ d.db \in HandlesOf(V) /\ d.faults \in Nat
      BY <1>2, <1>4, <2>1, ResultHolds
    <2>3. CASE \E q \in Undo(d.db) : e = Err(q.db, d.faults + q.faults)
      <3>1. PICK q \in Undo(d.db) : e = Err(q.db, d.faults + q.faults)
        BY <2>3
      <3>2. q.db \in HandlesOf(V) /\ q.faults \in Nat
        BY <1>3, <2>2, <3>1, ResultHolds
      <3>3. QED  BY <2>2, <3>1, <3>2 DEF Err, Results
    <2>4. QED  BY <2>1, <2>2, <2>3
  <1> HIDE DEF Both
  <1>5. ASSUME NEW e \in Then(Primary, Both), hd.dual
        PROVE  e \in Results(V) /\ Opens(e)
    <2>1. PICK d \in Primary : e = d \/ \E q \in Both(d.db) : Follows(d, q, e)
      BY <1>5, Zenon DEF Then, Follows
    <2>2. d \in Results(V) /\ d.db \in HandlesOf(V) /\ d.db.dual /\ Opens(d)
      BY <1>1, <1>5, ResultHolds
    <2>3. CASE \E q \in Both(d.db) : Follows(d, q, e)
      <3>1. PICK q \in Both(d.db) : Follows(d, q, e)
        BY <2>3
      <3>2. q \in Results(V) /\ (q.ok => q.db.p = d.db.p)
        BY <1>4, <2>2, <3>1
      <3>3. e \in Results(V) /\ e.db = q.db /\ e.ok = q.ok /\ d.ok
        BY <2>2, <3>1, <3>2, FollowsIs DEF Follows
      <3>4. QED  BY <2>2, <3>2, <3>3
    <2>4. QED  BY <2>1, <2>2, <2>3
  <1>6. CASE o = Ok(hd, 0)
    BY <1>6 DEF Ok, Results
  <1>7. CASE \E e : /\ e \in Primary \/ (hd.dual /\ e \in Then(Primary, Both))
                    /\ o = IF e.ok THEN [e EXCEPT !.db = Started(hd, e.db)] ELSE e
    <2>1. PICK e : /\ e \in Primary \/ (hd.dual /\ e \in Then(Primary, Both))
                   /\ o = IF e.ok THEN [e EXCEPT !.db = Started(hd, e.db)] ELSE e
      BY <1>7
    <2>2. e \in Results(V) /\ Opens(e) /\ e.db \in HandlesOf(V)
      BY <1>1, <1>5, <2>1, ResultHolds
    <2> DEFINE k == Started(hd, e.db)
    <2>3. k \in HandlesOf(V) /\ k.p = e.db.p
      BY <2>2, StartedIs
    <2>4. o = e \/ (e.ok /\ o = [e EXCEPT !.db = k])
      BY <2>1
    <2> HIDE DEF k
    <2>5. CASE e.ok /\ o = [e EXCEPT !.db = k]
      <3>1. o \in Results(V) /\ o.db = k /\ o.ok = e.ok
        BY <2>2, <2>3, <2>5, Zenon DEF Results
      <3>2. QED  BY <2>2, <2>3, <3>1
    <2>6. QED  BY <2>2, <2>4, <2>5
  <1>8. QED  BY <1>6, <1>7, Zenon DEF Begin, Primary, Both, Undo

\* How a database context ends.
LEMMA ContextExitIs ==
  ASSUME NEW V, NEW hd \in HandlesOf(V), NEW fails, NEW o \in ContextExit(hd, fails)
  PROVE  o \in Results(V)
  <1>1. CASE hd.invalid /\ ~is_connected(hd)
    <2> DEFINE k == [hd EXCEPT !.invalid = FALSE]
    <2>1. k \in HandleShapes(V) /\ k.p = hd.p /\ k.s = hd.s /\ k.dual = hd.dual
      BY Zenon DEF HandlesOf, HandleShapes
    <2>2. o = Ok(k, 0)
      BY <1>1, Zenon DEF ContextExit
    <2> HIDE DEF k
    <2>3. k \in HandlesOf(V)
      BY <2>1, MarkedIs
    <2>4. QED  BY <2>2, <2>3 DEF Ok, Results
  <1>2. CASE ~(hd.invalid /\ ~is_connected(hd))
    <2> DEFINE Primary == IF fails THEN Rollback(hd) ELSE Commit(hd)
    <2>1. o \in Then(Primary, Disconnect)
      BY <1>2, Zenon DEF ContextExit
    <2>2. \A e \in Primary : e \in Results(V)
      BY RollbackIs, CommitIs
    <2> HIDE DEF Primary
    <2>3. PICK e \in Primary : o = e \/ \E q \in Disconnect(e.db) : Follows(e, q, o)
      BY <2>1, Zenon DEF Then, Follows
    <2>4. QED  BY <2>2, <2>3, DisconnectIs, ResultHolds, FollowsIs
  <1>3. QED  BY <1>1, <1>2

\* A session that cannot roll back is dropped.
LEMMA RollbackFailedIs ==
  ASSUME NEW V, NEW hd \in HandlesOf(V), NEW o \in RollbackFailedImport(hd)
  PROVE  o \in Results(V)
  <1>1. ASSUME NEW g \in HandlesOf(V), NEW e \in Invalidate(g)
        PROVE  e \in Results(V)
    <2>1. PICK q \in Disconnect(g) : e = [q EXCEPT !.db.invalid = ~is_connected(q.db)]
      BY <1>1, Zenon DEF Invalidate
    <2>2. q \in Results(V) /\ q.db \in HandlesOf(V)
      BY <2>1, DisconnectIs, ResultHolds
    <2> DEFINE x == ~is_connected(q.db)
               c == q.db
               k == [c EXCEPT !.invalid = x]
    <2>3. e = [q EXCEPT !.db = k] /\ x \in BOOLEAN /\ c \in HandlesOf(V)
      BY <2>1, <2>2, Zenon
    <2> HIDE DEF x, c
    <2>4. k \in HandleShapes(V) /\ k.p = c.p /\ k.s = c.s /\ k.dual = c.dual
      BY <2>3, Zenon DEF HandlesOf, HandleShapes
    <2> HIDE DEF k
    <2>5. k \in HandlesOf(V)
      BY <2>3, <2>4, MarkedIs
    <2>6. QED  BY <2>2, <2>3, <2>5, Zenon DEF Results
  <1>2. PICK e \in Rollback(hd) :
          o = e \/ \E q \in Invalidate(e.db) : o = [q EXCEPT !.faults = @ + e.faults]
    BY Zenon DEF RollbackFailedImport
  <1>3. e \in Results(V) /\ e.db \in HandlesOf(V) /\ e.faults \in Nat
    BY RollbackIs, ResultHolds
  <1>4. QED  BY <1>1, <1>2, <1>3, CountedIs

-----------------------------------------------------------------------------
(***************************************************************************)
(* What the commands are made of.                                          *)
(***************************************************************************)

\* A session that a call opened is closed again.
Closes(was, b) == IF CreatedHere(was, b) THEN Recovers(b) ELSE {Ok(b, 0)}

LEMMA ClosesIs ==
  ASSUME NEW V, NEW b \in SafeSessions(V), NEW was, NEW o \in Closes(was, b)
  PROVE  o \in Outcomes(V)
  <1>1. CASE o = Ok(b, 0)
    BY <1>1 DEF Ok, Outcomes
  <1>2. CASE o \in Recovers(b)
    BY <1>2, RecoversIs
  <1>3. QED  BY <1>1, <1>2 DEF Closes

\* Both are.
LEMMA CloseCreatedIs ==
  ASSUME NEW V, NEW hd \in HandlesOf(V), NEW snap, NEW o \in CloseCreated(hd, snap)
  PROVE  o \in Results(V)
  <1> DEFINE F(b) == Closes(snap.p, b)
             G(b) == Closes(snap.s, b)
             Second(g, x) ==
               {[f EXCEPT !.ok = @ /\ x]
                : f \in IF g.dual /\ g.s.open THEN OnSecondary(g, G) ELSE {Ok(g, 0)}}
  <1>1. CloseCreated(hd, snap) =
          UNION {{[q EXCEPT !.faults = @ + e.faults] : q \in Second(e.db, e.ok)}
                 : e \in OnPrimary(hd, F)}
    BY Zenon DEF CloseCreated, Closes, Recovers
  <1>2. ASSUME NEW e \in OnPrimary(hd, F)
        PROVE  e \in Results(V)
    <2>1. PICK q \in Closes(snap.p, hd.p) : FromPrimary(hd, q, e)
      BY <1>2, Zenon DEF OnPrimary, FromPrimary
    <2>2. q \in Outcomes(V)
      BY <2>1, HandleHolds, ClosesIs
    <2>3. QED  BY <2>1, <2>2, OnPrimaryIs
  <1>3. ASSUME NEW g \in HandlesOf(V), g.dual, NEW e \in OnSecondary(g, G)
        PROVE  e \in Results(V)
    <2>1. PICK q \in Closes(snap.s, g.s) : FromSecondary(g, q, e)
      BY <1>3, Zenon DEF OnSecondary, FromSecondary
    <2>2. q \in Outcomes(V)
      BY <2>1, HandleHolds, ClosesIs
    <2>3. QED  BY <1>3, <2>1, <2>2, OnSecondaryIs
  <1> HIDE DEF F, G
  <1>4. ASSUME NEW g \in HandlesOf(V), NEW x \in BOOLEAN, NEW q \in Second(g, x)
        PROVE  q \in Results(V)
    <2>1. PICK f \in IF g.dual /\ g.s.open THEN OnSecondary(g, G) ELSE {Ok(g, 0)} :
            q = [f EXCEPT !.ok = @ /\ x]
      BY <1>4, Zenon
    <2>2. f \in Results(V)
      <3>1. CASE f = Ok(g, 0)
        BY <3>1 DEF Ok, Results
      <3>2. CASE g.dual /\ f \in OnSecondary(g, G)
        BY <1>3, <3>2
      <3>3. QED  BY <2>1, <3>1, <3>2
    <2>3. QED  BY <2>1, <2>2, Zenon DEF Results
  <1> HIDE DEF Second
  <1>5. PICK e \in OnPrimary(hd, F) :
          o \in {[q EXCEPT !.faults = @ + e.faults] : q \in Second(e.db, e.ok)}
    BY <1>1, Zenon
  <1>6. PICK q \in Second(e.db, e.ok) : o = [q EXCEPT !.faults = @ + e.faults]
    BY <1>5, Zenon
  <1>7. e.db \in HandlesOf(V) /\ e.ok \in BOOLEAN /\ e.faults \in Nat
    BY <1>2, ResultHolds
  <1>8. QED  BY <1>4, <1>6, <1>7, CountedIs

\* A failure closes what was opened.
CloseAfter(S, snap) == Handling(S, LAMBDA g : CloseCreated(g, snap))

LEMMA CloseAfterIs ==
  ASSUME NEW V, NEW S, S \subseteq Results(V), NEW snap, NEW o \in CloseAfter(S, snap)
  PROVE  o \in Results(V)
  <1>1. PICK e \in S : \/ o = e
                       \/ \E q \in CloseCreated(e.db, snap) : o = Err(q.db, e.faults + q.faults)
    BY Zenon DEF CloseAfter, Handling
  <1>2. e \in Results(V) /\ e.db \in HandlesOf(V) /\ e.faults \in Nat
    BY ResultHolds
  <1>3. CASE \E q \in CloseCreated(e.db, snap) : o = Err(q.db, e.faults + q.faults)
    <2>1. PICK q \in CloseCreated(e.db, snap) : o = Err(q.db, e.faults + q.faults)
      BY <1>3
    <2>2. q.db \in HandlesOf(V) /\ q.faults \in Nat
      BY <1>2, <2>1, CloseCreatedIs, ResultHolds
    <2>3. QED  BY <1>2, <2>1, <2>2 DEF Err, Results
  <1>4. QED  BY <1>1, <1>2, <1>3

\* A call that leaves a safe session safe.
Safely(V, b, q) == b \in SafeSessions(V) => q \in Outcomes(V)

\* A call of every target: of the primary, with the outcome q, and of the
\* secondary that is connected.
Targeted(V, hd, q, o) ==
    /\ Safely(V, hd.p, q)
    /\ \E e : /\ FromPrimary(hd, q, e)
              /\ \/ o = e \/ Follows(e, Ok(e.db, 0), o)
                 \/ e.db.dual /\ \E r, f : /\ Safely(V, e.db.s, r) /\ FromSecondary(e.db, r, f)
                                           /\ Follows(e, f, o)

LEMMA TargetedIs ==
  ASSUME NEW V, NEW hd \in HandlesOf(V), NEW q, NEW o, Targeted(V, hd, q, o)
  PROVE  o \in Results(V)
  <1>1. PICK e : /\ FromPrimary(hd, q, e)
                 /\ \/ o = e \/ Follows(e, Ok(e.db, 0), o)
                    \/ e.db.dual /\ \E r, f : /\ Safely(V, e.db.s, r) /\ FromSecondary(e.db, r, f)
                                              /\ Follows(e, f, o)
    BY Zenon DEF Targeted
  <1>2. q \in Outcomes(V)
    BY HandleHolds DEF Targeted, Safely
  <1>3. e \in Results(V) /\ e.db \in HandlesOf(V)
    BY <1>1, <1>2, OnPrimaryIs, ResultHolds
  <1>4. CASE e.db.dual /\ \E r, f : /\ Safely(V, e.db.s, r) /\ FromSecondary(e.db, r, f)
                                    /\ Follows(e, f, o)
    <2>1. PICK r, f : Safely(V, e.db.s, r) /\ FromSecondary(e.db, r, f) /\ Follows(e, f, o)
      BY <1>4
    <2>2. r \in Outcomes(V)
      BY <1>3, <2>1, HandleHolds DEF Safely
    <2>3. f \in Results(V)
      BY <1>3, <1>4, <2>1, <2>2, OnSecondaryIs
    <2>4. QED  BY <1>3, <2>1, <2>3, FollowsIs
  <1>5. CASE Follows(e, Ok(e.db, 0), o)
    <2>1. Ok(e.db, 0) \in Results(V)
      BY <1>3 DEF Ok, Results
    <2>2. QED  BY <1>3, <1>5, <2>1, FollowsIs
  <1>6. QED  BY <1>1, <1>3, <1>4, <1>5

\* A call of the primary, with the outcome q, and of a secondary whose errors
\* may be swallowed.
Mirror(g, f, d) == d = IF f.ok THEN f ELSE [f EXCEPT !.db = OutOfSync(f.db), !.ok = ~g.active]
Mirrors(V, hd, q, o) ==
    /\ Safely(V, hd.p, q)
    /\ \E e : /\ FromPrimary(hd, q, e)
              /\ \/ ~e.ok /\ o = e
                 \/ ~hd.dual /\ Follows(e, Ok(e.db, 0), o)
                 \/ hd.dual /\ \E r, f, d : /\ Safely(V, e.db.s, r) /\ FromSecondary(e.db, r, f)
                                            /\ Mirror(e.db, f, d) /\ Follows(e, d, o)

LEMMA MirrorsIs ==
  ASSUME NEW V, NEW hd \in HandlesOf(V), NEW q, NEW o, Mirrors(V, hd, q, o)
  PROVE  o \in Results(V) /\ o.db.p = q.db /\ (o.ok => q.ok)
  <1>1. PICK e : /\ FromPrimary(hd, q, e)
                 /\ \/ ~e.ok /\ o = e
                    \/ ~hd.dual /\ Follows(e, Ok(e.db, 0), o)
                    \/ hd.dual /\ \E r, f, d : /\ Safely(V, e.db.s, r) /\ FromSecondary(e.db, r, f)
                                               /\ Mirror(e.db, f, d) /\ Follows(e, d, o)
    BY Zenon DEF Mirrors
  <1>2. q \in Outcomes(V)
    BY HandleHolds DEF Mirrors, Safely
  <1>3. /\ e \in Results(V) /\ e.db \in HandlesOf(V) /\ e.ok = q.ok /\ e.db.p = q.db
        /\ e.db.dual = hd.dual
    BY <1>1, <1>2, OnPrimaryIs, ResultHolds DEF Holds
  <1>4. CASE hd.dual /\ \E r, f, d : /\ Safely(V, e.db.s, r) /\ FromSecondary(e.db, r, f)
                                     /\ Mirror(e.db, f, d) /\ Follows(e, d, o)
    <2>1. PICK r, f, d : /\ Safely(V, e.db.s, r) /\ FromSecondary(e.db, r, f)
                         /\ Mirror(e.db, f, d) /\ Follows(e, d, o)
      BY <1>4
    <2>2. r \in Outcomes(V)
      BY <1>3, <2>1, HandleHolds DEF Safely
    <2>3. f \in Results(V) /\ f.db.p = e.db.p /\ f.db \in HandlesOf(V)
      BY <1>3, <1>4, <2>1, <2>2, OnSecondaryIs, ResultHolds DEF Holds
    <2> DEFINE k == OutOfSync(f.db)
               x == ~e.db.active
    <2>4. k \in HandlesOf(V) /\ k.p = f.db.p /\ x \in BOOLEAN
      BY <2>3, OutOfSyncIs DEF Holds
    <2>5. d = f \/ d = [f EXCEPT !.db = k, !.ok = x]
      BY <2>1 DEF Mirror
    <2> HIDE DEF k, x
    <2>6. d = [f EXCEPT !.db = k, !.ok = x] => d \in Results(V) /\ d.db = k
      BY <2>3, <2>4, Zenon DEF Results
    <2>7. d \in Results(V) /\ d.db.p = e.db.p
      BY <2>3, <2>4, <2>5, <2>6
    <2>8. o \in Results(V) /\ o.db = d.db /\ e.ok
      BY <1>3, <2>1, <2>7, FollowsIs DEF Follows
    <2>9. QED  BY <1>3, <2>7, <2>8
  <1>5. CASE Follows(e, Ok(e.db, 0), o)
    <2>1. Ok(e.db, 0) \in Results(V) /\ Ok(e.db, 0).db = e.db
      BY <1>3 DEF Ok, Results
    <2>2. o \in Results(V) /\ o.db = e.db /\ e.ok
      BY <1>3, <1>5, <2>1, FollowsIs DEF Follows
    <2>3. QED  BY <1>3, <2>2
  <1>6. CASE ~e.ok /\ o = e
    BY <1>3, <1>6
  <1>7. QED  BY <1>1, <1>4, <1>5, <1>6

\* A verification.
Looks(b, q) == \E x \in fetch(b) : q = x \/ q = Err(x.db, x.faults)

LEMMA LooksIs ==
  ASSUME NEW V, NEW b, NEW q, Looks(b, q)
  PROVE  Safely(V, b, q)
  <1> SUFFICES ASSUME b \in SafeSessions(V)  PROVE q \in Outcomes(V)
    BY DEF Safely
  <1>1. PICK x \in fetch(b) : q = x \/ q = Err(x.db, x.faults)
    BY DEF Looks
  <1>2. x \in Outcomes(V) /\ x.db \in SafeSessions(V) /\ x.faults \in Nat
    BY Fetches DEF Outcomes
  <1>3. CASE q = Err(x.db, x.faults)
    BY <1>2, <1>3 DEF Err, Outcomes
  <1>4. QED  BY <1>1, <1>2, <1>3

\* A verification of every target.
Checks(hd, o) ==
    \E q, e : /\ Looks(hd.p, q) /\ FromPrimary(hd, q, e)
              /\ \/ o = e \/ Follows(e, Ok(e.db, 0), o)
                 \/ e.db.dual /\ \E r, f : /\ Looks(e.db.s, r) /\ FromSecondary(e.db, r, f)
                                           /\ Follows(e, f, o)

LEMMA ChecksIs ==
  ASSUME NEW V, NEW hd \in HandlesOf(V), NEW o, Checks(hd, o)
  PROVE  o \in Results(V)
  <1>1. \E q : Targeted(V, hd, q, o)
    BY LooksIs, Zenon DEF Checks, Targeted
  <1>2. QED  BY <1>1, TargetedIs

\* A statement on both.
LEMMA ExecuteIs ==
  ASSUME NEW V, NEW hd \in HandlesOf(V), NEW s, Fits(s, V), NEW o \in Execute(hd, s)
  PROVE  o \in Results(V) /\ (o.ok => o.db.p.open)
  <1> DEFINE F(b) == execute(b, s)
             Second(g) == {IF f.ok THEN f
                           ELSE [f EXCEPT !.db = OutOfSync(f.db), !.ok = ~g.active]
                           : f \in OnSecondary(g, F)}
             N(g) == IF hd.dual THEN Second(g) ELSE {Ok(g, 0)}
  <1>1. o \in Then(OnPrimary(hd, F), N)
    BY Zenon DEF Execute, Mirrored
  <1>2. \A b : \A q \in F(b) : Safely(V, b, q)
    BY Executes DEF Safely
  <1>3. \A q \in F(hd.p) : q.ok => q.db.open
    BY HandleHolds, Executes
  <1> HIDE DEF F
  <1>4. \A e \in OnPrimary(hd, F) : \E q \in F(hd.p) : FromPrimary(hd, q, e)
    BY <1>2, Zenon DEF OnPrimary, FromPrimary
  <1>5. \A g : \A d \in N(g) : \/ ~hd.dual /\ d = Ok(g, 0)
                               \/ hd.dual /\ \E r, f : /\ Safely(V, g.s, r) /\ FromSecondary(g, r, f)
                                                       /\ Mirror(g, f, d)
    BY <1>2, Zenon DEF OnSecondary, FromSecondary, Mirror
  <1> HIDE DEF N
  <1>6. PICK e \in OnPrimary(hd, F) : (~e.ok /\ o = e) \/ \E d \in N(e.db) : Follows(e, d, o)
    BY <1>1, Zenon DEF Then, Follows
  <1>7. \E q \in F(hd.p) : Mirrors(V, hd, q, o)
    BY <1>2, <1>4, <1>5, <1>6, Zenon DEF Mirrors
  <1>8. QED  BY <1>3, <1>7, MirrorsIs

\* verify_ck_coupled_tables.
CoupledCheck(hd) == CheckTargets(hd, LAMBDA cat : 
                \A t \in Tables : cat[t].kind \in STRICT_RECREATE => verify_storage(cat[t], FALSE))

LEMMA CoupledIs ==
  ASSUME NEW V, NEW hd \in HandlesOf(V), NEW o \in CoupledCheck(hd)
  PROVE  o \in Results(V) /\ Checks(hd, o)
  <1> DEFINE P(cat) == 
                \A t \in Tables : cat[t].kind \in STRICT_RECREATE => verify_storage(cat[t], FALSE)
             F(b) == Check(b, P)
             N(g) == IF g.dual /\ g.s.open THEN OnSecondary(g, F) ELSE {Ok(g, 0)}
  <1>1. o \in Then(OnPrimary(hd, F), N)
    BY Zenon DEF CoupledCheck, CheckTargets, OnTargets
  <1> HIDE DEF P
  <1>2. \A b : \A q \in F(b) : Looks(b, q)
    BY Zenon DEF Check, Looks
  <1> HIDE DEF F
  <1>3. \A e \in OnPrimary(hd, F) : \E q : Looks(hd.p, q) /\ FromPrimary(hd, q, e)
    BY <1>2, Zenon DEF OnPrimary, FromPrimary
  <1>4. \A g : \A f \in N(g) : \/ f = Ok(g, 0)
                               \/ g.dual /\ \E r : Looks(g.s, r) /\ FromSecondary(g, r, f)
    BY <1>2, Zenon DEF OnSecondary, FromSecondary
  <1> HIDE DEF N
  <1>5. PICK e \in OnPrimary(hd, F) : o = e \/ \E f \in N(e.db) : Follows(e, f, o)
    BY <1>1, Zenon DEF Then, Follows
  <1>6. Checks(hd, o)
    BY <1>3, <1>4, <1>5, Zenon DEF Checks
  <1>7. QED  BY <1>6, ChecksIs

\* _preflight_existing_strict_storage.
NativeCheck(hd) == CheckTargets(hd, LAMBDA cat : 
                \A t \in Tables : cat[t].kind \in STRICT_STORAGE /\ cat[t].there =>
                    verify_storage(cat[t], cat[t].kind \in ADDED_LATER))

LEMMA NativeIs ==
  ASSUME NEW V, NEW hd \in HandlesOf(V), NEW o \in NativeCheck(hd)
  PROVE  o \in Results(V) /\ Checks(hd, o)
  <1> DEFINE P(cat) == 
                \A t \in Tables : cat[t].kind \in STRICT_STORAGE /\ cat[t].there =>
                    verify_storage(cat[t], cat[t].kind \in ADDED_LATER)
             F(b) == Check(b, P)
             N(g) == IF g.dual /\ g.s.open THEN OnSecondary(g, F) ELSE {Ok(g, 0)}
  <1>1. o \in Then(OnPrimary(hd, F), N)
    BY Zenon DEF NativeCheck, CheckTargets, OnTargets
  <1> HIDE DEF P
  <1>2. \A b : \A q \in F(b) : Looks(b, q)
    BY Zenon DEF Check, Looks
  <1> HIDE DEF F
  <1>3. \A e \in OnPrimary(hd, F) : \E q : Looks(hd.p, q) /\ FromPrimary(hd, q, e)
    BY <1>2, Zenon DEF OnPrimary, FromPrimary
  <1>4. \A g : \A f \in N(g) : \/ f = Ok(g, 0)
                               \/ g.dual /\ \E r : Looks(g.s, r) /\ FromSecondary(g, r, f)
    BY <1>2, Zenon DEF OnSecondary, FromSecondary
  <1> HIDE DEF N
  <1>5. PICK e \in OnPrimary(hd, F) : o = e \/ \E f \in N(e.db) : Follows(e, f, o)
    BY <1>1, Zenon DEF Then, Follows
  <1>6. Checks(hd, o)
    BY <1>3, <1>4, <1>5, Zenon DEF Checks
  <1>7. QED  BY <1>6, ChecksIs

\* verify_table_schema.
GenericCheck(hd, t) == CheckTargets(hd, LAMBDA cat : verify_table_schema(cat[t], FALSE, FALSE))

LEMMA GenericIs ==
  ASSUME NEW V, NEW hd \in HandlesOf(V), NEW t, NEW o \in GenericCheck(hd, t)
  PROVE  o \in Results(V) /\ Checks(hd, o)
  <1> DEFINE P(cat) == verify_table_schema(cat[t], FALSE, FALSE)
             F(b) == Check(b, P)
             N(g) == IF g.dual /\ g.s.open THEN OnSecondary(g, F) ELSE {Ok(g, 0)}
  <1>1. o \in Then(OnPrimary(hd, F), N)
    BY Zenon DEF GenericCheck, CheckTargets, OnTargets
  <1> HIDE DEF P
  <1>2. \A b : \A q \in F(b) : Looks(b, q)
    BY Zenon DEF Check, Looks
  <1> HIDE DEF F
  <1>3. \A e \in OnPrimary(hd, F) : \E q : Looks(hd.p, q) /\ FromPrimary(hd, q, e)
    BY <1>2, Zenon DEF OnPrimary, FromPrimary
  <1>4. \A g : \A f \in N(g) : \/ f = Ok(g, 0)
                               \/ g.dual /\ \E r : Looks(g.s, r) /\ FromSecondary(g, r, f)
    BY <1>2, Zenon DEF OnSecondary, FromSecondary
  <1> HIDE DEF N
  <1>5. PICK e \in OnPrimary(hd, F) : o = e \/ \E f \in N(e.db) : Follows(e, f, o)
    BY <1>1, Zenon DEF Then, Follows
  <1>6. Checks(hd, o)
    BY <1>3, <1>4, <1>5, Zenon DEF Checks
  <1>7. QED  BY <1>6, ChecksIs

\* Of a table that was created.
CreatedCheck(hd, t, S) == CheckTargets(hd, LAMBDA cat : 
                verify_table_schema(cat[t], FALSE, FALSE)
                /\ (cat[t].kind \in S => verify_storage(cat[t], FALSE)))

LEMMA CreatedIs ==
  ASSUME NEW V, NEW hd \in HandlesOf(V), NEW t, NEW S, NEW o \in CreatedCheck(hd, t, S)
  PROVE  o \in Results(V) /\ Checks(hd, o)
  <1> DEFINE P(cat) == 
                verify_table_schema(cat[t], FALSE, FALSE)
                /\ (cat[t].kind \in S => verify_storage(cat[t], FALSE))
             F(b) == Check(b, P)
             N(g) == IF g.dual /\ g.s.open THEN OnSecondary(g, F) ELSE {Ok(g, 0)}
  <1>1. o \in Then(OnPrimary(hd, F), N)
    BY Zenon DEF CreatedCheck, CheckTargets, OnTargets
  <1> HIDE DEF P
  <1>2. \A b : \A q \in F(b) : Looks(b, q)
    BY Zenon DEF Check, Looks
  <1> HIDE DEF F
  <1>3. \A e \in OnPrimary(hd, F) : \E q : Looks(hd.p, q) /\ FromPrimary(hd, q, e)
    BY <1>2, Zenon DEF OnPrimary, FromPrimary
  <1>4. \A g : \A f \in N(g) : \/ f = Ok(g, 0)
                               \/ g.dual /\ \E r : Looks(g.s, r) /\ FromSecondary(g, r, f)
    BY <1>2, Zenon DEF OnSecondary, FromSecondary
  <1> HIDE DEF N
  <1>5. PICK e \in OnPrimary(hd, F) : o = e \/ \E f \in N(e.db) : Follows(e, f, o)
    BY <1>1, Zenon DEF Then, Follows
  <1>6. Checks(hd, o)
    BY <1>3, <1>4, <1>5, Zenon DEF Checks
  <1>7. QED  BY <1>6, ChecksIs

\* _preflight_standard_schema_migrations.
StandardCheck(hd, t) == CheckTargets(hd, LAMBDA cat : StandardContract(cat[t]))

LEMMA StandardIs ==
  ASSUME NEW V, NEW hd \in HandlesOf(V), NEW t, NEW o \in StandardCheck(hd, t)
  PROVE  o \in Results(V) /\ Checks(hd, o)
  <1> DEFINE P(cat) == StandardContract(cat[t])
             F(b) == Check(b, P)
             N(g) == IF g.dual /\ g.s.open THEN OnSecondary(g, F) ELSE {Ok(g, 0)}
  <1>1. o \in Then(OnPrimary(hd, F), N)
    BY Zenon DEF StandardCheck, CheckTargets, OnTargets
  <1> HIDE DEF P
  <1>2. \A b : \A q \in F(b) : Looks(b, q)
    BY Zenon DEF Check, Looks
  <1> HIDE DEF F
  <1>3. \A e \in OnPrimary(hd, F) : \E q : Looks(hd.p, q) /\ FromPrimary(hd, q, e)
    BY <1>2, Zenon DEF OnPrimary, FromPrimary
  <1>4. \A g : \A f \in N(g) : \/ f = Ok(g, 0)
                               \/ g.dual /\ \E r : Looks(g.s, r) /\ FromSecondary(g, r, f)
    BY <1>2, Zenon DEF OnSecondary, FromSecondary
  <1> HIDE DEF N
  <1>5. PICK e \in OnPrimary(hd, F) : o = e \/ \E f \in N(e.db) : Follows(e, f, o)
    BY <1>1, Zenon DEF Then, Follows
  <1>6. Checks(hd, o)
    BY <1>3, <1>4, <1>5, Zenon DEF Checks
  <1>7. QED  BY <1>6, ChecksIs

\* CREATE TABLE on both.
Creates(hd, t) == Mirrored(hd, LAMBDA b : ddl(b, [do |-> "create", table |-> t]))

LEMMA CreatesIs ==
  ASSUME NEW V, NEW hd \in HandlesOf(V), NEW t, NEW o \in Creates(hd, t)
  PROVE  o \in Results(V)
  <1> DEFINE F(b) == ddl(b, [do |-> "create", table |-> t])
             Second(g) == {IF f.ok THEN f
                           ELSE [f EXCEPT !.db = OutOfSync(f.db), !.ok = ~g.active]
                           : f \in OnSecondary(g, F)}
             N(g) == IF hd.dual THEN Second(g) ELSE {Ok(g, 0)}
  <1>1. o \in Then(OnPrimary(hd, F), N)
    BY Zenon DEF Creates, Mirrored
  <1>2. \A b : \A q \in F(b) : Safely(V, b, q)
    <2>1. Fits([do |-> "create", table |-> t], V)
      BY DEF Fits
    <2>2. QED  BY <2>1, Defines DEF Safely
  <1> HIDE DEF F
  <1>3. \A e \in OnPrimary(hd, F) : \E q \in F(hd.p) : FromPrimary(hd, q, e)
    BY <1>2, Zenon DEF OnPrimary, FromPrimary
  <1>4. \A g : \A d \in N(g) : \/ ~hd.dual /\ d = Ok(g, 0)
                               \/ hd.dual /\ \E r, f : /\ Safely(V, g.s, r) /\ FromSecondary(g, r, f)
                                                       /\ Mirror(g, f, d)
    BY <1>2, Zenon DEF OnSecondary, FromSecondary, Mirror
  <1> HIDE DEF N
  <1>5. PICK e \in OnPrimary(hd, F) : (~e.ok /\ o = e) \/ \E d \in N(e.db) : Follows(e, d, o)
    BY <1>1, Zenon DEF Then, Follows
  <1>6. \E q \in F(hd.p) : Mirrors(V, hd, q, o)
    BY <1>2, <1>3, <1>4, <1>5, Zenon DEF Mirrors
  <1>7. QED  BY <1>6, MirrorsIs

\* A row of a table that was verified on both.
Writes(hd, t) == Mirrored(hd, LAMBDA b : upsert(b, t))

LEMMA WritesIs ==
  ASSUME NEW V, NEW hd \in HandlesOf(V), NEW t \in V, NEW o \in Writes(hd, t)
  PROVE  o \in Results(V)
  <1> DEFINE F(b) == upsert(b, t)
             Second(g) == {IF f.ok THEN f
                           ELSE [f EXCEPT !.db = OutOfSync(f.db), !.ok = ~g.active]
                           : f \in OnSecondary(g, F)}
             N(g) == IF hd.dual THEN Second(g) ELSE {Ok(g, 0)}
  <1>1. o \in Then(OnPrimary(hd, F), N)
    BY Zenon DEF Writes, Mirrored
  <1>2. \A b : \A q \in F(b) : Safely(V, b, q)
    BY Upserts DEF Safely
  <1> HIDE DEF F
  <1>3. \A e \in OnPrimary(hd, F) : \E q \in F(hd.p) : FromPrimary(hd, q, e)
    BY <1>2, Zenon DEF OnPrimary, FromPrimary
  <1>4. \A g : \A d \in N(g) : \/ ~hd.dual /\ d = Ok(g, 0)
                               \/ hd.dual /\ \E r, f : /\ Safely(V, g.s, r) /\ FromSecondary(g, r, f)
                                                       /\ Mirror(g, f, d)
    BY <1>2, Zenon DEF OnSecondary, FromSecondary, Mirror
  <1> HIDE DEF N
  <1>5. PICK e \in OnPrimary(hd, F) : (~e.ok /\ o = e) \/ \E d \in N(e.db) : Follows(e, d, o)
    BY <1>1, Zenon DEF Then, Follows
  <1>6. \E q \in F(hd.p) : Mirrors(V, hd, q, o)
    BY <1>2, <1>3, <1>4, <1>5, Zenon DEF Mirrors
  <1>7. QED  BY <1>6, MirrorsIs

\* migrate_table_if_needed.
LEMMA MigrateIs ==
  ASSUME NEW V, NEW hd \in HandlesOf(V), NEW t, NEW c,
         NEW o \in migrate_table_if_needed(hd, t, c)
  PROVE  o \in Results(V)
  <1> DEFINE F(b) == MigrateOne(b, t, c)
             N(g) == IF g.dual /\ g.s.open THEN OnSecondary(g, F) ELSE {Ok(g, 0)}
  <1>1. o \in Then(OnPrimary(hd, F), N)
    BY Zenon DEF migrate_table_if_needed, OnTargets
  <1>2. \A b : \A q \in F(b) : Safely(V, b, q)
    BY Migrates DEF Safely
  <1> HIDE DEF F
  <1>3. \A e \in OnPrimary(hd, F) : \E q : Safely(V, hd.p, q) /\ FromPrimary(hd, q, e)
    BY <1>2, Zenon DEF OnPrimary, FromPrimary
  <1>4. \A g : \A f \in N(g) : \/ f = Ok(g, 0)
                               \/ g.dual /\ \E r : Safely(V, g.s, r) /\ FromSecondary(g, r, f)
    BY <1>2, Zenon DEF OnSecondary, FromSecondary
  <1> HIDE DEF N
  <1>5. PICK e \in OnPrimary(hd, F) : o = e \/ \E f \in N(e.db) : Follows(e, f, o)
    BY <1>1, Zenon DEF Then, Follows
  <1>6. \E q : Targeted(V, hd, q, o)
    BY <1>3, <1>4, <1>5, Zenon DEF Targeted
  <1>7. QED  BY <1>6, TargetedIs

\* resolve_standard_table_name of one database, and of those it asks.
Knows(b, t) == table_exists(b, t, LAMBDA x : {Ok(x, 0)},
                   LAMBDA x : {IF LegacyOnly(x.seen.cat[t]) THEN Err(x, 0) ELSE Ok(x, 0)})

LEMMA KnowsIs ==
  ASSUME NEW V, NEW b \in SafeSessions(V), NEW t, NEW o \in Knows(b, t)
  PROVE  o \in Outcomes(V)
  <1> DEFINE There(x) == {Ok(x, 0)}
             Absent(x) == {IF LegacyOnly(x.seen.cat[t]) THEN Err(x, 0) ELSE Ok(x, 0)}
  <1>1. Knows(b, t) =
          UNION {{[p EXCEPT !.faults = @ + e.faults]
                  : p \in IF e.ok /\ e.db.seen.cat[t].there THEN There(e.db) ELSE Absent(e.db)}
                 : e \in fetch(b)}
    BY Zenon DEF Knows, table_exists
  <1>2. \A x : \A p \in There(x) \cup Absent(x) : p = Ok(x, 0) \/ p = Err(x, 0)
    BY Zenon
  <1> HIDE DEF There, Absent
  <1>3. PICK e \in fetch(b) :
          o \in {[p EXCEPT !.faults = @ + e.faults]
                 : p \in IF e.ok /\ e.db.seen.cat[t].there THEN There(e.db) ELSE Absent(e.db)}
    BY <1>1, Zenon
  <1>4. PICK p \in There(e.db) \cup Absent(e.db) : o = [p EXCEPT !.faults = @ + e.faults]
    BY <1>3, Zenon
  <1>5. e.db \in SafeSessions(V) /\ e.faults \in Nat
    BY Fetches DEF Outcomes
  <1>6. Ok(e.db, 0) \in Outcomes(V)
    BY <1>5 DEF Ok, Outcomes
  <1>7. Err(e.db, 0) \in Outcomes(V)
    BY <1>5 DEF Err, Outcomes
  <1>8. p \in Outcomes(V)
    BY <1>2, <1>4, <1>6, <1>7
  <1>9. QED  BY <1>4, <1>5, <1>8, SummedIs

LEMMA ResolveIs ==
  ASSUME NEW V, NEW hd \in HandlesOf(V), NEW t, NEW o \in resolve_standard_table_name(hd, t)
  PROVE  o \in Results(V)
  <1> DEFINE F(b) == Knows(b, t)
             N(g) == IF g.dual /\ g.s.open THEN OnSecondary(g, F) ELSE {Ok(g, 0)}
  <1>1. o \in OnPrimary(hd, F) \/ o \in Then(OnPrimary(hd, F), N)
    BY Zenon DEF resolve_standard_table_name, OnTargets, Knows
  <1>2. \A b : \A q \in F(b) : Safely(V, b, q)
    BY KnowsIs DEF Safely
  <1> HIDE DEF F
  <1>3. \A e \in OnPrimary(hd, F) : \E q : Safely(V, hd.p, q) /\ FromPrimary(hd, q, e)
    BY <1>2, Zenon DEF OnPrimary, FromPrimary
  <1>4. \A g : \A f \in N(g) : \/ f = Ok(g, 0)
                               \/ g.dual /\ \E r : Safely(V, g.s, r) /\ FromSecondary(g, r, f)
    BY <1>2, Zenon DEF OnSecondary, FromSecondary
  <1> HIDE DEF N
  <1>5. PICK e \in OnPrimary(hd, F) : o = e \/ \E f \in N(e.db) : Follows(e, f, o)
    BY <1>1, Zenon DEF Then, Follows
  <1>6. \E q : Targeted(V, hd, q, o)
    BY <1>3, <1>4, <1>5, Zenon DEF Targeted
  <1>7. QED  BY <1>6, TargetedIs

\* A read of the primary.
LEMMA FetchIs ==
  ASSUME NEW V, NEW hd \in HandlesOf(V), NEW o \in OnPrimary(hd, fetch)
  PROVE  o \in Results(V)
  <1>1. PICK q \in fetch(hd.p) : FromPrimary(hd, q, o)
    BY Zenon DEF OnPrimary, FromPrimary
  <1>2. q \in Outcomes(V)
    BY <1>1, HandleHolds, Fetches
  <1>3. QED  BY <1>1, <1>2, OnPrimaryIs

\* create_all_tables for one table.
TableCreated(hd, t, S) ==
    CreateTable(hd, t, LAMBDA x : x.kind \in S => verify_storage(x, FALSE))

LEMMA TableCreatedIs ==
  ASSUME NEW V, NEW hd \in HandlesOf(V), NEW t, NEW S, NEW o \in TableCreated(hd, t, S)
  PROVE  o \in Results(V)
  <1> DEFINE N(g) == CreatedCheck(g, t, S)
  <1>1. o \in Then(Creates(hd, t), N)
    BY Zenon DEF TableCreated, CreateTable, Creates, CreatedCheck
  <1>2. \A g \in HandlesOf(V) : \A f \in N(g) : f \in Results(V)
    BY CreatedIs
  <1> HIDE DEF N
  <1>3. PICK e \in Creates(hd, t) : o = e \/ \E f \in N(e.db) : Follows(e, f, o)
    BY <1>1, Zenon DEF Then, Follows
  <1>4. e \in Results(V) /\ e.db \in HandlesOf(V)
    BY CreatesIs, ResultHolds
  <1>5. QED  BY <1>2, <1>3, <1>4, FollowsIs

\* The standard preflight of one table.
CheckedThere(hd, t) == IfThere(hd, t, LAMBDA g : StandardCheck(g, t))

LEMMA CheckedThereIs ==
  ASSUME NEW V, NEW hd \in HandlesOf(V), NEW t, NEW o \in CheckedThere(hd, t)
  PROVE  o \in Results(V)
  <1> DEFINE F(g) == StandardCheck(g, t)
             N(e) == IF e.ok /\ e.db.p.seen.cat[t].there THEN F(e.db) ELSE {Ok(e.db, 0)}
  <1>1. CheckedThere(hd, t) =
          UNION {{[q EXCEPT !.faults = @ + e.faults] : q \in N(e)} : e \in OnPrimary(hd, fetch)}
    BY Zenon DEF CheckedThere, IfThere
  <1>2. \A e : e.db \in HandlesOf(V) => \A q \in N(e) : q \in Results(V) \/ q = Ok(e.db, 0)
    BY StandardIs
  <1> HIDE DEF N
  <1>3. PICK e \in OnPrimary(hd, fetch) : o \in {[q EXCEPT !.faults = @ + e.faults] : q \in N(e)}
    BY <1>1, Zenon
  <1>4. PICK q \in N(e) : o = [q EXCEPT !.faults = @ + e.faults]
    BY <1>3, Zenon
  <1>5. e.db \in HandlesOf(V) /\ e.faults \in Nat
    BY FetchIs, ResultHolds
  <1>6. Ok(e.db, 0) \in Results(V)
    BY <1>5 DEF Ok, Results
  <1>7. QED  BY <1>2, <1>4, <1>5, <1>6, CountedIs

LEMMA StandardPreflightIs ==
  ASSUME NEW V, NEW hd \in HandlesOf(V), NEW t, NEW o \in StandardPreflight(hd, t)
  PROVE  o \in Results(V)
  <1> DEFINE N(g) == CheckedThere(g, t)
  <1>1. o \in Then(resolve_standard_table_name(hd, t), N)
    BY Zenon DEF StandardPreflight, CheckedThere, StandardCheck
  <1>2. \A g \in HandlesOf(V) : \A f \in N(g) : f \in Results(V)
    BY CheckedThereIs
  <1> HIDE DEF N
  <1>3. PICK e \in resolve_standard_table_name(hd, t) :
          o = e \/ \E f \in N(e.db) : Follows(e, f, o)
    BY <1>1, Zenon DEF Then, Follows
  <1>4. e \in Results(V) /\ e.db \in HandlesOf(V)
    BY ResolveIs, ResultHolds
  <1>5. QED  BY <1>2, <1>3, <1>4, FollowsIs

\* The standard upgrade of a table that is there; only: nothing is added,
\* later: its writer verifies it.
Upgraded(g, t, c, only, later) ==
    Then(IF only THEN {Ok(g, 0)} ELSE migrate_table_if_needed(g, t, c),
         LAMBDA x : IF later THEN {Ok(x, 0)} ELSE GenericCheck(x, t))

LEMMA UpgradedTableIs ==
  ASSUME NEW V, NEW hd \in HandlesOf(V), NEW t, NEW c, NEW only, NEW later,
         NEW o \in Upgraded(hd, t, c, only, later)
  PROVE  o \in Results(V)
  <1> DEFINE S == IF only THEN {Ok(hd, 0)} ELSE migrate_table_if_needed(hd, t, c)
             N(g) == IF later THEN {Ok(g, 0)} ELSE GenericCheck(g, t)
  <1>1. o \in Then(S, N)
    BY Zenon DEF Upgraded
  <1>2. \A g \in HandlesOf(V) : Ok(g, 0) \in Results(V)
    BY DEF Ok, Results
  <1>3. \A g \in HandlesOf(V) : \A f \in N(g) : f \in Results(V)
    BY <1>2, GenericIs
  <1>4. \A e \in S : e \in Results(V)
    BY <1>2, MigrateIs
  <1> HIDE DEF S, N
  <1>5. PICK e \in S : o = e \/ \E f \in N(e.db) : Follows(e, f, o)
    BY <1>1, Zenon DEF Then, Follows
  <1>6. e \in Results(V) /\ e.db \in HandlesOf(V)
    BY <1>4, ResultHolds
  <1>7. QED  BY <1>3, <1>5, <1>6, FollowsIs

LEMMA StandardMigrateIs ==
  ASSUME NEW V, NEW hd \in HandlesOf(V), NEW t, NEW c, NEW o \in StandardMigrate(hd, t, c)
  PROVE  o \in Results(V)
  <1> DEFINE only == Kind(hd, t) \in NONADDITIVE_STANDARD
             later == Kind(hd, t) \in ORDERED_MASTER
             F(g) == Upgraded(g, t, c, only, later)
             N(e) == IF e.ok /\ e.db.p.seen.cat[t].there THEN F(e.db) ELSE {Ok(e.db, 0)}
  <1>1. StandardMigrate(hd, t, c) =
          UNION {{[q EXCEPT !.faults = @ + e.faults] : q \in N(e)} : e \in OnPrimary(hd, fetch)}
    BY Zenon DEF StandardMigrate, IfThere, Upgraded, GenericCheck
  <1> HIDE DEF only, later
  <1>3. \A e : e.db \in HandlesOf(V) => \A q \in N(e) : q \in Results(V) \/ q = Ok(e.db, 0)
    BY UpgradedTableIs
  <1> HIDE DEF N
  <1>4. PICK e \in OnPrimary(hd, fetch) : o \in {[q EXCEPT !.faults = @ + e.faults] : q \in N(e)}
    BY <1>1, Zenon
  <1>5. PICK q \in N(e) : o = [q EXCEPT !.faults = @ + e.faults]
    BY <1>4, Zenon
  <1>6. e.db \in HandlesOf(V) /\ e.faults \in Nat
    BY FetchIs, ResultHolds
  <1>7. Ok(e.db, 0) \in Results(V)
    BY <1>6 DEF Ok, Results
  <1>8. QED  BY <1>3, <1>5, <1>6, <1>7, CountedIs

LEMMA NativePreflightIs ==
  ASSUME NEW V, NEW hd \in HandlesOf(V), NEW o \in NativePreflight(hd)
  PROVE  o \in Results(V)
  <1>1. o \in CloseAfter(NativeCheck(hd), Snapshot(hd))
    BY Zenon DEF NativePreflight, Guarded, CloseAfter, NativeCheck
  <1>2. NativeCheck(hd) \subseteq Results(V)
    BY NativeIs
  <1>3. QED  BY <1>1, <1>2, CloseAfterIs

\* Sessions of more verified tables are sessions of fewer.
LEMMA FewerIs ==
  ASSUME NEW V, NEW t, NEW o \in Results(V \cup {t})
  PROVE  o \in Results(V)
  <1>1. \A b \in SafeSessions(V \cup {t}) : b \in SafeSessions(V)
    BY DEF SafeSessions, SafeSession
  <1>2. o.db \in HandlesOf(V \cup {t})
    BY DEF Results
  <1>3. o.db.p \in SafeSessions(V) /\ o.db.s \in SafeSessions(V)
    BY <1>1, ResultHolds
  <1>4. o.db \in HandlesOf(V)
    BY <1>2, <1>3, Zenon DEF HandlesOf, HandleShapes
  <1>5. QED  BY <1>4 DEF Results

\* The verification of a writer makes one table more a verified one.
RowCheck(hd, t) == CheckTargets(hd, LAMBDA cat : verify_storage(cat[t], FALSE))

LEMMA LookedIs ==
  ASSUME NEW V, NEW t, NEW b \in SafeSessions(V),
         ~b.open \/ (t \in Tables => verify_storage(b.seen.cat[t], FALSE))
  PROVE  b \in SafeSessions(V \cup {t})
  <1>1. b \in SessionShapes /\ SafeSession(b, V)
    BY DEF SafeSessions
  <1>2. t \in Tables => b.seen.cat[t] \in TableStates
    BY <1>1 DEF SessionShapes, Rows
  <1>3. b.open /\ t \in Tables => Sound(b.driver, b.seen.cat[t])
    BY <1>2, VerifiedIsSound
  <1>4. SafeSession(b, V \cup {t})
    BY <1>1, <1>3 DEF SafeSession
  <1>5. QED  BY <1>1, <1>4 DEF SafeSessions

LEMMA RowCheckIs ==
  ASSUME NEW V, NEW hd \in HandlesOf(V), NEW t, NEW o \in RowCheck(hd, t)
  PROVE  o \in Results(V) /\ (o.ok => o \in Results(V \cup {t}))
  <1> DEFINE P(cat) == verify_storage(cat[t], FALSE)
             F(b) == Check(b, P)
             N(g) == IF g.dual /\ g.s.open THEN OnSecondary(g, F) ELSE {Ok(g, 0)}
  <1>1. o \in Then(OnPrimary(hd, F), N)
    BY Zenon DEF RowCheck, CheckTargets, OnTargets
  <1>2. \A b : \A q \in F(b) : Looks(b, q) /\ (q.ok => verify_storage(q.db.seen.cat[t], FALSE))
    <2>1. \A b : \A q \in F(b) : \E x \in fetch(b) :
             q = IF x.ok /\ ~P(x.db.seen.cat) THEN Err(x.db, x.faults) ELSE x
      BY Zenon DEF Check
    <2> HIDE DEF F
    <2>2. TAKE b
    <2>3. TAKE q \in F(b)
    <2>4. PICK x \in fetch(b) : q = IF x.ok /\ ~P(x.db.seen.cat) THEN Err(x.db, x.faults) ELSE x
      BY <2>1
    <2>5. CASE x.ok /\ ~P(x.db.seen.cat)
      BY <2>4, <2>5 DEF Err, Looks
    <2>6. CASE ~(x.ok /\ ~P(x.db.seen.cat))
      BY <2>4, <2>6 DEF Looks
    <2>7. QED  BY <2>5, <2>6
  <1> HIDE DEF F
  <1>3. \A b \in SafeSessions(V) : \A q \in F(b) :
          q \in Outcomes(V) /\ (q.ok => q.db \in SafeSessions(V \cup {t}))
    <2>1. TAKE b \in SafeSessions(V)
    <2>2. TAKE q \in F(b)
    <2>3. Looks(b, q) /\ (q.ok => verify_storage(q.db.seen.cat[t], FALSE))
      BY <1>2
    <2>4. q \in Outcomes(V)
      BY <2>3, LooksIs DEF Safely
    <2>5. q.db \in SafeSessions(V)
      BY <2>4 DEF Outcomes
    <2>6. QED  BY <2>3, <2>4, <2>5, LookedIs
  <1>4. PICK e \in OnPrimary(hd, F) : (~e.ok /\ o = e) \/ \E f \in N(e.db) : Follows(e, f, o)
    BY <1>1, Zenon DEF Then, Follows
  <1>5. PICK q \in F(hd.p) : FromPrimary(hd, q, e)
    BY Zenon DEF OnPrimary, FromPrimary
  <1> HIDE DEF P, N
  <1>10. q \in Outcomes(V) /\ (q.ok => q.db \in SafeSessions(V \cup {t}))
    BY <1>3, HandleHolds
  <1>11. e \in Results(V) /\ e.ok = q.ok /\ e.db.p = q.db
    BY <1>5, <1>10, OnPrimaryIs DEF Holds
  <1>6. /\ e \in Results(V) /\ e.db \in HandlesOf(V) /\ e.ok = q.ok /\ e.db.p = q.db
        /\ (q.ok => e.db.p \in SafeSessions(V \cup {t}))
    BY <1>10, <1>11, ResultHolds
  <1>7. CASE ~e.ok /\ o = e
    BY <1>6, <1>7
  <1>8. CASE \E f \in N(e.db) : Follows(e, f, o)
    <2>1. PICK f \in N(e.db) : Follows(e, f, o)
      BY <1>8
    <2>2. /\ f \in Results(V) /\ f.db.p = e.db.p
          /\ (f.ok => f.db.s \in SafeSessions(V \cup {t}))
      <3>1. CASE e.db.dual /\ e.db.s.open
        <4>1. PICK r \in F(e.db.s) : FromSecondary(e.db, r, f)
          BY <2>1, <3>1, Zenon DEF N, OnSecondary, FromSecondary
        <4>2. r \in Outcomes(V) /\ (r.ok => r.db \in SafeSessions(V \cup {t}))
          BY <1>3, <1>6, HandleHolds
        <4>3. QED  BY <1>6, <3>1, <4>1, <4>2, OnSecondaryIs DEF Holds
      <3>2. CASE ~(e.db.dual /\ e.db.s.open)
        <4>1. f = Ok(e.db, 0)
          BY <2>1, <3>2, Zenon DEF N
        <4>2. f \in Results(V) /\ f.db = e.db
          BY <1>6, <4>1 DEF Ok, Results
        <4>3. ~e.db.s.open
          BY <1>6, <3>2 DEF HandlesOf
        <4>4. e.db.s \in SafeSessions(V \cup {t})
          BY <1>6, <4>3, HandleHolds, LookedIs
        <4>5. QED  BY <4>2, <4>4
      <3>3. QED  BY <3>1, <3>2
    <2>3. o \in Results(V) /\ o.db = f.db /\ o.ok = f.ok /\ e.ok
      BY <1>6, <2>1, <2>2, FollowsIs DEF Follows
    <2>4. o.ok => o.db.p \in SafeSessions(V \cup {t}) /\ o.db.s \in SafeSessions(V \cup {t})
      BY <1>6, <2>2, <2>3
    <2>5. o.ok => o.db \in HandlesOf(V \cup {t})
      BY <2>3, <2>4, ResultHolds, Zenon DEF HandlesOf, HandleShapes
    <2>6. QED  BY <2>3, <2>5 DEF Results
  <1>9. QED  BY <1>4, <1>7, <1>8

\* The row of a type whose table is verified first, unless it was.
Verified(V, hd, t) == IF t \in V THEN {Ok(hd, 0)} ELSE RowCheck(hd, t)
RowWritten(V, hd, t) == Then(Verified(V, hd, t), LAMBDA g : Writes(g, t))

LEMMA RowWrittenIs ==
  ASSUME NEW V, NEW hd \in HandlesOf(V), NEW t, NEW o \in RowWritten(V, hd, t)
  PROVE  o \in Results(V) /\ (o.ok => o \in Results(V \cup {t}))
  <1> DEFINE N(g) == Writes(g, t)
  <1>1. o \in Then(Verified(V, hd, t), N)
    BY Zenon DEF RowWritten
  <1>2. \A g \in HandlesOf(V \cup {t}) : \A f \in N(g) : f \in Results(V \cup {t})
    BY WritesIs
  <1> HIDE DEF N
  <1>3. PICK e \in Verified(V, hd, t) : (~e.ok /\ o = e) \/ \E f \in N(e.db) : Follows(e, f, o)
    BY <1>1, Zenon DEF Then, Follows
  <1>4. e \in Results(V) /\ (e.ok => e \in Results(V \cup {t}))
    <2>1. CASE t \in V
      <3>1. e = Ok(hd, 0)
        BY <2>1, Zenon DEF Verified
      <3>2. V = V \cup {t}
        BY <2>1
      <3>3. Ok(hd, 0) \in Results(V)
        BY DEF Ok, Results
      <3>4. QED  BY <3>1, <3>2, <3>3
    <2>2. CASE t \notin V
      <3>1. e \in RowCheck(hd, t)
        BY <2>2 DEF Verified
      <3>2. QED  BY <3>1, RowCheckIs
    <2>3. QED  BY <2>1, <2>2
  <1>5. CASE \E f \in N(e.db) : Follows(e, f, o)
    <2>1. PICK f \in N(e.db) : Follows(e, f, o)
      BY <1>5
    <2>2. e \in Results(V \cup {t}) /\ e.db \in HandlesOf(V \cup {t})
      BY <1>4, <2>1, ResultHolds DEF Follows
    <2>3. o \in Results(V \cup {t})
      BY <1>2, <2>1, <2>2, FollowsIs
    <2>4. QED  BY <2>3, FewerIs
  <1>6. QED  BY <1>3, <1>4, <1>5

-----------------------------------------------------------------------------
(***************************************************************************)
(* The invariant: the handle is one under which the tables the writers     *)
(* verified are sound, and none stays verified once the handle is closed.  *)
(***************************************************************************)
SoundHandle ==
    /\ db \in HandlesOf(verified)
    /\ job.at = "idle" => verified = {} \/ db.p.open
    /\ "at" \in DOMAIN job

\* The first sessions: nothing was written yet.
LEMMA BackendIs ==
  ASSUME NEW d \in Drivers, NEW f \in [Tables -> TableStates],
         NEW r, r = [cat |-> f, row |-> [t \in Tables |-> "none"], own |-> FALSE]
  PROVE  Backend(d, r) \in SafeSessions({})
  <1> DEFINE b == Backend(d, r)
             n == [t \in Tables |-> "none"]
  <1>1. n \in [Tables -> {"none", "kept", "refused", "harmed"}]
    OBVIOUS
  <1>2. \A t \in Tables : n[t] = "none"
    OBVIOUS
  <1> HIDE DEF n
  <1>3. r \in Rows /\ r.row = n
    BY <1>1, Zenon DEF Rows, n
  <1>4. RowsSafe(r) /\ Grown(r, r)
    BY <1>2, <1>3 DEF RowsSafe, Grown, Alike
  <1>5. b \in SessionShapes /\ b.store = r /\ b.seen = r
    BY <1>3, Zenon DEF SessionShapes, Backend
  <1> HIDE DEF b
  <1>6. b \in SafeSessions({})
    BY <1>4, <1>5 DEF SafeSessions, SafeSession, OwnSound
  <1>7. QED  BY <1>6 DEF b

LEMMA OpenedIs ==
  ASSUME NEW b \in SafeSessions({}), NEW x \in BOOLEAN
  PROVE  [b EXCEPT !.open = x] \in SafeSessions({}) /\ [b EXCEPT !.open = x].open = x
  <1> DEFINE c == [b EXCEPT !.open = x]
  <1>1. b \in SessionShapes /\ SafeSession(b, {})
    BY DEF SafeSessions
  <1>2. /\ c \in SessionShapes /\ c.store = b.store /\ c.seen = b.seen /\ c.open = x
        /\ c.driver = b.driver /\ c.dirty = b.dirty /\ c.active = b.active
    BY <1>1, Zenon DEF SessionShapes
  <1> HIDE DEF c
  <1>3. c \in SafeSessions({})
    BY <1>1, <1>2 DEF SafeSessions, SafeSession, OwnSound
  <1>4. QED  BY <1>2, <1>3 DEF c

LEMMA SituationIs ==
  ASSUME NEW c \in Cases
  PROVE  Situation(c) \in HandlesOf({})
  <1> DEFINE rows(cat) == [cat |-> cat, row |-> [t \in Tables |-> "none"], own |-> FALSE]
             h == Handle(c.dual, c.p, c.s, rows(c.pcat))
             other == Backend(c.s, rows(c.scat))
             g == IF c.dual THEN [h EXCEPT !.s = other] ELSE h
             x == c.dual /\ c.sopen
             p == [g.p EXCEPT !.open = TRUE]
             s == [g.s EXCEPT !.open = x]
             k == [g EXCEPT !.p = p, !.s = s]
  <1>1. /\ c.dual \in BOOLEAN /\ c.p \in Drivers /\ c.s \in Drivers /\ c.sopen \in BOOLEAN
        /\ c.pcat \in [Tables -> TableStates] /\ c.scat \in [Tables -> TableStates]
    BY CasesAreTyped
  <1>2. /\ Backend(c.p, rows(c.pcat)) \in SafeSessions({})
        /\ Backend(c.s, rows(c.pcat)) \in SafeSessions({})
        /\ other \in SafeSessions({})
    BY <1>1, BackendIs
  <1> HIDE DEF other, rows
  <1>3. h \in HandleShapes({}) /\ h.dual = c.dual
    BY <1>1, <1>2, Zenon DEF HandleShapes, Handle
  <1>4. Situation(c) = k
    BY <1>3, Zenon DEF Situation, other, rows, HandleShapes
  <1> HIDE DEF h
  <1>5. [h EXCEPT !.s = other] \in HandleShapes({}) /\ [h EXCEPT !.s = other].dual = c.dual
    BY <1>2, <1>3, Zenon DEF HandleShapes
  <1>6. g \in HandleShapes({}) /\ g.dual = c.dual
    BY <1>3, <1>5
  <1> HIDE DEF g
  <1>7. p \in SafeSessions({}) /\ s \in SafeSessions({}) /\ s.open = x
    <2>1. g.p \in SafeSessions({}) /\ g.s \in SafeSessions({})
      BY <1>6 DEF HandleShapes
    <2>2. x \in BOOLEAN
      BY <1>1
    <2> HIDE DEF x
    <2>3. QED  BY <2>1, <2>2, OpenedIs
  <1> HIDE DEF p, s
  <1>8. k \in HandleShapes({}) /\ k.dual = c.dual /\ k.s = s
    BY <1>6, <1>7, Zenon DEF HandleShapes
  <1> HIDE DEF k
  <1>9. QED  BY <1>4, <1>7, <1>8 DEF HandlesOf

LEMMA InitIsSound == Init => SoundHandle
  <1> SUFFICES ASSUME Init  PROVE SoundHandle
    OBVIOUS
  <1>1. PICK c \in Cases : db = Situation(c) /\ job = [Idle EXCEPT !.cmd = c.cmd] /\ verified = {}
    BY DEF Init
  <1>2. db \in HandlesOf(verified)
    BY <1>1, SituationIs
  <1>3. "at" \in DOMAIN job
    BY <1>1 DEF Idle
  <1>4. QED  BY <1>1, <1>2, <1>3 DEF SoundHandle

\* The end of a session.
LEMMA EndedIs ==
  ASSUME NEW V, NEW hd \in HandlesOf(V)
  PROVE  Ended(hd) \in HandlesOf({})
  <1> DEFINE p == Closed(hd.p)
             s == Closed(hd.s)
             k == [hd EXCEPT !.p = p, !.s = s, !.active = FALSE, !.invalid = FALSE]
  <1>1. hd.p \in SafeSessions(V) /\ hd.s \in SafeSessions(V)
    BY HandleHolds
  <1>2. Derived(hd.p, p) /\ Derived(hd.s, s) /\ ~s.open
    BY <1>1, ClosedIs DEF SafeSessions
  <1>3. \A b \in SafeSessions(V) : b \in SafeSessions({})
    BY DEF SafeSessions, SafeSession
  <1>4. p \in SafeSessions({}) /\ s \in SafeSessions({})
    BY <1>1, <1>2, <1>3, DerivedIsSafe
  <1>5. Ended(hd) = k
    BY DEF Ended
  <1> HIDE DEF p, s
  <1>6. k \in HandleShapes({}) /\ k.s = s
    BY <1>4, Zenon DEF HandlesOf, HandleShapes
  <1> HIDE DEF k
  <1>7. QED  BY <1>2, <1>5, <1>6 DEF HandlesOf

\* The row of the caller: what it returns from is a session.
OwnWritten(hd) == Then(Begin(hd), LAMBDA g : Execute(g, [do |-> "own"]))

LEMMA OwnWrittenIs ==
  ASSUME NEW V, NEW hd \in HandlesOf(V), NEW o \in OwnWritten(hd)
  PROVE  o \in Results(V) /\ (o.ok => o.db.p.open)
  <1> DEFINE N(g) == Execute(g, [do |-> "own"])
  <1>1. o \in Then(Begin(hd), N)
    BY Zenon DEF OwnWritten
  <1>2. Fits([do |-> "own"], V)
    BY DEF Fits
  <1>3. \A g \in HandlesOf(V) : \A f \in N(g) : f \in Results(V) /\ (f.ok => f.db.p.open)
    BY <1>2, ExecuteIs
  <1> HIDE DEF N
  <1>4. PICK e \in Begin(hd) : (~e.ok /\ o = e) \/ \E f \in N(e.db) : Follows(e, f, o)
    BY <1>1, Zenon DEF Then, Follows
  <1>5. e \in Results(V) /\ e.db \in HandlesOf(V)
    BY BeginIs, ResultHolds
  <1>6. CASE \E f \in N(e.db) : Follows(e, f, o)
    <2>1. PICK f \in N(e.db) : Follows(e, f, o)
      BY <1>6
    <2>2. f \in Results(V) /\ (f.ok => f.db.p.open)
      BY <1>3, <1>5, <2>1
    <2>3. QED  BY <1>5, <2>1, <2>2, FollowsIs
  <1>7. QED  BY <1>4, <1>5, <1>6

\* What a step of a command leads to: it goes on, or raises.
LEMMA AdvanceIs ==
  ASSUME "at" \in DOMAIN job, job.at = "run", NEW o, Advance(o)
  PROVE  job'.at \in {"run", "raising"} /\ "at" \in DOMAIN job'
  BY DEF Advance

\* A step of a command keeps the invariant.
LEMMA StepIs ==
  ASSUME SoundHandle, job.at = "run", NEW o \in Results(verified), Take(o), Advance(o),
         verified' = verified
  PROVE  SoundHandle'
  <1>1. db' \in HandlesOf(verified')
    BY ResultHolds DEF Take
  <1>2. job'.at # "idle" /\ "at" \in DOMAIN job'
    BY AdvanceIs DEF SoundHandle
  <1>3. QED  BY <1>1, <1>2 DEF SoundHandle

\* A step that leaves the handle alone.
LEMMA MarkIs ==
  ASSUME SoundHandle, db' = db, verified' = verified, job'.at # "idle", "at" \in DOMAIN job'
  PROVE  SoundHandle'
  BY DEF SoundHandle

LEMMA NextIsSound == SoundHandle /\ [Next]_vars => SoundHandle'
  <1> SUFFICES ASSUME SoundHandle, [Next]_vars  PROVE SoundHandle'
    OBVIOUS
  <1>1. db \in HandlesOf(verified) /\ "at" \in DOMAIN job
    BY DEF SoundHandle
  <1>2. CASE CallerWrites
    <2>1. PICK o \in OwnWritten(db) :
            /\ db' = o.db /\ job.at = "idle"
            /\ job' = IF o.ok THEN [job EXCEPT !.own = TRUE] ELSE [job EXCEPT !.at = "raised"]
      BY <1>2, Zenon DEF CallerWrites, OwnWritten, Take
    <2>2. verified' = verified
      BY <1>2 DEF CallerWrites
    <2>3. o.db \in HandlesOf(verified) /\ (o.ok => o.db.p.open)
      BY <1>1, OwnWrittenIs, ResultHolds
    <2>4. "at" \in DOMAIN job' /\ (~o.ok => job'.at = "raised")
      BY <1>1, <2>1
    <2>5. QED  BY <2>1, <2>2, <2>3, <2>4 DEF SoundHandle
  <1>3. CASE Start
    <2>1. job'.at = "run" /\ "at" \in DOMAIN job'
      BY <1>1, <1>3 DEF Start
    <2>2. QED  BY <1>3, <2>1, MarkIs DEF Start
  <1>4. CASE Preflight
    <2>1. PICK o \in NativePreflight(db) : Take(o) /\ Advance(o)
      BY <1>4 DEF Preflight, Do
    <2>2. o \in Results(verified)
      BY <1>1, NativePreflightIs
    <2>3. QED  BY <1>4, <2>1, <2>2, StepIs DEF Preflight, Doing
  <1>5. CASE Migrate
    <2>1. PICK o \in migrate_table_if_needed(db, This, TRUE) : Take(o) /\ Advance(o)
      BY <1>5 DEF Migrate, Do
    <2>2. o \in Results(verified)
      BY <1>1, MigrateIs
    <2>3. QED  BY <1>5, <2>1, <2>2, StepIs DEF Migrate, Doing
  <1>6. CASE Create
    <2> DEFINE strict == CASE job.cmd = "create-tables" -> {}
                           [] job.cmd = "manager" -> STRICT_STORAGE
                           [] OTHER -> StrictAfterCreate
    <2>1. \E o \in TableCreated(db, This, strict) : Take(o) /\ Advance(o)
      BY <1>6, Zenon DEF Create, Do, TableCreated
    <2> HIDE DEF strict
    <2>2. PICK o \in TableCreated(db, This, strict) : Take(o) /\ Advance(o)
      BY <2>1
    <2>3. o \in Results(verified)
      BY <1>1, TableCreatedIs
    <2>4. QED  BY <1>6, <2>2, <2>3, StepIs DEF Create, Doing
  <1>7. CASE Coupled
    <2>1. PICK o \in CoupledCheck(db) : Take(o) /\ Advance(o)
      BY <1>7, Zenon DEF Coupled, Do, CoupledCheck
    <2>2. o \in Results(verified)
      BY <1>1, CoupledIs
    <2>3. QED  BY <1>7, <2>1, <2>2, StepIs DEF Coupled, Doing
  <1>8. CASE Report
    <2>1. job'.at \in {"raising", "done"} /\ "at" \in DOMAIN job'
      BY <1>1, <1>8 DEF Report
    <2>2. QED  BY <1>8, <2>1, MarkIs DEF Report
  <1>9. CASE BeginImport
    <2>1. PICK o \in Begin(db) : Take(o) /\ Advance(o)
      BY <1>9 DEF BeginImport, Do
    <2>2. o \in Results(verified)
      BY <1>1, BeginIs
    <2>3. QED  BY <1>9, <2>1, <2>2, StepIs DEF BeginImport, Doing
  <1>10. CASE Enter
    <2>1. job'.at = "run" /\ "at" \in DOMAIN job'
      BY <1>1, <1>10 DEF Enter, Doing
    <2>2. QED  BY <1>10, <2>1, MarkIs DEF Enter
  <1>11. CASE CheckStandard
    <2>1. PICK o \in CloseAfter(StandardPreflight(db, This), job.snap) : Take(o) /\ Advance(o)
      BY <1>11, Zenon DEF CheckStandard, Do, Prepared, CloseAfter
    <2>2. StandardPreflight(db, This) \subseteq Results(verified)
      BY <1>1, StandardPreflightIs
    <2>3. o \in Results(verified)
      BY <2>2, CloseAfterIs
    <2>4. QED  BY <1>11, <2>1, <2>3, StepIs DEF CheckStandard, Doing
  <1>12. CASE UpgradeStandard
    <2> DEFINE c == job.cmd = "import-auto"
    <2>1. PICK o \in CloseAfter(StandardMigrate(db, This, c), job.snap) : Take(o) /\ Advance(o)
      BY <1>12, Zenon DEF UpgradeStandard, Do, Prepared, CloseAfter
    <2> HIDE DEF c
    <2>2. StandardMigrate(db, This, c) \subseteq Results(verified)
      BY <1>1, StandardMigrateIs
    <2>3. o \in Results(verified)
      BY <2>2, CloseAfterIs
    <2>4. QED  BY <1>12, <2>1, <2>3, StepIs DEF UpgradeStandard, Doing
  <1>13. CASE Close
    <2>1. PICK o \in CloseCreated(db, job.snap) : Take(o) /\ Advance(o)
      BY <1>13 DEF Close, Do
    <2>2. o \in Results(verified)
      BY <1>1, CloseCreatedIs
    <2>3. QED  BY <1>13, <2>1, <2>2, StepIs DEF Close, Doing
  <1>14. CASE Ready
    <2>1. job'.at = "run" /\ "at" \in DOMAIN job'
      BY <1>1, <1>14 DEF Ready, Doing
    <2>2. QED  BY <1>14, <2>1, MarkIs DEF Ready
  <1>15. CASE WriteRow
    <2>1. PICK o \in RowWritten(verified, db, This) :
            /\ Take(o) /\ Advance(o)
            /\ verified' = IF o.ok THEN verified \cup {This} ELSE verified
      BY <1>15, Zenon DEF WriteRow, RowWritten, Verified, RowCheck, Writes
    <2>2. o \in Results(verified')
      BY <1>1, <2>1, RowWrittenIs
    <2>3. db' \in HandlesOf(verified')
      BY <2>1, <2>2, ResultHolds DEF Take
    <2>4. job'.at # "idle" /\ "at" \in DOMAIN job'
      BY <1>1, <1>15, <2>1, AdvanceIs DEF WriteRow, Doing
    <2>5. QED  BY <2>3, <2>4 DEF SoundHandle
  <1>16. CASE CommitImport
    <2>1. PICK o \in Commit(db) : Take(o) /\ Advance(o)
      BY <1>16 DEF CommitImport, Do
    <2>2. o \in Results(verified)
      BY <1>1, CommitIs
    <2>3. QED  BY <1>16, <2>1, <2>2, StepIs DEF CommitImport, Doing
  <1>17. CASE Return
    <2>1. job'.at = "returned" /\ "at" \in DOMAIN job'
      BY <1>1, <1>17 DEF Return
    <2>2. QED  BY <1>17, <2>1, MarkIs DEF Return
  <1>18. CASE Finished
    <2>1. job'.at = "done" /\ "at" \in DOMAIN job'
      BY <1>1, <1>18 DEF Finished
    <2>2. QED  BY <1>18, <2>1, MarkIs DEF Finished
  <1>19. CASE Fail
    <2>1. PICK o : /\ o \in RollbackFailedImport(db) \/ o \in Rollback(db) \/ o = Ok(db, 0)
                   /\ Take(o)
      BY <1>19, Zenon DEF Fail
    <2>2. Ok(db, 0) \in Results(verified)
      BY <1>1 DEF Ok, Results
    <2>3. o \in Results(verified)
      BY <1>1, <2>1, <2>2, RollbackFailedIs, RollbackIs
    <2>4. db' \in HandlesOf(verified')
      BY <1>19, <2>1, <2>3, ResultHolds DEF Fail, Take
    <2>5. job'.at = "raised" /\ "at" \in DOMAIN job'
      BY <1>1, <1>19 DEF Fail
    <2>6. QED  BY <2>4, <2>5 DEF SoundHandle
  <1>20. CASE CallerEnds
    <2>1. PICK o \in Commit(db) \cup Rollback(db) :
            /\ Take(o)
            /\ job' = [job EXCEPT !.at = IF o.ok THEN "idle" ELSE "raised", !.own = FALSE]
      BY <1>20 DEF CallerEnds
    <2>2. o \in Results(verified) /\ (o.ok => o.db.p.open)
      BY <1>1, CommitIs, RollbackIs
    <2>3. db' \in HandlesOf(verified') /\ verified' = verified /\ db' = o.db
      BY <1>20, <2>1, <2>2, ResultHolds DEF CallerEnds, Take
    <2>4. "at" \in DOMAIN job' /\ (~o.ok => job'.at = "raised")
      BY <1>1, <2>1
    <2>5. QED  BY <2>2, <2>3, <2>4 DEF SoundHandle
  <1>21. CASE Leave
    <2>1. PICK o \in ContextExit(db, job.at = "raised") : db' = Ended(o.db)
      BY <1>21 DEF Leave
    <2>2. o.db \in HandlesOf(verified)
      BY <1>1, ContextExitIs, ResultHolds
    <2>3. db' \in HandlesOf({}) /\ verified' = {}
      BY <1>21, <2>1, <2>2, EndedIs DEF Leave
    <2>4. "at" \in DOMAIN job'
      BY <1>21 DEF Leave, Idle
    <2>5. QED  BY <2>3, <2>4 DEF SoundHandle
  <1>22. CASE Crash
    <2>1. db' \in HandlesOf({}) /\ verified' = {}
      BY <1>1, <1>22, EndedIs DEF Crash
    <2>2. "at" \in DOMAIN job'
      BY <1>22 DEF Crash, Idle
    <2>3. QED  BY <2>1, <2>2 DEF SoundHandle
  <1>23. CASE Reconnect
    <2>1. verified = {} /\ verified' = {} /\ job' = job
      BY <1>23 DEF Reconnect, SoundHandle, is_connected
    <2>2. PICK o \in Connect(db) : db' = o.db
      BY <1>23 DEF Reconnect, Take
    <2>3. db' \in HandlesOf({})
      BY <1>1, <2>1, <2>2, ConnectIs, ResultHolds
    <2>4. QED  BY <1>1, <2>1, <2>3 DEF SoundHandle
  <1>24. CASE UNCHANGED vars
    BY <1>24 DEF vars, SoundHandle
  <1>25. QED
    BY <1>2, <1>3, <1>4, <1>5, <1>6, <1>7, <1>8, <1>9, <1>10, <1>11, <1>12, <1>13, <1>14,
       <1>15, <1>16, <1>17, <1>18, <1>19, <1>20, <1>21, <1>22, <1>23, <1>24, Zenon DEF Next

\* Whatever commands run, fail or are interrupted, on however many tables: what
\* the writers verified is sound on every open database and stays so through
\* rollbacks, lost connections and reconnections, and no row is harmed on what
\* a commit made durable either (_verify_strict_storage of the writers,
\* DatabaseMigrator._add_missing_columns, DualDatabase).
THEOREM StorageInvariant == Spec => []StorageInv
  <1>1. SoundHandle => StorageInv
    <2> SUFFICES ASSUME SoundHandle  PROVE StorageInv
      OBVIOUS
    <2>1. db.p \in SafeSessions(verified) /\ db.s \in SafeSessions(verified)
      BY HandleHolds DEF SoundHandle
    <2>2. QED  BY <2>1 DEF SoundHandle, SafeSessions, StorageInv
  <1>2. QED  BY InitIsSound, NextIsSound, <1>1, PTL DEF Spec

\* No row is written to a table of a strict record type that would change a
\* value, split an identity or replace another row, nor to another verified one
\* under a key its verification refuses (verify_*_storage_schema).
THEOREM RowsAreSound == Spec => []WrittenIsSound
  <1>1. StorageInv => WrittenIsSound
    BY DEF StorageInv, SafeSession, RowsSafe, WrittenIsSound, Targets
  <1>2. QED  BY StorageInvariant, <1>1, PTL

-----------------------------------------------------------------------------
(***************************************************************************)
(* The caller's row: what commits nothing leaves it in its transaction.    *)
(***************************************************************************)

\* The session c, that comes from b, has no row of the caller more durable.
Spared(b, c) == c.store.own => b.store.own

\* A call without a fault that returns keeps the caller's transaction.
Keeps(b, q) ==
    /\ Spared(b, q.db)
    /\ OwnHeld(b) /\ q.ok /\ q.faults = 0 => OwnHeld(q.db)

LEMMA SparedOn ==
  ASSUME NEW a, NEW b, NEW c, Spared(a, b), Spared(b, c)
  PROVE  Spared(a, c)
  BY DEF Spared

\* What a rollback, or the loss of a connection, goes back to.
LEMMA RestoredIs ==
  ASSUME NEW b, NEW c, c.store = b.store, c.seen = b.store
  PROVE  Spared(b, c)
  BY DEF Spared

\* A session whose rows are the same, in a transaction that is still there.
LEMMA UntouchedIs ==
  ASSUME NEW b, NEW c, c.store = b.store, c.seen = b.seen, c.driver = b.driver,
         b.dirty => c.dirty, b.active => c.active
  PROVE  Spared(b, c) /\ (OwnHeld(b) /\ c.open = b.open => OwnHeld(c))
  BY DEF Spared, OwnHeld

\* The same, field by field, of every update a call makes.
LEMMA FreshSpares ==
  ASSUME NEW b \in SessionShapes
  PROVE  /\ Spared(b, Fresh(b)) /\ Fresh(b) \in SessionShapes
         /\ ~Fresh(b).active /\ ~Fresh(b).dirty /\ ~Fresh(b).failed
         /\ Fresh(b).driver = b.driver /\ Fresh(b).broken = b.broken
  <1> DEFINE c == Fresh(b)
  <1>1. /\ c \in SessionShapes /\ c.store = b.store /\ c.seen = b.store /\ ~c.active /\ ~c.dirty
        /\ ~c.failed /\ c.driver = b.driver /\ c.broken = b.broken
    BY Zenon DEF SessionShapes, Fresh
  <1> HIDE DEF c
  <1>2. QED  BY <1>1, RestoredIs DEF c

LEMMA GoneSpares ==
  ASSUME NEW b \in SessionShapes
  PROVE  Spared(b, Gone(b)) /\ Gone(b) \in SessionShapes
  <1> DEFINE c == Gone(b)
  <1>1. c \in SessionShapes /\ c.store = b.store /\ c.seen = b.store
    BY Zenon DEF SessionShapes, Gone
  <1> HIDE DEF c
  <1>2. QED  BY <1>1, RestoredIs DEF c

LEMMA ClosedSpares ==
  ASSUME NEW b \in SessionShapes
  PROVE  /\ Spared(b, Closed(b)) /\ Closed(b) \in SessionShapes
         /\ ~Closed(b).active /\ ~Closed(b).open
  <1> DEFINE c == Closed(b)
  <1>1. /\ c \in SessionShapes /\ c.store = b.store /\ c.seen = b.store /\ ~c.active /\ ~c.open
    BY Zenon DEF SessionShapes, Closed, Fresh
  <1> HIDE DEF c
  <1>2. QED  BY <1>1, RestoredIs DEF c

LEMMA RebuiltSpares ==
  ASSUME NEW b \in SessionShapes
  PROVE  LET c == [Fresh(b) EXCEPT !.broken = FALSE] IN
         /\ Spared(b, c) /\ c \in SessionShapes /\ ~c.active /\ ~c.dirty /\ ~c.failed /\ ~c.broken
         /\ c.driver = b.driver
  <1> DEFINE c == [Fresh(b) EXCEPT !.broken = FALSE]
  <1>1. /\ c \in SessionShapes /\ c.store = b.store /\ c.seen = b.store
        /\ ~c.active /\ ~c.dirty /\ ~c.failed /\ ~c.broken /\ c.driver = b.driver
    BY Zenon DEF SessionShapes, Fresh
  <1> HIDE DEF c
  <1>2. Spared(b, c)
    BY <1>1, RestoredIs
  <1>3. QED  BY <1>1, <1>2, Zenon DEF c

LEMMA BegunSpares ==
  ASSUME NEW b \in SessionShapes
  PROVE  LET c == [b EXCEPT !.active = TRUE] IN
         /\ Spared(b, c) /\ c \in SessionShapes /\ (OwnHeld(b) => OwnHeld(c))
         /\ c.active /\ c.open = b.open /\ c.store = b.store /\ c.driver = b.driver
  <1> DEFINE c == [b EXCEPT !.active = TRUE]
  <1>1. /\ c \in SessionShapes /\ c.store = b.store /\ c.seen = b.seen /\ c.driver = b.driver
        /\ c.dirty = b.dirty /\ c.active = TRUE /\ c.open = b.open
    BY Zenon DEF SessionShapes
  <1> HIDE DEF c
  <1>2. Spared(b, c) /\ (OwnHeld(b) => OwnHeld(c))
    BY <1>1, UntouchedIs
  <1>3. QED  BY <1>1, <1>2, Zenon DEF c

LEMMA ReadSpares ==
  ASSUME NEW b \in SessionShapes, NEW x \in BOOLEAN, b.dirty => x
  PROVE  LET c == [b EXCEPT !.dirty = x] IN
         Spared(b, c) /\ c \in SessionShapes /\ (OwnHeld(b) => OwnHeld(c))
  <1> DEFINE c == [b EXCEPT !.dirty = x]
  <1>1. /\ c \in SessionShapes /\ c.store = b.store /\ c.seen = b.seen /\ c.driver = b.driver
        /\ c.dirty = x /\ c.active = b.active /\ c.open = b.open
    BY Zenon DEF SessionShapes
  <1> HIDE DEF c
  <1>2. Spared(b, c) /\ (OwnHeld(b) => OwnHeld(c))
    BY <1>1, UntouchedIs
  <1>3. QED  BY <1>1, <1>2, Zenon DEF c

LEMMA FailedSpares ==
  ASSUME NEW b \in SessionShapes, NEW x \in BOOLEAN
  PROVE  LET c == [b EXCEPT !.failed = x] IN
         /\ Spared(b, c) /\ c \in SessionShapes /\ (OwnHeld(b) => OwnHeld(c))
         /\ c.driver = b.driver /\ c.active = b.active
  <1> DEFINE c == [b EXCEPT !.failed = x]
  <1>1. /\ c \in SessionShapes /\ c.store = b.store /\ c.seen = b.seen /\ c.driver = b.driver
        /\ c.dirty = b.dirty /\ c.active = b.active /\ c.open = b.open
    BY Zenon DEF SessionShapes
  <1> HIDE DEF c
  <1>2. Spared(b, c) /\ (OwnHeld(b) => OwnHeld(c))
    BY <1>1, UntouchedIs
  <1>3. QED  BY <1>1, <1>2, Zenon DEF c

\* Outcomes of a call on b, read off.
LEMMA ReturnsIs ==
  ASSUME NEW b, NEW x, NEW n, NEW o, o = Ok(x, n), Spared(b, x), OwnHeld(b) => OwnHeld(x)
  PROVE  Keeps(b, o)
  BY DEF Ok, Keeps

LEMMA RaisesIs ==
  ASSUME NEW b, NEW x, NEW n, NEW o, o = Err(x, n), Spared(b, x)
  PROVE  Keeps(b, o) /\ ~o.ok
  BY DEF Err, Keeps

\* Beginning a transaction.
LEMMA BeginKeeps ==
  ASSUME NEW b \in SessionShapes, NEW o \in begin_transaction(b)
  PROVE  /\ Keeps(b, o)
         /\ o.ok => /\ o.db.active /\ o.db.open = b.open /\ o.db.store = b.store
                    /\ o.db.driver = b.driver
  <1> DEFINE c == [b EXCEPT !.active = TRUE]
             g == Gone(b)
  <1>1. /\ Spared(b, c) /\ (OwnHeld(b) => OwnHeld(c)) /\ c.active /\ c.open = b.open
        /\ c.store = b.store /\ c.driver = b.driver
    BY BegunSpares
  <1>2. Spared(b, g) /\ Spared(b, b)
    BY GoneSpares DEF Spared
  <1>3. o = Ok(c, 0) \/ o = Err(b, 0) \/ o = Err(g, 1) \/ (o = Ok(b, 0) /\ b.active)
    BY Zenon DEF begin_transaction
  <1> HIDE DEF c, g
  <1>4. CASE o = Ok(c, 0)
    <2>1. Keeps(b, o)
      BY <1>1, <1>4, ReturnsIs
    <2>2. QED  BY <1>1, <1>4, <2>1 DEF Ok
  <1>5. CASE o = Ok(b, 0) /\ b.active
    <2>1. Keeps(b, o)
      BY <1>2, <1>5, ReturnsIs
    <2>2. QED  BY <1>5, <2>1 DEF Ok
  <1>6. CASE o = Err(b, 0) \/ o = Err(g, 1)
    BY <1>2, <1>6, RaisesIs
  <1>7. QED  BY <1>3, <1>4, <1>5, <1>6

\* A rollback loses the caller's row, and leaves no transaction when it returns.
LEMMA RollbackSpares ==
  ASSUME NEW b \in SessionShapes, NEW o \in rollback(b)
  PROVE  /\ o.db \in SessionShapes /\ Spared(b, o.db) /\ o.faults \in Nat
         /\ o.ok => ~o.db.active /\ ~has_pending_transaction(o.db)
  <1> DEFINE f == Fresh(b)
             g == Gone(b)
             c == Closed(b)
             r == [Fresh(b) EXCEPT !.broken = FALSE]
  <1>1. /\ Spared(b, f) /\ f \in SessionShapes /\ ~f.active /\ ~f.dirty /\ ~f.failed
        /\ f.driver = b.driver /\ f.broken = b.broken
    BY FreshSpares
  <1>2. /\ Spared(b, g) /\ Spared(b, c) /\ Spared(b, b) /\ g \in SessionShapes
        /\ c \in SessionShapes
    BY GoneSpares, ClosedSpares DEF Spared
  <1>3. /\ Spared(b, r) /\ r \in SessionShapes /\ ~r.active /\ ~r.dirty /\ ~r.failed
        /\ ~r.broken /\ r.driver = b.driver
    BY RebuiltSpares
  <1>4. \/ o = Ok(f, 0) /\ (b.driver = "sqlite" \/ ~b.broken)
        \/ o = Ok(r, 0)
        \/ o = Ok(b, 0) /\ b.driver # "sqlite" /\ b.driver # "psycopg" /\ ~b.active
        \/ o = Err(g, 1) \/ o = Err(c, 1) \/ o = Err(b, 0) \/ o = Err(b, 1)
    <2>1. CASE ~IsServer(b)
      BY <2>1, Zenon DEF rollback, sqlite_rollback, IsServer
    <2>2. CASE IsServer(b)
      BY <2>2, Zenon DEF rollback, postgresql_rollback, _reconnect, IsServer
    <2>3. QED  BY <2>1, <2>2
  <1> HIDE DEF f, g, c, r
  <1>5. CASE o = Ok(f, 0) /\ (b.driver = "sqlite" \/ ~b.broken)
    BY <1>1, <1>5 DEF Ok, has_pending_transaction
  <1>6. CASE o = Ok(r, 0)
    BY <1>3, <1>6 DEF Ok, has_pending_transaction
  <1>7. CASE o = Ok(b, 0) /\ b.driver # "sqlite" /\ b.driver # "psycopg" /\ ~b.active
    BY <1>2, <1>7 DEF Ok, has_pending_transaction
  <1>8. CASE o = Err(g, 1) \/ o = Err(c, 1) \/ o = Err(b, 0) \/ o = Err(b, 1)
    BY <1>2, <1>8 DEF Err
  <1>9. QED  BY <1>4, <1>5, <1>6, <1>7, <1>8

\* A closed session holds nothing.
LEMMA DisconnectSpares ==
  ASSUME NEW b \in SessionShapes, NEW o \in disconnect(b)
  PROVE  Spared(b, o.db) /\ (o.ok => ~o.db.active /\ ~has_pending_transaction(o.db))
  <1> DEFINE c == Closed(b)
  <1>1. Spared(b, c) /\ Spared(b, b) /\ ~c.active /\ ~c.open
    BY ClosedSpares DEF Spared
  <1>2. o = Ok(c, 0) \/ o = Err(b, 1)
    BY Zenon DEF disconnect
  <1> HIDE DEF c
  <1>3. QED  BY <1>1, <1>2 DEF Ok, Err, has_pending_transaction

LEMMA RecoverSpares ==
  ASSUME NEW V, NEW b \in SafeSessions(V), NEW o \in Recovers(b)
  PROVE  Spared(b, o.db) /\ (o.ok => ~o.db.active /\ ~has_pending_transaction(o.db))
  <1>1. PICK e \in rollback(b) :
          \/ e.ok /\ o = e
          \/ \E d \in disconnect(e.db) : o = [d EXCEPT !.faults = @ + e.faults]
    BY Zenon DEF Recovers
  <1>2. /\ e.db \in SessionShapes /\ Spared(b, e.db)
        /\ e.ok => ~e.db.active /\ ~has_pending_transaction(e.db)
    BY RollbackSpares DEF SafeSessions
  <1>3. CASE \E d \in disconnect(e.db) : o = [d EXCEPT !.faults = @ + e.faults]
    <2>1. PICK d \in disconnect(e.db) : o = [d EXCEPT !.faults = @ + e.faults]
      BY <1>3
    <2>2. Spared(e.db, d.db) /\ (d.ok => ~d.db.active /\ ~has_pending_transaction(d.db))
      BY <1>2, DisconnectSpares
    <2>3. e \in Outcomes(V)
      BY RollsBack
    <2>4. d \in Outcomes(V) /\ e.faults \in Nat
      BY <2>3, Disconnects DEF Outcomes
    <2>5. o.db = d.db /\ o.ok = d.ok
      BY <2>1, <2>4, SummedIs
    <2>6. QED  BY <1>2, <2>2, <2>5, SparedOn
  <1>4. QED  BY <1>1, <1>2, <1>3

\* Only what the call opened is closed.
LEMMA CloseSpares ==
  ASSUME NEW V, NEW b \in SafeSessions(V), NEW was, NEW o \in Closes(was, b)
  PROVE  /\ Spared(b, o.db)
         /\ was => o = Ok(b, 0)
         /\ ~was /\ o.ok => ~has_pending_transaction(o.db)
  <1>1. CASE CreatedHere(was, b)
    <2>1. o \in Recovers(b)
      BY <1>1 DEF Closes
    <2>2. ~was
      BY <1>1 DEF CreatedHere
    <2>3. QED  BY <2>1, <2>2, RecoverSpares
  <1>2. CASE ~CreatedHere(was, b)
    <2>1. o = Ok(b, 0)
      BY <1>2 DEF Closes
    <2>2. ~was => ~has_pending_transaction(b)
      BY <1>2 DEF CreatedHere
    <2>3. QED  BY <2>1, <2>2 DEF Ok, Spared
  <1>3. QED  BY <1>1, <1>2

\* What a statement s makes of the caller's row: c comes from b.
Writing(b, s, c) ==
    /\ s.do # "own" => Spared(b, c)
    /\ OwnHeld(b) => OwnHeld(c)
    /\ s.do = "own" /\ b.open /\ b.active /\ ~b.store.own => OwnHeld(c)

LEMMA DoneKeeps ==
  ASSUME NEW V, NEW b \in SafeSessions(V), b.open, NEW s, Fits(s, V)
  PROVE  Writing(b, s, Done(b, s))
  <1> DEFINE N == Put(b.driver, b.seen, s)
             x == [b EXCEPT !.seen = N, !.store = N]
             y == [b EXCEPT !.seen = N, !.dirty = TRUE]
  <1>1. b \in SessionShapes /\ b.seen \in Rows /\ b.store \in Rows /\ OwnSound(b)
    BY DEF SafeSessions, SessionShapes, SafeSession
  <1>2. N.own <=> (b.seen.own \/ s.do = "own")
    BY <1>1, PutOwn
  <1>3. \/ b.driver = "pg8000" /\ ~b.active /\ Done(b, s) = x
        \/ ~(b.driver = "pg8000" /\ ~b.active) /\ Done(b, s) = y
    BY Zenon DEF Done
  <1> HIDE DEF N
  <1>4. x.seen = N /\ x.store = N
    BY <1>1, Zenon DEF SessionShapes
  <1>5. /\ y.seen = N /\ y.store = b.store /\ y.dirty = TRUE /\ y.driver = b.driver
        /\ y.active = b.active /\ y.open = b.open
    BY <1>1, Zenon DEF SessionShapes
  <1> HIDE DEF x, y
  <1>6. CASE b.driver = "pg8000" /\ ~b.active /\ Done(b, s) = x
    BY <1>1, <1>2, <1>4, <1>6 DEF Writing, Spared, OwnSound, OwnHeld
  <1>7. CASE ~(b.driver = "pg8000" /\ ~b.active) /\ Done(b, s) = y
    BY <1>2, <1>5, <1>7 DEF Writing, Spared, OwnHeld
  <1>8. QED  BY <1>3, <1>6, <1>7

\* What is left of the caller's transaction after a statement.
WritesOwn(b, s, o) ==
    /\ s.do # "own" => Keeps(b, o)
    /\ o.ok /\ s.do = "own" /\ b.active /\ ~b.store.own => OwnHeld(o.db)

\* One that failed, and what the handler did about it: x comes from b, or from
\* what the statement did before its answer was lost.
LEMMA FailureKeeps ==
  ASSUME NEW b, NEW s, NEW x, s.do # "own" => Spared(b, x),
         NEW p, Spared(x, p.db), NEW n, NEW o, o = Err(p.db, n + p.faults)
  PROVE  WritesOwn(b, s, o)
  <1>1. o.db = p.db /\ o.ok = FALSE
    BY DEF Err
  <1>2. s.do # "own" => Spared(b, p.db)
    BY SparedOn
  <1>3. QED  BY <1>1, <1>2 DEF WritesOwn, Spared, Keeps

LEMMA ExecuteKeeps ==
  ASSUME NEW V, NEW b \in SafeSessions(V), NEW s, Fits(s, V), NEW o \in execute(b, s)
  PROVE  WritesOwn(b, s, o)
  <1> DEFINE d == Done(b, s)
             Undo(x) == IF x.active THEN {Ok(x, 0)} ELSE postgresql_rollback(x)
             f == b.active \/ b.driver = "psycopg"
             r == [b EXCEPT !.failed = f]
             g == Gone(b)
             l == d.lost \/ d.store # b.store
             u == [d EXCEPT !.lost = l]
             v == Gone(u)
  <1>1. b.open => d \in SafeSessions(V) /\ Writing(b, s, d)
    BY DoneIs, DoneKeeps
  <1>2. b \in SessionShapes /\ (b.open => d \in SessionShapes)
    BY <1>1 DEF SafeSessions
  <1>3. f \in BOOLEAN /\ (b.open => l \in BOOLEAN)
    BY <1>2 DEF SessionShapes
  <1>4. b.open => d.driver = b.driver
    BY Zenon DEF Done, SafeSessions, SessionShapes
  <1> HIDE DEF d, f, l
  <1>5. Spared(b, r) /\ r \in SessionShapes /\ r.driver = b.driver
    BY <1>2, <1>3, FailedSpares, Zenon
  <1>6. Spared(b, g) /\ g \in SessionShapes
    BY <1>2, GoneSpares
  <1>7. g.driver = b.driver
    BY <1>2, GoneIs, Zenon DEF Derived
  <1>8. b.open => /\ u \in SessionShapes /\ u.store = d.store /\ u.seen = d.seen
                  /\ u.driver = d.driver /\ u.dirty = d.dirty /\ u.active = d.active
    BY <1>2, <1>3, Zenon DEF SessionShapes
  <1>9. b.open => Spared(d, u)
    BY <1>8, UntouchedIs
  <1>10. b.open => v \in SessionShapes /\ Spared(u, v) /\ v.driver = b.driver
    <2>1. b.open => v \in SessionShapes /\ Spared(u, v)
      BY <1>8, GoneSpares
    <2>2. b.open => v.driver = b.driver
      BY <1>4, <1>8, GoneIs, Zenon DEF Derived
    <2>3. QED  BY <2>1, <2>2
  <1> HIDE DEF r, g, u, v
  <1>11. ASSUME NEW x \in {r, g, v, b}, b.open
         PROVE  /\ s.do # "own" => Spared(b, x)
                /\ x \in SessionShapes /\ x.driver = b.driver
    <2>1. s.do # "own" => Spared(b, v)
      BY <1>1, <1>9, <1>10, <1>11, SparedOn DEF Writing
    <2>2. CASE x = v
      BY <1>10, <1>11, <2>1, <2>2
    <2>3. CASE x \in {r, g, b}
      BY <1>2, <1>5, <1>6, <1>7, <2>3 DEF Spared
    <2>4. QED  BY <1>11, <2>2, <2>3
  <1>12. CASE o = Ok(d, 0) /\ b.open
    BY <1>1, <1>12 DEF Ok, WritesOwn, Writing, Keeps
  <1>13. CASE o = Err(b, 0)
    BY <1>13 DEF Err, WritesOwn, Keeps, Spared
  <1>14. CASE b.driver = "sqlite"
    <2>1. execute(b, s) = sqlite_execute(b, s) /\ ~IsServer(b)
      BY <1>14 DEF execute, IsServer
    <2>2. CASE ~b.open
      BY <1>13, <2>1, <2>2 DEF sqlite_execute
    <2>3. CASE b.open
      <3>1. o \in {Ok(d, 0)} \cup Handling({Err(b, 1)}, sqlite_rollback)
        BY <2>1, <2>3, Zenon DEF sqlite_execute, d
      <3>2. CASE o \in Handling({Err(b, 1)}, sqlite_rollback)
        <4>1. Err(b, 1).ok = FALSE /\ Err(b, 1).db = b /\ Err(b, 1).faults = 1
          BY DEF Err
        <4>2. PICK p \in sqlite_rollback(b) : o = Err(p.db, 1 + p.faults)
          BY <3>2, <4>1, Zenon DEF Handling
        <4>3. Spared(b, p.db)
          BY <1>2, <2>1, RollbackSpares DEF rollback
        <4>4. QED  BY <1>11, <2>3, <4>2, <4>3, FailureKeeps
      <3>3. QED  BY <1>12, <2>3, <3>1, <3>2
    <2>4. QED  BY <2>2, <2>3
  <1>15. CASE b.driver # "sqlite"
    <2>1. execute(b, s) = postgresql_execute(b, s) /\ IsServer(b)
      BY <1>15 DEF execute, IsServer
    <2>2. ASSUME NEW x \in {r, g, v, b}, b.open, NEW n, NEW p \in Undo(x), o = Err(p.db, n + p.faults)
          PROVE  WritesOwn(b, s, o)
      <3>1. x \in SessionShapes /\ IsServer(x)
        BY <1>11, <1>15, <2>2 DEF IsServer
      <3>2. Spared(x, p.db)
        <4>1. CASE p = Ok(x, 0)
          BY <4>1 DEF Ok, Spared
        <4>2. CASE p \in postgresql_rollback(x)
          BY <3>1, <4>2, RollbackSpares DEF rollback
        <4>3. QED  BY <2>2, <4>1, <4>2
      <3>3. QED  BY <1>11, <2>2, <3>2, FailureKeeps
    <2> HIDE DEF Undo
    <2>3. CASE ~b.open
      BY <1>13, <2>1, <2>3, Zenon DEF postgresql_execute
    <2>4. CASE b.open /\ (b.broken \/ b.failed)
      <3>1. o \in Handling({Err(b, 0)}, Undo)
        BY <2>1, <2>4, Zenon DEF postgresql_execute, Undo
      <3>2. Err(b, 0).ok = FALSE /\ Err(b, 0).db = b /\ Err(b, 0).faults = 0
        BY DEF Err
      <3>3. PICK p \in Undo(b) : o = Err(p.db, 0 + p.faults)
        BY <3>1, <3>2, Zenon DEF Handling
      <3>4. QED  BY <2>2, <2>4, <3>3
    <2>5. CASE b.open /\ ~(b.broken \/ b.failed)
      <3>1. o \in {Ok(d, 0)} \cup Handling({Err(r, 1), Err(g, 1), Err(v, 1)}, Undo)
        BY <2>1, <2>5, Zenon DEF postgresql_execute, d, f, l, r, g, u, v, Undo
      <3>2. CASE o \in Handling({Err(r, 1), Err(g, 1), Err(v, 1)}, Undo)
        <4>1. /\ Err(r, 1).ok = FALSE /\ Err(r, 1).db = r /\ Err(r, 1).faults = 1
              /\ Err(g, 1).ok = FALSE /\ Err(g, 1).db = g /\ Err(g, 1).faults = 1
              /\ Err(v, 1).ok = FALSE /\ Err(v, 1).db = v /\ Err(v, 1).faults = 1
          BY DEF Err
        <4>2. PICK e \in {Err(r, 1), Err(g, 1), Err(v, 1)} :
                o \in IF e.ok THEN {e} ELSE {Err(p.db, e.faults + p.faults) : p \in Undo(e.db)}
          BY <3>2, Zenon DEF Handling
        <4> DEFINE x == e.db
        <4>3. x \in {r, g, v} /\ e.ok = FALSE /\ e.faults = 1
          BY <4>1, <4>2, Zenon
        <4>4. PICK p \in Undo(x) : o = Err(p.db, 1 + p.faults)
          BY <4>2, <4>3, Zenon
        <4> HIDE DEF x
        <4>5. QED  BY <2>2, <2>5, <4>3, <4>4
      <3>3. QED  BY <1>12, <2>5, <3>1, <3>2
    <2>6. QED  BY <2>3, <2>4, <2>5
  <1>16. QED  BY <1>14, <1>15

\* A read keeps it even when it raises, as long as nothing failed.
LEMMA FetchKeeps ==
  ASSUME NEW b \in SessionShapes, NEW o \in fetch(b)
  PROVE  Keeps(b, o) /\ (OwnHeld(b) /\ o.faults = 0 => OwnHeld(o.db))
  <1> DEFINE Undo(x) == IF x.active THEN {Ok(x, 0)} ELSE postgresql_rollback(x)
             e == b.dirty \/ b.driver = "psycopg"
             y == [b EXCEPT !.dirty = e]
             f == b.active \/ b.driver = "psycopg"
             r == [b EXCEPT !.failed = f]
             g == Gone(b)
  <1>1. e \in BOOLEAN /\ f \in BOOLEAN /\ (b.dirty => e)
    BY DEF SessionShapes
  <1> HIDE DEF e, f
  <1>2. Spared(b, y) /\ (OwnHeld(b) => OwnHeld(y))
    BY <1>1, ReadSpares, Zenon
  <1>3. Spared(b, r) /\ r \in SessionShapes /\ r.driver = b.driver
    BY <1>1, FailedSpares, Zenon
  <1>4. Spared(b, g) /\ g \in SessionShapes /\ Spared(b, b)
    BY GoneSpares DEF Spared
  <1>5. g.driver = b.driver
    BY GoneIs, Zenon DEF Derived
  <1> HIDE DEF y, r, g
  <1>6. CASE o = Ok(y, 0) \/ o = Ok(b, 0)
    <2>1. Keeps(b, o) /\ o.ok
      BY <1>2, <1>4, <1>6, ReturnsIs DEF Ok
    <2>2. QED  BY <2>1 DEF Keeps
  <1>7. CASE o = Err(b, 0)
    BY <1>4, <1>7 DEF Err, Keeps
  <1>8. ASSUME NEW x \in {r, g, b}, NEW n \in {0, 1}, NEW p, o = Err(p.db, n + p.faults),
               Spared(x, p.db), p.faults \in Nat, n = 1 \/ (OwnHeld(b) => p = Ok(b, 0))
        PROVE  Keeps(b, o) /\ (OwnHeld(b) /\ o.faults = 0 => OwnHeld(o.db))
    <2>1. Spared(b, p.db)
      BY <1>3, <1>4, <1>8, SparedOn
    <2>2. o.db = p.db /\ o.ok = FALSE /\ o.faults = n + p.faults
      BY <1>8 DEF Err
    <2>3. Ok(b, 0).db = b
      BY DEF Ok
    <2>4. CASE n = 1
      <3>1. o.faults # 0
        BY <1>8, <2>2, <2>4
      <3>2. QED  BY <2>1, <2>2, <3>1 DEF Keeps
    <2>5. CASE OwnHeld(b) => p = Ok(b, 0)
      <3>1. OwnHeld(b) => OwnHeld(o.db)
        BY <2>2, <2>3, <2>5
      <3>2. QED  BY <2>1, <2>2, <3>1 DEF Keeps
    <2>6. QED  BY <1>8, <2>4, <2>5
  <1>9. ASSUME NEW x \in {r, g, b}, IsServer(b), NEW p \in Undo(x)
        PROVE  Spared(x, p.db) /\ p.faults \in Nat
    <2>1. x \in SessionShapes /\ IsServer(x)
      BY <1>3, <1>4, <1>5, <1>9 DEF IsServer
    <2>2. CASE p = Ok(x, 0)
      BY <2>2 DEF Ok, Spared
    <2>3. CASE p \in rollback(x)
      BY <2>1, <2>3, RollbackSpares
    <2>4. QED  BY <1>9, <2>1, <2>2, <2>3 DEF rollback
  <1>10. OwnHeld(b) => Undo(b) = {Ok(b, 0)}
    BY DEF OwnHeld
  <1> HIDE DEF Undo
  <1>11. CASE ~b.open
    BY <1>7, <1>11, Zenon DEF fetch
  <1>12. CASE b.open /\ ~IsServer(b)
    <2>1. o \in {Ok(b, 0)} \cup Handling({Err(b, 1)}, sqlite_rollback)
      BY <1>12, Zenon DEF fetch
    <2>2. CASE o \in Handling({Err(b, 1)}, sqlite_rollback)
      <3>1. Err(b, 1).ok = FALSE /\ Err(b, 1).db = b /\ Err(b, 1).faults = 1
        BY DEF Err
      <3>2. PICK p \in sqlite_rollback(b) : o = Err(p.db, 1 + p.faults)
        BY <2>2, <3>1, Zenon DEF Handling
      <3>3. Spared(b, p.db) /\ p.faults \in Nat
        BY <1>12, <3>2, RollbackSpares DEF rollback
      <3>4. QED  BY <1>8, <3>2, <3>3
    <2>3. QED  BY <1>6, <2>1, <2>2
  <1>13. CASE b.open /\ IsServer(b) /\ (b.broken \/ b.failed)
    <2>1. o \in Handling({Err(b, 0)}, Undo)
      BY <1>13, Zenon DEF fetch, Undo
    <2>2. Err(b, 0).ok = FALSE /\ Err(b, 0).db = b /\ Err(b, 0).faults = 0
      BY DEF Err
    <2>3. PICK p \in Undo(b) : o = Err(p.db, 0 + p.faults)
      BY <2>1, <2>2, Zenon DEF Handling
    <2>4. OwnHeld(b) => p = Ok(b, 0)
      BY <1>10, <2>3
    <2>5. QED  BY <1>8, <1>9, <1>13, <2>3, <2>4
  <1>14. CASE b.open /\ IsServer(b) /\ ~(b.broken \/ b.failed)
    <2>1. o \in {Ok(y, 0)} \cup Handling({Err(r, 1), Err(g, 1)}, Undo)
      BY <1>14, Zenon DEF fetch, Undo, y, r, g, e, f
    <2>2. CASE o \in Handling({Err(r, 1), Err(g, 1)}, Undo)
      <3>1. /\ Err(r, 1).ok = FALSE /\ Err(r, 1).db = r /\ Err(r, 1).faults = 1
            /\ Err(g, 1).ok = FALSE /\ Err(g, 1).db = g /\ Err(g, 1).faults = 1
        BY DEF Err
      <3>2. PICK k \in {Err(r, 1), Err(g, 1)} :
              o \in IF k.ok THEN {k} ELSE {Err(p.db, k.faults + p.faults) : p \in Undo(k.db)}
        BY <2>2, Zenon DEF Handling
      <3> DEFINE x == k.db
      <3>3. x \in {r, g} /\ k.ok = FALSE /\ k.faults = 1
        BY <3>1, <3>2, Zenon
      <3>4. PICK p \in Undo(x) : o = Err(p.db, 1 + p.faults)
        BY <3>2, <3>3, Zenon
      <3> HIDE DEF x
      <3>5. Spared(x, p.db) /\ p.faults \in Nat
        BY <1>9, <1>14, <3>3, <3>4
      <3>6. QED  BY <1>8, <3>3, <3>4, <3>5
    <2>3. QED  BY <1>6, <2>1, <2>2
  <1>15. QED  BY <1>11, <1>12, <1>13, <1>14

\* A statement that is durable at once is none of a transaction.
LEMMA DefineKeeps ==
  ASSUME NEW V, NEW b \in SafeSessions(V), NEW s, Fits(s, V), s.do # "own", NEW o \in ddl(b, s)
  PROVE  Keeps(b, o)
  <1>1. CASE o \in execute(b, s)
    BY <1>1, ExecuteKeeps DEF WritesOwn
  <1>2. CASE ~IsServer(b) /\ ~b.dirty
    <2>1. PICK e \in execute(b, s) :
            o = IF e.ok THEN Ok([e.db EXCEPT !.store = e.db.seen, !.dirty = FALSE], e.faults) ELSE e
      BY <1>2, Zenon DEF ddl
    <2>2. CASE ~e.ok
      BY <1>1, <2>1, <2>2
    <2>3. CASE e.ok
      <3>1. e = Ok(Done(b, s), 0) /\ b.open
        <4>1. e \in sqlite_execute(b, s)
          BY <1>2 DEF execute
        <4>2. \A x \in Handling({Err(b, 1)}, sqlite_rollback) : ~x.ok
          <5>1. Err(b, 1).ok = FALSE /\ Err(b, 1).db = b /\ Err(b, 1).faults = 1
            BY DEF Err
          <5>2. TAKE x \in Handling({Err(b, 1)}, sqlite_rollback)
          <5>3. PICK p \in sqlite_rollback(b) : x = Err(p.db, 1 + p.faults)
            BY <5>1, Zenon DEF Handling
          <5>4. QED  BY <5>3 DEF Err
        <4>3. Err(b, 0).ok = FALSE
          BY DEF Err
        <4>4. QED  BY <2>3, <4>1, <4>2, <4>3, Zenon DEF sqlite_execute
      <3> DEFINE d == Done(b, s)
                 N == Put(b.driver, b.seen, s)
                 k == [d EXCEPT !.store = d.seen, !.dirty = FALSE]
      <3>2. o = Ok(k, 0)
        <4>1. Ok(d, 0).db = d /\ Ok(d, 0).faults = 0
          BY DEF Ok
        <4>2. QED  BY <2>1, <2>3, <3>1, <4>1
      <3>3. b \in SessionShapes /\ b.seen \in Rows /\ b.driver = "sqlite"
        BY <1>2 DEF SafeSessions, SessionShapes, IsServer
      <3>4. N.own <=> b.seen.own
        BY <3>3, PutOwn
      <3>5. d = [b EXCEPT !.seen = N, !.dirty = TRUE]
        BY <3>3, Zenon DEF Done
      <3> HIDE DEF N
      <3>6. k.seen = N /\ k.store = N
        BY <3>3, <3>5, Zenon DEF SessionShapes
      <3> HIDE DEF d, k
      <3>7. b.seen.own <=> b.store.own
        BY <1>2, <3>3 DEF SafeSessions, SafeSession, OwnSound
      <3>8. Spared(b, k) /\ ~OwnHeld(b)
        BY <3>4, <3>6, <3>7 DEF Spared, OwnHeld
      <3>9. QED  BY <3>2, <3>8 DEF Ok, Keeps
    <2>4. QED  BY <2>2, <2>3
  <1>3. QED  BY <1>1, <1>2, Zenon DEF ddl

\* A row.
LEMMA UpsertKeeps ==
  ASSUME NEW V, NEW b \in SafeSessions(V), NEW t \in V, NEW o \in upsert(b, t)
  PROVE  Keeps(b, o)
  <1> DEFINE s == [do |-> "row", table |-> t]
             Undo(x) == IF IsServer(x) /\ x.active THEN {Ok(x, 0)} ELSE rollback(x)
             f == IsServer(b)
             r == [b EXCEPT !.failed = f]
  <1>1. CASE o \in execute(b, s)
    <2>1. Fits(s, V) /\ s.do # "own"
      BY DEF Fits
    <2>2. QED  BY <1>1, <2>1, ExecuteKeeps DEF WritesOwn
  <1> HIDE DEF s, Undo
  <1>2. CASE o \in Handling({Err(r, 0)}, Undo)
    <2>1. b \in SessionShapes /\ f \in BOOLEAN
      BY DEF SafeSessions, IsServer
    <2> HIDE DEF f
    <2>2. Spared(b, r) /\ r \in SessionShapes
      BY <2>1, FailedSpares, Zenon
    <2> HIDE DEF r
    <2>3. Err(r, 0).ok = FALSE /\ Err(r, 0).db = r /\ Err(r, 0).faults = 0
      BY DEF Err
    <2>4. PICK p \in Undo(r) : o = Err(p.db, 0 + p.faults)
      BY <1>2, <2>3, Zenon DEF Handling
    <2>5. Spared(r, p.db)
      <3>1. CASE p \in rollback(r)
        BY <2>2, <3>1, RollbackSpares
      <3>2. CASE p = Ok(r, 0)
        BY <3>2 DEF Ok, Spared
      <3>3. QED  BY <2>4, <3>1, <3>2 DEF Undo
    <2>6. Spared(b, p.db)
      BY <2>2, <2>5, SparedOn
    <2>7. QED  BY <2>4, <2>6, RaisesIs
  <1>3. QED  BY <1>1, <1>2, Zenon DEF upsert, s, Undo

\* A call after another.
LEMMA KeepsOn ==
  ASSUME NEW b, NEW e, Keeps(b, e), e.ok, e.faults \in Nat, NEW p, Keeps(e.db, p), p.faults \in Nat,
         NEW o, o.db = p.db, o.ok = p.ok, o.faults = p.faults + e.faults
  PROVE  Keeps(b, o)
  <1>1. Spared(b, o.db)
    BY SparedOn DEF Keeps
  <1>2. ASSUME OwnHeld(b), o.ok, o.faults = 0
        PROVE  OwnHeld(o.db)
    <2>1. e.faults = 0 /\ p.faults = 0 /\ p.ok
      BY <1>2
    <2>2. OwnHeld(e.db)
      BY <1>2, <2>1 DEF Keeps
    <2>3. QED  BY <2>1, <2>2 DEF Keeps
  <1>3. QED  BY <1>1, <1>2 DEF Keeps

\* Adding up faults.
LEMMA SummedFaults ==
  ASSUME NEW V, NEW p \in Outcomes(V), NEW n \in Nat, NEW o, o = [p EXCEPT !.faults = @ + n]
  PROVE  o \in Outcomes(V) /\ o.db = p.db /\ o.ok = p.ok /\ o.faults = p.faults + n
  <1> DEFINE m == p.faults + n
  <1>1. m \in Nat
    BY DEF Outcomes
  <1>2. o = [p EXCEPT !.faults = m]
    OBVIOUS
  <1> HIDE DEF m
  <1>3. o \in Outcomes(V) /\ o.db = p.db /\ o.ok = p.ok /\ o.faults = m
    BY <1>1, <1>2, Zenon DEF Outcomes
  <1>4. QED  BY <1>3 DEF m

\* A call after a read, whatever became of the read.
LEMMA LookedFirst ==
  ASSUME NEW b, NEW e, Keeps(b, e), e.faults \in Nat,
         OwnHeld(b) /\ e.faults = 0 => OwnHeld(e.db),
         NEW p, Keeps(e.db, p), p.faults \in Nat,
         NEW o, o.db = p.db, o.ok = p.ok, o.faults = p.faults + e.faults
  PROVE  Keeps(b, o)
  <1>1. Spared(b, o.db)
    BY SparedOn DEF Keeps
  <1>2. ASSUME OwnHeld(b), o.ok, o.faults = 0
        PROVE  OwnHeld(o.db)
    <2>1. e.faults = 0 /\ p.faults = 0 /\ p.ok
      BY <1>2
    <2>2. OwnHeld(e.db)
      BY <1>2, <2>1 DEF Keeps
    <2>3. QED  BY <2>1, <2>2 DEF Keeps
  <1>3. QED  BY <1>1, <1>2 DEF Keeps

\* Columns added inside the caller's transaction.
LEMMA AddKeeps ==
  ASSUME NEW V, NEW b \in SafeSessions(V), NEW t, NEW o \in AddColumns(b, t, FALSE)
  PROVE  Keeps(b, o)
  <1> DEFINE left(x) == x.seen.cat[t].flaws \cap Addable
             Add(a) == [do |-> "add", table |-> t, column |-> a]
             One(x) == IF left(x) = {} THEN {Ok(x, 0)}
                       ELSE UNION {ddl(x, Add(a)) : a \in left(x)}
             Begun(x) == IF FALSE THEN {Ok(x, 0)}
                         ELSE IF IsServer(x) THEN begin_transaction(x)
                         ELSE IF x.dirty THEN {Ok(x, 0)}
                         ELSE execute(x, [do |-> "BEGIN"])
             Last(x) == IF FALSE THEN commit(x) ELSE {Ok(x, 0)}
             Kept(e) == e \in Outcomes(V) /\ Keeps(b, e)
  <1>1. o \in Then(Then(Then(Then(Begun(b), One), One), One), Last)
    BY Zenon DEF AddColumns
  <1>2. ASSUME NEW x \in SafeSessions(V), NEW e, e = Ok(x, 0)
        PROVE  e \in Outcomes(V) /\ Keeps(x, e)
    BY <1>2 DEF Ok, Outcomes, Keeps, Spared
  <1>3. ASSUME NEW e \in Begun(b)
        PROVE  Kept(e)
    <2>1. CASE e \in execute(b, [do |-> "BEGIN"])
      <3>1. Fits([do |-> "BEGIN"], V) /\ [do |-> "BEGIN"].do # "own"
        BY DEF Fits
      <3>2. QED  BY <2>1, <3>1, Executes, ExecuteKeeps DEF WritesOwn
    <2>2. CASE e \in begin_transaction(b)
      BY <2>2, Begins, BeginKeeps DEF SafeSessions
    <2>3. CASE e = Ok(b, 0)
      BY <1>2, <2>3
    <2>4. QED  BY <1>3, <2>1, <2>2, <2>3
  <1>4. ASSUME NEW x \in SafeSessions(V), NEW e \in One(x)
        PROVE  e \in Outcomes(V) /\ Keeps(x, e)
    <2>1. CASE e = Ok(x, 0)
      BY <1>2, <2>1
    <2>2. CASE \E a \in left(x) : e \in ddl(x, Add(a))
      <3>1. PICK a \in left(x) : e \in ddl(x, Add(a))
        BY <2>2
      <3>2. Fits(Add(a), V) /\ Add(a).do # "own"
        BY DEF Fits
      <3> HIDE DEF Add
      <3>3. QED  BY <3>1, <3>2, Defines, DefineKeeps
    <2>3. QED  BY <1>4, <2>1, <2>2
  <1>5. ASSUME NEW x \in SafeSessions(V), NEW e \in Last(x)
        PROVE  e \in Outcomes(V) /\ Keeps(x, e)
    <2>1. e = Ok(x, 0)
      BY <1>5
    <2>2. QED  BY <1>2, <2>1
  <1> HIDE DEF One, Begun, Last
  <1>6. ASSUME NEW q, Kept(q), NEW p \in Outcomes(V), Keeps(q.db, p), q.ok,
               NEW e, e = [p EXCEPT !.faults = @ + q.faults]
        PROVE  Kept(e)
    <2>1. q.faults \in Nat /\ p.faults \in Nat
      BY <1>6 DEF Outcomes
    <2>2. e \in Outcomes(V) /\ e.db = p.db /\ e.ok = p.ok /\ e.faults = p.faults + q.faults
      BY <1>6, <2>1, SummedFaults
    <2>3. QED  BY <1>6, <2>1, <2>2, KeepsOn
  <1>7. ASSUME NEW S, \A q \in S : Kept(q), NEW e \in Then(S, One)
        PROVE  Kept(e)
    <2>1. PICK q \in S : \/ e = q
                         \/ q.ok /\ \E p \in One(q.db) : e = [p EXCEPT !.faults = @ + q.faults]
      BY <1>7, Zenon DEF Then
    <2>2. Kept(q) /\ q.db \in SafeSessions(V)
      BY <1>7 DEF Outcomes
    <2> HIDE DEF Kept
    <2>3. QED  BY <1>4, <1>6, <2>1, <2>2
  <1>8. ASSUME NEW S, \A q \in S : Kept(q), NEW e \in Then(S, Last)
        PROVE  Kept(e)
    <2>1. PICK q \in S : \/ e = q
                         \/ q.ok /\ \E p \in Last(q.db) : e = [p EXCEPT !.faults = @ + q.faults]
      BY <1>8, Zenon DEF Then
    <2>2. Kept(q) /\ q.db \in SafeSessions(V)
      BY <1>8 DEF Outcomes
    <2> HIDE DEF Kept
    <2>3. QED  BY <1>5, <1>6, <2>1, <2>2
  <1>9. \A e \in Then(Begun(b), One) : Kept(e)
    BY <1>3, <1>7
  <1>10. \A e \in Then(Then(Begun(b), One), One) : Kept(e)
    BY <1>7, <1>9
  <1>11. \A e \in Then(Then(Then(Begun(b), One), One), One) : Kept(e)
    BY <1>7, <1>10
  <1>12. QED  BY <1>1, <1>8, <1>11

\* The migration of one table inside the caller's transaction.
LEMMA MigrateKeeps ==
  ASSUME NEW V, NEW b \in SafeSessions(V), NEW t, NEW o \in MigrateOne(b, t, FALSE)
  PROVE  Keeps(b, o)
  <1> DEFINE Upgrade(x) ==
               LET tab == x.seen.cat[t] IN
               IF Has(tab, {"capture"}) THEN {Err(x, 0)}
               ELSE IF Has(tab, Addable) /\ ~Has(tab, {"key"}) THEN AddColumns(x, t, FALSE)
               ELSE {Ok(x, 0)}
             Existing(x) ==
               UNION {IF ~e.ok THEN {e} ELSE {[p EXCEPT !.faults = @ + e.faults] : p \in Upgrade(e.db)}
                      : e \in fetch(x)}
             Absent(x) == {Ok(x, 0)}
             Kept(x, p) == p \in Outcomes(V) /\ Keeps(x, p)
  <1>1. ASSUME NEW x \in SafeSessions(V), NEW p \in Upgrade(x)
        PROVE  Kept(x, p)
    <2>1. CASE p = Err(x, 0)
      BY <2>1 DEF Err, Outcomes, Keeps, Spared
    <2>2. CASE p = Ok(x, 0)
      BY <2>2 DEF Ok, Outcomes, Keeps, Spared
    <2>3. CASE p \in AddColumns(x, t, FALSE)
      BY <2>3, AddsColumns, AddKeeps
    <2>4. QED  BY <1>1, <2>1, <2>2, <2>3
  <1>2. MigrateOne(b, t, FALSE) =
          UNION {{[p EXCEPT !.faults = @ + e.faults]
                  : p \in IF e.ok /\ e.db.seen.cat[t].there THEN Existing(e.db) ELSE Absent(e.db)}
                 : e \in fetch(b)}
    BY Zenon DEF MigrateOne, table_exists
  <1> HIDE DEF Upgrade
  <1>3. ASSUME NEW x \in SafeSessions(V), NEW e \in fetch(x)
        PROVE  /\ e \in Outcomes(V) /\ e.db \in SafeSessions(V) /\ e.faults \in Nat /\ Keeps(x, e)
               /\ OwnHeld(x) /\ e.faults = 0 => OwnHeld(e.db)
    <2>1. e \in Outcomes(V) /\ x \in SessionShapes
      BY Fetches DEF SafeSessions
    <2>2. QED  BY <2>1, FetchKeeps DEF Outcomes
  <1>4. ASSUME NEW x \in SafeSessions(V), NEW p \in Existing(x)
        PROVE  Kept(x, p)
    <2>1. PICK e \in fetch(x) : \/ p = e
                                \/ e.ok /\ \E q \in Upgrade(e.db) : p = [q EXCEPT !.faults = @ + e.faults]
      BY <1>4, Zenon
    <2>2. CASE p = e
      BY <1>3, <2>2
    <2>3. CASE e.ok /\ \E q \in Upgrade(e.db) : p = [q EXCEPT !.faults = @ + e.faults]
      <3>1. PICK q \in Upgrade(e.db) : p = [q EXCEPT !.faults = @ + e.faults]
        BY <2>3
      <3>2. Kept(e.db, q)
        BY <1>1, <1>3, <3>1
      <3>3. q.faults \in Nat
        BY <3>2 DEF Outcomes
      <3>4. p \in Outcomes(V) /\ p.db = q.db /\ p.ok = q.ok /\ p.faults = q.faults + e.faults
        BY <1>3, <3>1, <3>2, SummedFaults
      <3>5. QED  BY <1>3, <2>3, <3>2, <3>3, <3>4, KeepsOn
    <2>4. QED  BY <2>1, <2>2, <2>3
  <1>5. ASSUME NEW x \in SafeSessions(V), NEW p \in Absent(x)
        PROVE  Kept(x, p)
    <2>1. p = Ok(x, 0)
      BY <1>5
    <2>2. QED  BY <2>1 DEF Ok, Outcomes, Keeps, Spared
  <1> HIDE DEF Existing, Absent
  <1>6. PICK e \in fetch(b) :
          o \in {[p EXCEPT !.faults = @ + e.faults]
                 : p \in IF e.ok /\ e.db.seen.cat[t].there THEN Existing(e.db) ELSE Absent(e.db)}
    BY <1>2, Zenon
  <1>7. PICK p \in Existing(e.db) \cup Absent(e.db) : o = [p EXCEPT !.faults = @ + e.faults]
    BY <1>6, Zenon
  <1>8. Kept(e.db, p)
    BY <1>3, <1>4, <1>5, <1>7
  <1>9. p.faults \in Nat
    BY <1>8 DEF Outcomes
  <1>10. o.db = p.db /\ o.ok = p.ok /\ o.faults = p.faults + e.faults
    BY <1>3, <1>7, <1>8, SummedFaults
  <1>11. QED  BY <1>3, <1>8, <1>9, <1>10, LookedFirst

-----------------------------------------------------------------------------
\* The same of a handle: calls of its databases, unless c that commit.
Carries(c, hd, o) ==
    /\ o.db.dual = hd.dual /\ o.db.active = hd.active
    /\ ~c => /\ Spared(hd.p, o.db.p) /\ Spared(hd.s, o.db.s)
             /\ Holding(hd) /\ o.ok /\ o.faults = 0 => Holding(o.db)

\* A call that keeps the caller's transaction of a safe session, unless c.
Calls(V, c, b, q) == b \in SafeSessions(V) => q \in Outcomes(V) /\ (~c => Keeps(b, q))

LEMMA PrimaryCarries ==
  ASSUME NEW V, NEW hd \in HandlesOf(V), NEW c, NEW q, Calls(V, c, hd.p, q),
         NEW o, FromPrimary(hd, q, o)
  PROVE  Carries(c, hd, o) /\ o \in Results(V) /\ o.ok = q.ok /\ o.db.p = q.db /\ o.db.s = hd.s
  <1>1. q \in Outcomes(V) /\ (~c => Keeps(hd.p, q))
    BY HandleHolds DEF Calls
  <1>2. o \in Results(V) /\ o.ok = q.ok /\ Holds(V, hd, q.db, hd.s, o.db)
    BY <1>1, OnPrimaryIs
  <1>3. o.faults = q.faults
    <2> DEFINE k == [hd EXCEPT !.p = q.db]
    <2>1. o = [q EXCEPT !.db = k]
      BY DEF FromPrimary
    <2> HIDE DEF k
    <2>2. QED  BY <1>1, <2>1, Zenon DEF Outcomes
  <1>4. Spared(hd.s, hd.s)
    BY DEF Spared
  <1>5. QED  BY <1>1, <1>2, <1>3, <1>4 DEF Holds, Carries, Keeps, Holding

LEMMA SecondaryCarries ==
  ASSUME NEW V, NEW hd \in HandlesOf(V), hd.dual, NEW c, NEW q, Calls(V, c, hd.s, q),
         NEW o, FromSecondary(hd, q, o)
  PROVE  Carries(c, hd, o) /\ o \in Results(V) /\ o.ok = q.ok /\ o.db.p = hd.p /\ o.db.s = q.db
  <1>1. q \in Outcomes(V) /\ (~c => Keeps(hd.s, q))
    BY HandleHolds DEF Calls
  <1>2. o \in Results(V) /\ o.ok = q.ok /\ Holds(V, hd, hd.p, q.db, o.db)
    BY <1>1, OnSecondaryIs
  <1>3. o.faults = q.faults
    <2> DEFINE k == [hd EXCEPT !.s = q.db]
    <2>1. o = [q EXCEPT !.db = k]
      BY DEF FromSecondary
    <2> HIDE DEF k
    <2>2. QED  BY <1>1, <2>1, Zenon DEF Outcomes
  <1>4. Spared(hd.p, hd.p)
    BY DEF Spared
  <1>5. QED  BY <1>1, <1>2, <1>3, <1>4 DEF Holds, Carries, Keeps, Holding

\* Nothing done.
LEMMA NothingCarries ==
  ASSUME NEW V, NEW hd \in HandlesOf(V), NEW c
  PROVE  Ok(hd, 0) \in Results(V) /\ Carries(c, hd, Ok(hd, 0))
  BY DEF Ok, Results, Carries, Spared

\* One thing after another: o is what f makes of the handle that e left.
LEMMA CarriesOn ==
  ASSUME NEW c, NEW hd, NEW e, Carries(c, hd, e), e.ok, e.faults \in Nat,
         NEW f, Carries(c, e.db, f), f.faults \in Nat,
         NEW o, o.db = f.db, o.ok => f.ok, o.faults = f.faults + e.faults
  PROVE  Carries(c, hd, o)
  <1>1. o.db.dual = hd.dual /\ o.db.active = hd.active
    BY DEF Carries
  <1>2. CASE c
    BY <1>1, <1>2 DEF Carries
  <1>3. CASE ~c
    <2>1. Spared(hd.p, o.db.p) /\ Spared(hd.s, o.db.s)
      BY <1>3, SparedOn DEF Carries
    <2>2. ASSUME Holding(hd), o.ok, o.faults = 0
          PROVE  Holding(o.db)
      <3>1. e.faults = 0 /\ f.faults = 0 /\ f.ok
        BY <2>2
      <3>2. Holding(e.db)
        BY <1>3, <2>2, <3>1 DEF Carries
      <3>3. QED  BY <1>3, <3>1, <3>2 DEF Carries
    <2>3. QED  BY <1>1, <2>1, <2>2 DEF Carries
  <1>4. QED  BY <1>2, <1>3

\* Counting faults, field by field.
LEMMA CountedFaults ==
  ASSUME NEW V, NEW e \in Results(V), NEW n \in Nat, NEW o, o = [e EXCEPT !.faults = @ + n]
  PROVE  o \in Results(V) /\ o.db = e.db /\ o.ok = e.ok /\ o.faults = e.faults + n
  <1> DEFINE m == e.faults + n
  <1>1. m \in Nat
    BY DEF Results
  <1>2. o = [e EXCEPT !.faults = m]
    OBVIOUS
  <1> HIDE DEF m
  <1>3. o \in Results(V) /\ o.db = e.db /\ o.ok = e.ok /\ o.faults = m
    BY <1>1, <1>2, Zenon DEF Results
  <1>4. QED  BY <1>3 DEF m

LEMMA FollowsCarries ==
  ASSUME NEW V, NEW hd, NEW c, NEW e \in Results(V), Carries(c, hd, e),
         NEW f \in Results(V), Carries(c, e.db, f), NEW o, Follows(e, f, o)
  PROVE  Carries(c, hd, o) /\ o \in Results(V) /\ o.db = f.db /\ o.ok = f.ok
  <1>1. e.ok /\ o = [f EXCEPT !.faults = @ + e.faults]
    BY DEF Follows
  <1>2. e.faults \in Nat /\ f.faults \in Nat
    BY ResultHolds
  <1>3. o \in Results(V) /\ o.db = f.db /\ o.ok = f.ok /\ o.faults = f.faults + e.faults
    BY <1>1, <1>2, CountedFaults
  <1>4. QED  BY <1>1, <1>2, <1>3, CarriesOn

\* A call of every target, and a mirrored one.
Targets2(V, c, hd, q, o) ==
    /\ Calls(V, c, hd.p, q)
    /\ \E e : /\ FromPrimary(hd, q, e)
              /\ \/ o = e \/ Follows(e, Ok(e.db, 0), o)
                 \/ e.db.dual /\ \E r, f : /\ Calls(V, c, e.db.s, r) /\ FromSecondary(e.db, r, f)
                                           /\ Follows(e, f, o)

LEMMA TargetedCarries ==
  ASSUME NEW V, NEW hd \in HandlesOf(V), NEW c, NEW q, NEW o, Targets2(V, c, hd, q, o)
  PROVE  Carries(c, hd, o)
  <1>1. PICK e : /\ FromPrimary(hd, q, e)
                 /\ \/ o = e \/ Follows(e, Ok(e.db, 0), o)
                    \/ e.db.dual /\ \E r, f : /\ Calls(V, c, e.db.s, r) /\ FromSecondary(e.db, r, f)
                                              /\ Follows(e, f, o)
    BY Zenon DEF Targets2
  <1>2. e \in Results(V) /\ Carries(c, hd, e) /\ e.db \in HandlesOf(V)
    BY <1>1, PrimaryCarries, ResultHolds DEF Targets2
  <1>3. CASE Follows(e, Ok(e.db, 0), o)
    BY <1>2, <1>3, NothingCarries, FollowsCarries
  <1>4. CASE e.db.dual /\ \E r, f : /\ Calls(V, c, e.db.s, r) /\ FromSecondary(e.db, r, f)
                                    /\ Follows(e, f, o)
    <2>1. PICK r, f : Calls(V, c, e.db.s, r) /\ FromSecondary(e.db, r, f) /\ Follows(e, f, o)
      BY <1>4
    <2>2. f \in Results(V) /\ Carries(c, e.db, f)
      BY <1>2, <1>4, <2>1, SecondaryCarries
    <2>3. QED  BY <1>2, <2>1, <2>2, FollowsCarries
  <1>5. QED  BY <1>1, <1>2, <1>3, <1>4

Mirrors2(V, c, hd, q, o) ==
    /\ Calls(V, c, hd.p, q)
    /\ \E e : /\ FromPrimary(hd, q, e)
              /\ \/ ~e.ok /\ o = e
                 \/ ~hd.dual /\ Follows(e, Ok(e.db, 0), o)
                 \/ hd.dual /\ \E r, f, d : /\ Calls(V, c, e.db.s, r) /\ FromSecondary(e.db, r, f)
                                            /\ Mirror(e.db, f, d) /\ Follows(e, d, o)

LEMMA MirrorsCarry ==
  ASSUME NEW V, NEW hd \in HandlesOf(V), NEW c, NEW q, NEW o, Mirrors2(V, c, hd, q, o)
  PROVE  Carries(c, hd, o)
  <1>1. PICK e : /\ FromPrimary(hd, q, e)
                 /\ \/ ~e.ok /\ o = e
                    \/ ~hd.dual /\ Follows(e, Ok(e.db, 0), o)
                    \/ hd.dual /\ \E r, f, d : /\ Calls(V, c, e.db.s, r) /\ FromSecondary(e.db, r, f)
                                               /\ Mirror(e.db, f, d) /\ Follows(e, d, o)
    BY Zenon DEF Mirrors2
  <1>2. e \in Results(V) /\ Carries(c, hd, e) /\ e.db \in HandlesOf(V)
    BY <1>1, PrimaryCarries, ResultHolds DEF Mirrors2
  <1>3. CASE Follows(e, Ok(e.db, 0), o)
    BY <1>2, <1>3, NothingCarries, FollowsCarries
  <1>4. CASE hd.dual /\ \E r, f, d : /\ Calls(V, c, e.db.s, r) /\ FromSecondary(e.db, r, f)
                                     /\ Mirror(e.db, f, d) /\ Follows(e, d, o)
    <2>1. PICK r, f, d : /\ Calls(V, c, e.db.s, r) /\ FromSecondary(e.db, r, f)
                         /\ Mirror(e.db, f, d) /\ Follows(e, d, o)
      BY <1>4
    <2>2. e.db.dual
      BY <1>2, <1>4 DEF Carries
    <2>3. f \in Results(V) /\ Carries(c, e.db, f) /\ f.db \in HandlesOf(V)
      BY <1>2, <2>1, <2>2, SecondaryCarries, ResultHolds
    <2> DEFINE k == OutOfSync(f.db)
               x == ~e.db.active
    <2>4. Holds(V, f.db, f.db.p, f.db.s, k) /\ x \in BOOLEAN
      BY <2>3, OutOfSyncIs
    <2>5. d = f \/ d = [f EXCEPT !.db = k, !.ok = x]
      BY <2>1 DEF Mirror
    <2>6. CASE d = [f EXCEPT !.db = k, !.ok = x]
      <3> HIDE DEF k
      <3>1. d \in Results(V) /\ d.db = k /\ d.ok = x
        <4> HIDE DEF x
        <4>1. QED  BY <2>3, <2>4, <2>6, Zenon DEF Results, Holds
      <3>2. ~(d.ok /\ Holding(e.db))
        BY <2>2, <3>1 DEF Holding
      <3>3. Carries(c, e.db, d)
        BY <2>3, <2>4, <3>1, <3>2 DEF Carries, Holds
      <3>4. QED  BY <1>2, <2>1, <3>1, <3>3, FollowsCarries
    <2>7. QED  BY <1>2, <2>1, <2>3, <2>5, <2>6, FollowsCarries
  <1>5. QED  BY <1>1, <1>2, <1>3, <1>4

\* A verification keeps it, whether it is passed or not.
LEMMA LooksKeeps ==
  ASSUME NEW V, NEW c, NEW b, NEW q, Looks(b, q)
  PROVE  Calls(V, c, b, q)
  <1> SUFFICES ASSUME b \in SafeSessions(V)  PROVE q \in Outcomes(V) /\ Keeps(b, q)
    BY DEF Calls
  <1>1. PICK x \in fetch(b) : q = x \/ q = Err(x.db, x.faults)
    BY DEF Looks
  <1>2. q \in Outcomes(V) /\ Keeps(b, x)
    BY LooksIs, FetchKeeps DEF Safely, SafeSessions
  <1>3. CASE q = Err(x.db, x.faults)
    BY <1>2, <1>3 DEF Err, Keeps
  <1>4. QED  BY <1>1, <1>2, <1>3

LEMMA ChecksCarry ==
  ASSUME NEW V, NEW hd \in HandlesOf(V), NEW c, NEW o, Checks(hd, o)
  PROVE  o \in Results(V) /\ Carries(c, hd, o)
  <1>1. \E q : Targets2(V, c, hd, q, o)
    BY LooksKeeps, Zenon DEF Checks, Targets2
  <1>2. QED  BY <1>1, ChecksIs, TargetedCarries

\* That of a writer.
LEMMA RowChecks ==
  ASSUME NEW hd, NEW t, NEW o \in RowCheck(hd, t)
  PROVE  Checks(hd, o)
  <1> DEFINE P(cat) == verify_storage(cat[t], FALSE)
             F(b) == Check(b, P)
             N(g) == IF g.dual /\ g.s.open THEN OnSecondary(g, F) ELSE {Ok(g, 0)}
  <1>1. o \in Then(OnPrimary(hd, F), N)
    BY Zenon DEF RowCheck, CheckTargets, OnTargets
  <1> HIDE DEF P
  <1>2. \A b : \A q \in F(b) : Looks(b, q)
    BY Zenon DEF Check, Looks
  <1> HIDE DEF F
  <1>3. \A e \in OnPrimary(hd, F) : \E q : Looks(hd.p, q) /\ FromPrimary(hd, q, e)
    BY <1>2, Zenon DEF OnPrimary, FromPrimary
  <1>4. \A g : \A f \in N(g) : \/ f = Ok(g, 0)
                               \/ g.dual /\ \E r : Looks(g.s, r) /\ FromSecondary(g, r, f)
    BY <1>2, Zenon DEF OnSecondary, FromSecondary
  <1> HIDE DEF N
  <1>5. PICK e \in OnPrimary(hd, F) : o = e \/ \E f \in N(e.db) : Follows(e, f, o)
    BY <1>1, Zenon DEF Then, Follows
  <1>6. QED  BY <1>3, <1>4, <1>5, Zenon DEF Checks

LEMMA RowCheckCarries ==
  ASSUME NEW V, NEW hd \in HandlesOf(V), NEW t, NEW c, NEW o \in RowCheck(hd, t)
  PROVE  Carries(c, hd, o)
  BY RowChecks, ChecksCarry

\* The migration of a table commits when it is told to.
LEMMA MigrateCarries ==
  ASSUME NEW V, NEW hd \in HandlesOf(V), NEW t, NEW c \in BOOLEAN,
         NEW o \in migrate_table_if_needed(hd, t, c)
  PROVE  Carries(c, hd, o)
  <1> DEFINE F(b) == MigrateOne(b, t, c)
             N(g) == IF g.dual /\ g.s.open THEN OnSecondary(g, F) ELSE {Ok(g, 0)}
  <1>1. o \in Then(OnPrimary(hd, F), N)
    BY Zenon DEF migrate_table_if_needed, OnTargets
  <1>2. \A b : \A q \in F(b) : Calls(V, c, b, q)
    <2> SUFFICES ASSUME NEW b \in SafeSessions(V), NEW q \in F(b)
                 PROVE  q \in Outcomes(V) /\ (~c => Keeps(b, q))
      BY DEF Calls
    <2>1. q \in Outcomes(V)
      BY Migrates
    <2>2. CASE c = FALSE
      BY <2>1, <2>2, MigrateKeeps
    <2>3. QED  BY <2>1, <2>2
  <1> HIDE DEF F
  <1>3. \A e \in OnPrimary(hd, F) : \E q : Calls(V, c, hd.p, q) /\ FromPrimary(hd, q, e)
    BY <1>2, Zenon DEF OnPrimary, FromPrimary
  <1>4. \A g : \A f \in N(g) : \/ f = Ok(g, 0)
                               \/ g.dual /\ \E r : Calls(V, c, g.s, r) /\ FromSecondary(g, r, f)
    BY <1>2, Zenon DEF OnSecondary, FromSecondary
  <1> HIDE DEF N
  <1>5. PICK e \in OnPrimary(hd, F) : o = e \/ \E f \in N(e.db) : Follows(e, f, o)
    BY <1>1, Zenon DEF Then, Follows
  <1>6. \E q : Targets2(V, c, hd, q, o)
    BY <1>3, <1>4, <1>5, Zenon DEF Targets2
  <1>7. QED  BY <1>6, TargetedCarries

\* The name of a table is only looked up.
LEMMA KnowsKeeps ==
  ASSUME NEW V, NEW b \in SafeSessions(V), NEW t, NEW o \in Knows(b, t)
  PROVE  Keeps(b, o)
  <1> DEFINE There(x) == {Ok(x, 0)}
             Absent(x) == {IF LegacyOnly(x.seen.cat[t]) THEN Err(x, 0) ELSE Ok(x, 0)}
  <1>1. Knows(b, t) =
          UNION {{[p EXCEPT !.faults = @ + e.faults]
                  : p \in IF e.ok /\ e.db.seen.cat[t].there THEN There(e.db) ELSE Absent(e.db)}
                 : e \in fetch(b)}
    BY Zenon DEF Knows, table_exists
  <1>2. \A x : \A p \in There(x) \cup Absent(x) : p = Ok(x, 0) \/ p = Err(x, 0)
    BY Zenon
  <1> HIDE DEF There, Absent
  <1>3. PICK e \in fetch(b) :
          o \in {[p EXCEPT !.faults = @ + e.faults]
                 : p \in IF e.ok /\ e.db.seen.cat[t].there THEN There(e.db) ELSE Absent(e.db)}
    BY <1>1, Zenon
  <1>4. PICK p \in There(e.db) \cup Absent(e.db) : o = [p EXCEPT !.faults = @ + e.faults]
    BY <1>3, Zenon
  <1>5. /\ e.db \in SafeSessions(V) /\ e.faults \in Nat /\ Keeps(b, e)
        /\ OwnHeld(b) /\ e.faults = 0 => OwnHeld(e.db)
    BY Fetches, FetchKeeps DEF Outcomes, SafeSessions
  <1>6. p \in Outcomes(V) /\ Keeps(e.db, p) /\ p.faults \in Nat
    <2>1. p = Ok(e.db, 0) \/ p = Err(e.db, 0)
      BY <1>2, <1>4
    <2>2. CASE p = Ok(e.db, 0)
      BY <1>5, <2>2 DEF Ok, Outcomes, Keeps, Spared
    <2>3. CASE p = Err(e.db, 0)
      BY <1>5, <2>3 DEF Err, Outcomes, Keeps, Spared
    <2>4. QED  BY <2>1, <2>2, <2>3
  <1>7. o.db = p.db /\ o.ok = p.ok /\ o.faults = p.faults + e.faults
    BY <1>4, <1>5, <1>6, SummedFaults
  <1>8. QED  BY <1>5, <1>6, <1>7, LookedFirst

LEMMA ResolveCarries ==
  ASSUME NEW V, NEW hd \in HandlesOf(V), NEW t, NEW c, NEW o \in resolve_standard_table_name(hd, t)
  PROVE  Carries(c, hd, o)
  <1> DEFINE F(b) == Knows(b, t)
             N(g) == IF g.dual /\ g.s.open THEN OnSecondary(g, F) ELSE {Ok(g, 0)}
  <1>1. o \in OnPrimary(hd, F) \/ o \in Then(OnPrimary(hd, F), N)
    BY Zenon DEF resolve_standard_table_name, OnTargets, Knows
  <1>2. \A b : \A q \in F(b) : Calls(V, c, b, q)
    BY KnowsIs, KnowsKeeps DEF Calls
  <1> HIDE DEF F
  <1>3. \A e \in OnPrimary(hd, F) : \E q : Calls(V, c, hd.p, q) /\ FromPrimary(hd, q, e)
    BY <1>2, Zenon DEF OnPrimary, FromPrimary
  <1>4. \A g : \A f \in N(g) : \/ f = Ok(g, 0)
                               \/ g.dual /\ \E r : Calls(V, c, g.s, r) /\ FromSecondary(g, r, f)
    BY <1>2, Zenon DEF OnSecondary, FromSecondary
  <1> HIDE DEF N
  <1>5. PICK e \in OnPrimary(hd, F) : o = e \/ \E f \in N(e.db) : Follows(e, f, o)
    BY <1>1, Zenon DEF Then, Follows
  <1>6. \E q : Targets2(V, c, hd, q, o)
    BY <1>3, <1>4, <1>5, Zenon DEF Targets2
  <1>7. QED  BY <1>6, TargetedCarries

\* A look at the primary: what follows it goes on whatever became of it.
Looked(hd, e) ==
    /\ e.db.dual = hd.dual /\ e.db.active = hd.active
    /\ Spared(hd.p, e.db.p) /\ Spared(hd.s, e.db.s)
    /\ Holding(hd) /\ e.faults = 0 => Holding(e.db)

LEMMA FetchLooks ==
  ASSUME NEW V, NEW hd \in HandlesOf(V), NEW o \in OnPrimary(hd, fetch)
  PROVE  Looked(hd, o)
  <1>1. PICK q \in fetch(hd.p) : FromPrimary(hd, q, o)
    BY Zenon DEF OnPrimary, FromPrimary
  <1>2. /\ q \in Outcomes(V) /\ Keeps(hd.p, q)
        /\ OwnHeld(hd.p) /\ q.faults = 0 => OwnHeld(q.db)
    BY <1>1, HandleHolds, Fetches, FetchKeeps DEF SafeSessions
  <1>3. Holds(V, hd, q.db, hd.s, o.db)
    BY <1>1, <1>2, OnPrimaryIs
  <1>4. o.faults = q.faults
    <2> DEFINE k == [hd EXCEPT !.p = q.db]
    <2>1. o = [q EXCEPT !.db = k]
      BY <1>1 DEF FromPrimary
    <2> HIDE DEF k
    <2>2. QED  BY <1>2, <2>1, Zenon DEF Outcomes
  <1>5. QED  BY <1>2, <1>3, <1>4 DEF Holds, Looked, Keeps, Holding, Spared

LEMMA LookedCarries ==
  ASSUME NEW V, NEW c, NEW hd, NEW e \in Results(V), Looked(hd, e),
         NEW f \in Results(V), Carries(c, e.db, f), NEW o, o = [f EXCEPT !.faults = @ + e.faults]
  PROVE  Carries(c, hd, o)
  <1>1. e.faults \in Nat /\ f.faults \in Nat
    BY ResultHolds
  <1>2. o.db = f.db /\ o.ok = f.ok /\ o.faults = f.faults + e.faults
    BY <1>1, CountedFaults
  <1>3. CASE c
    BY <1>2, <1>3 DEF Carries, Looked
  <1>4. CASE ~c
    <2>1. Spared(hd.p, o.db.p) /\ Spared(hd.s, o.db.s)
      BY <1>2, <1>4, SparedOn DEF Carries, Looked
    <2>2. ASSUME Holding(hd), o.ok, o.faults = 0
          PROVE  Holding(o.db)
      BY <1>1, <1>2, <1>4, <2>2 DEF Carries, Looked
    <2>3. QED  BY <1>2, <2>1, <2>2 DEF Carries, Looked
  <1>5. QED  BY <1>3, <1>4

LEMMA CheckedThereCarries ==
  ASSUME NEW V, NEW hd \in HandlesOf(V), NEW t, NEW c, NEW o \in CheckedThere(hd, t)
  PROVE  Carries(c, hd, o)
  <1> DEFINE F(g) == StandardCheck(g, t)
             N(e) == IF e.ok /\ e.db.p.seen.cat[t].there THEN F(e.db) ELSE {Ok(e.db, 0)}
  <1>1. CheckedThere(hd, t) =
          UNION {{[q EXCEPT !.faults = @ + e.faults] : q \in N(e)} : e \in OnPrimary(hd, fetch)}
    BY Zenon DEF CheckedThere, IfThere
  <1>2. \A e : e.db \in HandlesOf(V) =>
          \A q \in N(e) : (q \in Results(V) /\ Carries(c, e.db, q)) \/ q = Ok(e.db, 0)
    BY StandardIs, ChecksCarry
  <1> HIDE DEF N
  <1>3. PICK e \in OnPrimary(hd, fetch) : o \in {[q EXCEPT !.faults = @ + e.faults] : q \in N(e)}
    BY <1>1, Zenon
  <1>4. PICK q \in N(e) : o = [q EXCEPT !.faults = @ + e.faults]
    BY <1>3, Zenon
  <1>5. e \in Results(V) /\ e.db \in HandlesOf(V) /\ Looked(hd, e)
    BY FetchIs, FetchLooks, ResultHolds
  <1>6. q \in Results(V) /\ Carries(c, e.db, q)
    BY <1>2, <1>4, <1>5, NothingCarries
  <1>7. QED  BY <1>4, <1>5, <1>6, LookedCarries

LEMMA StandardPreflightCarries ==
  ASSUME NEW V, NEW hd \in HandlesOf(V), NEW t, NEW c, NEW o \in StandardPreflight(hd, t)
  PROVE  Carries(c, hd, o)
  <1> DEFINE N(g) == CheckedThere(g, t)
  <1>1. o \in Then(resolve_standard_table_name(hd, t), N)
    BY Zenon DEF StandardPreflight, CheckedThere, StandardCheck
  <1>2. \A g \in HandlesOf(V) : \A f \in N(g) : f \in Results(V) /\ Carries(c, g, f)
    BY CheckedThereIs, CheckedThereCarries
  <1> HIDE DEF N
  <1>3. PICK e \in resolve_standard_table_name(hd, t) :
          o = e \/ \E f \in N(e.db) : Follows(e, f, o)
    BY <1>1, Zenon DEF Then, Follows
  <1>4. e \in Results(V) /\ e.db \in HandlesOf(V) /\ Carries(c, hd, e)
    BY ResolveIs, ResolveCarries, ResultHolds
  <1>5. QED  BY <1>2, <1>3, <1>4, FollowsCarries

LEMMA UpgradedTableCarries ==
  ASSUME NEW V, NEW hd \in HandlesOf(V), NEW t, NEW c \in BOOLEAN, NEW only, NEW later,
         NEW o \in Upgraded(hd, t, c, only, later)
  PROVE  Carries(c, hd, o)
  <1> DEFINE S == IF only THEN {Ok(hd, 0)} ELSE migrate_table_if_needed(hd, t, c)
             N(g) == IF later THEN {Ok(g, 0)} ELSE GenericCheck(g, t)
  <1>1. o \in Then(S, N)
    BY Zenon DEF Upgraded
  <1>2. \A g \in HandlesOf(V) : Ok(g, 0) \in Results(V) /\ Carries(c, g, Ok(g, 0))
    BY NothingCarries
  <1>3. \A g \in HandlesOf(V) : \A f \in N(g) : f \in Results(V) /\ Carries(c, g, f)
    BY <1>2, GenericIs, ChecksCarry
  <1>4. \A e \in S : e \in Results(V) /\ Carries(c, hd, e)
    BY <1>2, MigrateIs, MigrateCarries
  <1> HIDE DEF S, N
  <1>5. PICK e \in S : o = e \/ \E f \in N(e.db) : Follows(e, f, o)
    BY <1>1, Zenon DEF Then, Follows
  <1>6. e \in Results(V) /\ e.db \in HandlesOf(V) /\ Carries(c, hd, e)
    BY <1>4, ResultHolds
  <1>7. QED  BY <1>3, <1>5, <1>6, FollowsCarries

LEMMA StandardMigrateCarries ==
  ASSUME NEW V, NEW hd \in HandlesOf(V), NEW t, NEW c \in BOOLEAN, NEW o \in StandardMigrate(hd, t, c)
  PROVE  Carries(c, hd, o)
  <1> DEFINE only == Kind(hd, t) \in NONADDITIVE_STANDARD
             later == Kind(hd, t) \in ORDERED_MASTER
             F(g) == Upgraded(g, t, c, only, later)
             N(e) == IF e.ok /\ e.db.p.seen.cat[t].there THEN F(e.db) ELSE {Ok(e.db, 0)}
  <1>1. StandardMigrate(hd, t, c) =
          UNION {{[q EXCEPT !.faults = @ + e.faults] : q \in N(e)} : e \in OnPrimary(hd, fetch)}
    BY Zenon DEF StandardMigrate, IfThere, Upgraded, GenericCheck
  <1> HIDE DEF only, later
  <1>2. \A e : e.db \in HandlesOf(V) =>
          \A q \in N(e) : (q \in Results(V) /\ Carries(c, e.db, q)) \/ q = Ok(e.db, 0)
    BY UpgradedTableIs, UpgradedTableCarries
  <1> HIDE DEF N
  <1>3. PICK e \in OnPrimary(hd, fetch) : o \in {[q EXCEPT !.faults = @ + e.faults] : q \in N(e)}
    BY <1>1, Zenon
  <1>4. PICK q \in N(e) : o = [q EXCEPT !.faults = @ + e.faults]
    BY <1>3, Zenon
  <1>5. e \in Results(V) /\ e.db \in HandlesOf(V) /\ Looked(hd, e)
    BY FetchIs, FetchLooks, ResultHolds
  <1>6. q \in Results(V) /\ Carries(c, e.db, q)
    BY <1>2, <1>4, <1>5, NothingCarries
  <1>7. QED  BY <1>4, <1>5, <1>6, LookedCarries

\* Rows, on both.
LEMMA WritesCarry ==
  ASSUME NEW V, NEW hd \in HandlesOf(V), NEW t \in V, NEW c, NEW o \in Writes(hd, t)
  PROVE  Carries(c, hd, o)
  <1> DEFINE F(b) == upsert(b, t)
             Second(g) == {IF f.ok THEN f
                           ELSE [f EXCEPT !.db = OutOfSync(f.db), !.ok = ~g.active]
                           : f \in OnSecondary(g, F)}
             N(g) == IF hd.dual THEN Second(g) ELSE {Ok(g, 0)}
  <1>1. o \in Then(OnPrimary(hd, F), N)
    BY Zenon DEF Writes, Mirrored
  <1>2. \A b : \A q \in F(b) : Calls(V, c, b, q)
    BY Upserts, UpsertKeeps DEF Calls
  <1> HIDE DEF F
  <1>3. \A e \in OnPrimary(hd, F) : \E q \in F(hd.p) : FromPrimary(hd, q, e)
    BY <1>2, Zenon DEF OnPrimary, FromPrimary
  <1>4. \A g : \A d \in N(g) : \/ ~hd.dual /\ d = Ok(g, 0)
                               \/ hd.dual /\ \E r, f : /\ Calls(V, c, g.s, r) /\ FromSecondary(g, r, f)
                                                       /\ Mirror(g, f, d)
    BY <1>2, Zenon DEF OnSecondary, FromSecondary, Mirror
  <1> HIDE DEF N
  <1>5. PICK e \in OnPrimary(hd, F) : (~e.ok /\ o = e) \/ \E d \in N(e.db) : Follows(e, d, o)
    BY <1>1, Zenon DEF Then, Follows
  <1>6. \E q \in F(hd.p) : Mirrors2(V, c, hd, q, o)
    BY <1>2, <1>3, <1>4, <1>5, Zenon DEF Mirrors2
  <1>7. QED  BY <1>6, MirrorsCarry

LEMMA RowWrittenCarries ==
  ASSUME NEW V, NEW hd \in HandlesOf(V), NEW t, NEW c, NEW o \in RowWritten(V, hd, t)
  PROVE  Carries(c, hd, o)
  <1> DEFINE N(g) == Writes(g, t)
  <1>1. o \in Then(Verified(V, hd, t), N)
    BY Zenon DEF RowWritten
  <1>2. \A g \in HandlesOf(V \cup {t}) :
          \A f \in N(g) : f \in Results(V \cup {t}) /\ Carries(c, g, f)
    BY WritesIs, WritesCarry
  <1> HIDE DEF N
  <1>3. PICK e \in Verified(V, hd, t) : (~e.ok /\ o = e) \/ \E f \in N(e.db) : Follows(e, f, o)
    BY <1>1, Zenon DEF Then, Follows
  <1>4. e \in Results(V) /\ Carries(c, hd, e) /\ (e.ok => e \in Results(V \cup {t}))
    <2>1. CASE t \in V
      <3>1. e = Ok(hd, 0)
        BY <2>1, Zenon DEF Verified
      <3>2. V = V \cup {t}
        BY <2>1
      <3>3. QED  BY <3>1, <3>2, NothingCarries
    <2>2. CASE t \notin V
      <3>1. e \in RowCheck(hd, t)
        BY <2>2 DEF Verified
      <3>2. QED  BY <3>1, RowCheckIs, RowCheckCarries
    <2>3. QED  BY <2>1, <2>2
  <1>5. CASE \E f \in N(e.db) : Follows(e, f, o)
    <2>1. PICK f \in N(e.db) : Follows(e, f, o)
      BY <1>5
    <2>2. e \in Results(V \cup {t}) /\ e.db \in HandlesOf(V \cup {t})
      BY <1>4, <2>1, ResultHolds DEF Follows
    <2>3. QED  BY <1>2, <1>4, <2>1, <2>2, FollowsCarries
  <1>6. QED  BY <1>3, <1>4, <1>5

\* The handle k, that comes from hd, has no row of the caller more durable.
SparesBoth(hd, k) == k.dual = hd.dual /\ Spared(hd.p, k.p) /\ Spared(hd.s, k.s)

LEMMA SparesOn ==
  ASSUME NEW a, NEW b, NEW c, SparesBoth(a, b), SparesBoth(b, c)
  PROVE  SparesBoth(a, c)
  BY SparedOn DEF SparesBoth

LEMMA SparesSame ==
  ASSUME NEW a, NEW b, b.dual = a.dual, b.p = a.p, b.s = a.s
  PROVE  SparesBoth(a, b)
  BY DEF SparesBoth, Spared

LEMMA PrimarySpares ==
  ASSUME NEW V, NEW hd \in HandlesOf(V), NEW q \in Outcomes(V), Spared(hd.p, q.db),
         NEW o, FromPrimary(hd, q, o)
  PROVE  /\ o \in Results(V) /\ o.db \in HandlesOf(V) /\ o.ok = q.ok
         /\ o.db.p = q.db /\ o.db.s = hd.s /\ o.db.active = hd.active
         /\ SparesBoth(hd, o.db)
  <1>1. o \in Results(V) /\ o.ok = q.ok /\ Holds(V, hd, q.db, hd.s, o.db)
    BY OnPrimaryIs
  <1>2. QED  BY <1>1 DEF Holds, SparesBoth, Spared

LEMMA SecondarySpares ==
  ASSUME NEW V, NEW hd \in HandlesOf(V), hd.dual, NEW q \in Outcomes(V), Spared(hd.s, q.db),
         NEW o, FromSecondary(hd, q, o)
  PROVE  /\ o \in Results(V) /\ o.db \in HandlesOf(V) /\ o.ok = q.ok
         /\ o.db.p = hd.p /\ o.db.s = q.db /\ o.db.active = hd.active
         /\ SparesBoth(hd, o.db)
  <1>1. o \in Results(V) /\ o.ok = q.ok /\ Holds(V, hd, hd.p, q.db, o.db)
    BY OnSecondaryIs
  <1>2. QED  BY <1>1 DEF Holds, SparesBoth, Spared

\* Closing what was opened since snap leaves the transactions of before alone,
\* and none when there was none.
LEMMA CloseCreatedSpares ==
  ASSUME NEW V, NEW hd \in HandlesOf(V), NEW snap, NEW o \in CloseCreated(hd, snap)
  PROVE  /\ SparesBoth(hd, o.db) /\ o.db.active = hd.active
         /\ Holding(hd) /\ snap.p /\ (hd.dual => snap.s) => Holding(o.db)
         /\ ~hd.active /\ ~snap.p /\ ~snap.s /\ o.ok => ~Pending(o.db)
  <1> DEFINE F(b) == Closes(snap.p, b)
             G(b) == Closes(snap.s, b)
             S(g) == IF g.dual /\ g.s.open THEN OnSecondary(g, G) ELSE {Ok(g, 0)}
             Second(g, x) == {[f EXCEPT !.ok = @ /\ x] : f \in S(g)}
  <1>1. CloseCreated(hd, snap) =
          UNION {{[q EXCEPT !.faults = @ + e.faults] : q \in Second(e.db, e.ok)}
                 : e \in OnPrimary(hd, F)}
    BY Zenon DEF CloseCreated, Closes, Recovers
  <1>2. \A e \in OnPrimary(hd, F) : \E q \in Closes(snap.p, hd.p) : FromPrimary(hd, q, e)
    BY Zenon DEF OnPrimary, FromPrimary
  <1>3. \A g : \A f \in S(g) :
          \/ f = Ok(g, 0) /\ ~(g.dual /\ g.s.open)
          \/ g.dual /\ \E q \in Closes(snap.s, g.s) : FromSecondary(g, q, f)
    BY Zenon DEF OnSecondary, FromSecondary
  <1> HIDE DEF F, G, S
  <1>4. PICK e \in OnPrimary(hd, F) :
          o \in {[q EXCEPT !.faults = @ + e.faults] : q \in Second(e.db, e.ok)}
    BY <1>1, Zenon
  <1>5. PICK f \in S(e.db) :
          \E r : r = [f EXCEPT !.ok = @ /\ e.ok] /\ o = [r EXCEPT !.faults = @ + e.faults]
    BY <1>4, Zenon
  <1>6. PICK q \in Closes(snap.p, hd.p) : FromPrimary(hd, q, e)
    BY <1>2
  <1>7. /\ q \in Outcomes(V) /\ Spared(hd.p, q.db) /\ (snap.p => q.db = hd.p)
        /\ ~snap.p /\ q.ok => ~has_pending_transaction(q.db)
    <2>1. hd.p \in SafeSessions(V)
      BY HandleHolds
    <2>2. q \in Outcomes(V) /\ Spared(hd.p, q.db) /\ (snap.p => q = Ok(hd.p, 0))
          /\ (~snap.p /\ q.ok => ~has_pending_transaction(q.db))
      BY <1>6, <2>1, ClosesIs, CloseSpares
    <2>3. QED  BY <2>2 DEF Ok
  <1>8. /\ e \in Results(V) /\ e.db \in HandlesOf(V) /\ e.ok = q.ok /\ e.db.p = q.db
        /\ e.db.s = hd.s /\ e.db.active = hd.active /\ SparesBoth(hd, e.db)
    BY <1>6, <1>7, PrimarySpares
  <1>9. /\ f \in Results(V) /\ SparesBoth(e.db, f.db) /\ f.db.active = e.db.active
        /\ f.db.p = e.db.p /\ (snap.s => f.db.s = e.db.s)
        /\ ~snap.s /\ f.ok => \/ ~(f.db.dual /\ f.db.s.open)
                              \/ ~has_pending_transaction(f.db.s)
    <2>1. CASE f = Ok(e.db, 0) /\ ~(e.db.dual /\ e.db.s.open)
      BY <1>8, <2>1, SparesSame DEF Ok, Results
    <2>2. CASE e.db.dual /\ \E r \in Closes(snap.s, e.db.s) : FromSecondary(e.db, r, f)
      <3>1. PICK r \in Closes(snap.s, e.db.s) : FromSecondary(e.db, r, f)
        BY <2>2
      <3>2. e.db.s \in SafeSessions(V)
        BY <1>8, HandleHolds
      <3>3. /\ r \in Outcomes(V) /\ Spared(e.db.s, r.db) /\ (snap.s => r = Ok(e.db.s, 0))
            /\ ~snap.s /\ r.ok => ~has_pending_transaction(r.db)
        BY <3>1, <3>2, ClosesIs, CloseSpares
      <3>4. snap.s => r.db = e.db.s
        BY <3>3 DEF Ok
      <3>5. QED  BY <1>8, <2>2, <3>1, <3>3, <3>4, SecondarySpares
    <2>3. QED  BY <1>3, <2>1, <2>2
  <1>10. o.db = f.db /\ (o.ok => f.ok /\ e.ok)
    <2>1. PICK r : r = [f EXCEPT !.ok = @ /\ e.ok] /\ o = [r EXCEPT !.faults = @ + e.faults]
      BY <1>5
    <2> DEFINE x == f.ok /\ e.ok
    <2>2. x \in BOOLEAN
      BY <1>8, <1>9, ResultHolds
    <2>3. r = [f EXCEPT !.ok = x]
      BY <2>1
    <2> HIDE DEF x
    <2>4. r \in Results(V) /\ r.db = f.db /\ r.ok = x
      BY <1>9, <2>2, <2>3, Zenon DEF Results
    <2>5. o.db = r.db /\ o.ok = r.ok
      BY <1>8, <2>1, <2>4, CountedIs, ResultHolds
    <2>6. QED  BY <2>4, <2>5 DEF x
  <1>11. SparesBoth(hd, o.db) /\ o.db.active = hd.active
    BY <1>8, <1>9, <1>10, SparesOn
  <1>12. ASSUME Holding(hd), snap.p, hd.dual => snap.s
         PROVE  Holding(o.db)
    <2>1. o.db.dual = hd.dual
      BY <1>11 DEF SparesBoth
    <2>2. QED  BY <1>7, <1>8, <1>9, <1>10, <1>11, <1>12, <2>1 DEF Holding
  <1>13. ASSUME ~hd.active, ~snap.p, ~snap.s, o.ok
         PROVE  ~Pending(o.db)
    BY <1>7, <1>8, <1>9, <1>10, <1>11, <1>13 DEF Pending
  <1>14. QED  BY <1>11, <1>12, <1>13

\* A call whose failure closes what was opened.
LEMMA CloseAfterCarries ==
  ASSUME NEW V, NEW hd \in HandlesOf(V), NEW S, S \subseteq Results(V), NEW c,
         \A e \in S : Carries(c, hd, e), NEW snap, NEW o \in CloseAfter(S, snap)
  PROVE  Carries(c, hd, o)
  <1>1. PICK e \in S : \/ o = e
                       \/ \E q \in CloseCreated(e.db, snap) : o = Err(q.db, e.faults + q.faults)
    BY Zenon DEF CloseAfter, Handling
  <1>2. e.db \in HandlesOf(V) /\ Carries(c, hd, e)
    BY ResultHolds
  <1>3. CASE \E q \in CloseCreated(e.db, snap) : o = Err(q.db, e.faults + q.faults)
    <2>1. PICK q \in CloseCreated(e.db, snap) : o = Err(q.db, e.faults + q.faults)
      BY <1>3
    <2>2. SparesBoth(e.db, q.db) /\ q.db.active = e.db.active
      BY <1>2, <2>1, CloseCreatedSpares
    <2>3. o.db = q.db /\ o.ok = FALSE
      BY <2>1 DEF Err
    <2>4. o.db.dual = hd.dual /\ o.db.active = hd.active
      BY <1>2, <2>2, <2>3 DEF Carries, SparesBoth
    <2>5. ~c => Spared(hd.p, o.db.p) /\ Spared(hd.s, o.db.s)
      BY <1>2, <2>2, <2>3, SparedOn DEF Carries, SparesBoth
    <2>6. QED  BY <2>3, <2>4, <2>5 DEF Carries
  <1>4. QED  BY <1>1, <1>2, <1>3

\* A connection that is left.
LEMMA DisconnectsSpare ==
  ASSUME NEW V, NEW hd \in HandlesOf(V), NEW o \in Disconnect(hd)
  PROVE  SparesBoth(hd, o.db) /\ o \in Results(V)
  <1>1. ASSUME NEW e \in OnPrimary(hd, disconnect)
        PROVE  e \in Results(V) /\ e.db \in HandlesOf(V) /\ SparesBoth(hd, e.db)
    <2>1. PICK q \in disconnect(hd.p) : FromPrimary(hd, q, e)
      BY <1>1, Zenon DEF OnPrimary, FromPrimary
    <2>2. q \in Outcomes(V) /\ Spared(hd.p, q.db)
      BY <2>1, HandleHolds, Disconnects, DisconnectSpares DEF SafeSessions
    <2>3. QED  BY <2>1, <2>2, PrimarySpares
  <1>2. ASSUME NEW g \in HandlesOf(V), g.dual, NEW e \in OnSecondary(g, disconnect)
        PROVE  e \in Results(V) /\ e.db \in HandlesOf(V) /\ SparesBoth(g, e.db)
    <2>1. PICK q \in disconnect(g.s) : FromSecondary(g, q, e)
      BY <1>2, Zenon DEF OnSecondary, FromSecondary
    <2>2. q \in Outcomes(V) /\ Spared(g.s, q.db)
      BY <2>1, HandleHolds, Disconnects, DisconnectSpares DEF SafeSessions
    <2>3. QED  BY <1>2, <2>1, <2>2, SecondarySpares
  <1>3. CASE ~hd.dual
    BY <1>1, <1>3, DisconnectIs DEF Disconnect
  <1>4. CASE hd.dual
    <2>1. PICK e \in OnPrimary(hd, disconnect) :
            \E q \in OnSecondary(e.db, disconnect) :
               o = IF e.ok THEN Ok([q.db EXCEPT !.active = FALSE], e.faults + q.faults)
                   ELSE Err(q.db, e.faults + q.faults)
      BY <1>4, Zenon DEF Disconnect
    <2>2. PICK q \in OnSecondary(e.db, disconnect) :
               o = IF e.ok THEN Ok([q.db EXCEPT !.active = FALSE], e.faults + q.faults)
                   ELSE Err(q.db, e.faults + q.faults)
      BY <2>1
    <2>3. e.db \in HandlesOf(V) /\ SparesBoth(hd, e.db) /\ e.db.dual
      BY <1>1, <1>4, <2>1 DEF SparesBoth
    <2>4. q.db \in HandlesOf(V) /\ SparesBoth(e.db, q.db)
      BY <1>2, <2>2, <2>3
    <2> DEFINE c == q.db
               k == [c EXCEPT !.active = FALSE]
    <2>5. k.p = c.p /\ k.s = c.s /\ k.dual = c.dual
      BY <2>4, Zenon DEF HandlesOf, HandleShapes
    <2>6. o = Ok(k, e.faults + q.faults) \/ o = Err(c, e.faults + q.faults)
      BY <2>2, Zenon
    <2>7. SparesBoth(hd, c)
      BY <2>3, <2>4, SparesOn
    <2> HIDE DEF c, k
    <2>8. SparesBoth(hd, k)
      BY <2>5, <2>7 DEF SparesBoth
    <2>9. o.db = k \/ o.db = c
      BY <2>6 DEF Ok, Err
    <2>10. QED  BY <2>7, <2>8, <2>9, DisconnectIs
  <1>5. QED  BY <1>3, <1>4

\* The end of a transaction, noted, field by field.
LEMMA NotedSpares ==
  ASSUME NEW V, NEW hd \in HandlesOf(V), NEW x \in BOOLEAN
  PROVE  LET k == [hd EXCEPT !.active = FALSE, !.sync = @ /\ x] IN
         k.p = hd.p /\ k.s = hd.s /\ k.dual = hd.dual /\ k.active = FALSE
  BY Zenon DEF HandlesOf, HandleShapes

\* A rollback.
LEMMA RollsBackBoth ==
  ASSUME NEW V, NEW hd \in HandlesOf(V), NEW o \in Rollback(hd)
  PROVE  /\ SparesBoth(hd, o.db) /\ o \in Results(V)
         /\ o.ok => ~is_transaction_active(o.db)
         /\ ~hd.active => ~o.db.active
  <1>1. ASSUME NEW e \in OnPrimary(hd, rollback)
        PROVE  /\ e \in Results(V) /\ e.db \in HandlesOf(V) /\ SparesBoth(hd, e.db)
               /\ (e.ok => ~e.db.p.active) /\ e.db.active = hd.active
    <2>1. PICK q \in rollback(hd.p) : FromPrimary(hd, q, e)
      BY <1>1, Zenon DEF OnPrimary, FromPrimary
    <2>2. q \in Outcomes(V) /\ Spared(hd.p, q.db) /\ (q.ok => ~q.db.active)
      BY <2>1, HandleHolds, RollsBack, RollbackSpares DEF SafeSessions
    <2>3. QED  BY <2>1, <2>2, PrimarySpares
  <1>2. ASSUME NEW g \in HandlesOf(V), g.dual, NEW e \in OnSecondary(g, rollback)
        PROVE  e \in Results(V) /\ e.db \in HandlesOf(V) /\ SparesBoth(g, e.db)
    <2>1. PICK q \in rollback(g.s) : FromSecondary(g, q, e)
      BY <1>2, Zenon DEF OnSecondary, FromSecondary
    <2>2. q \in Outcomes(V) /\ Spared(g.s, q.db)
      BY <2>1, HandleHolds, RollsBack, RollbackSpares DEF SafeSessions
    <2>3. QED  BY <1>2, <2>1, <2>2, SecondarySpares
  <1>3. CASE ~hd.dual
    <2>1. o \in OnPrimary(hd, rollback)
      BY <1>3 DEF Rollback
    <2>2. QED  BY <1>1, <1>3, <2>1 DEF is_transaction_active, SparesBoth
  <1>4. CASE hd.dual
    <2>1. PICK e \in OnPrimary(hd, rollback) :
            \E q \in OnSecondary(e.db, rollback) :
               o = [db |-> [q.db EXCEPT !.active = FALSE, !.sync = @ /\ q.ok],
                    ok |-> e.ok /\ q.ok, faults |-> e.faults + q.faults]
      BY <1>4, Zenon DEF Rollback
    <2>2. PICK q \in OnSecondary(e.db, rollback) :
               o = [db |-> [q.db EXCEPT !.active = FALSE, !.sync = @ /\ q.ok],
                    ok |-> e.ok /\ q.ok, faults |-> e.faults + q.faults]
      BY <2>1
    <2>3. e.db \in HandlesOf(V) /\ SparesBoth(hd, e.db) /\ e.db.dual
      BY <1>1, <1>4, <2>1 DEF SparesBoth
    <2>4. q.db \in HandlesOf(V) /\ SparesBoth(e.db, q.db) /\ q.ok \in BOOLEAN
      BY <1>2, <2>2, <2>3, ResultHolds
    <2> DEFINE k == [q.db EXCEPT !.active = FALSE, !.sync = @ /\ q.ok]
    <2>5. k.p = q.db.p /\ k.s = q.db.s /\ k.dual = q.db.dual /\ k.active = FALSE
      BY <2>4, NotedSpares, Zenon
    <2>6. o.db = k
      BY <2>2, Zenon
    <2> HIDE DEF k
    <2>7. SparesBoth(hd, k)
      BY <2>3, <2>4, <2>5, SparesOn, SparesSame
    <2>8. k.dual
      BY <1>4, <2>7 DEF SparesBoth
    <2>9. QED  BY <2>5, <2>6, <2>7, <2>8, RollbackIs DEF is_transaction_active
  <1>5. QED  BY <1>3, <1>4

\* A session that cannot roll back is dropped: it held nothing durable.
LEMMA RollbackFailedSpares ==
  ASSUME NEW V, NEW hd \in HandlesOf(V), NEW o \in RollbackFailedImport(hd)
  PROVE  SparesBoth(hd, o.db)
  <1>1. ASSUME NEW g \in HandlesOf(V), NEW e \in Invalidate(g)
        PROVE  e \in Results(V) /\ SparesBoth(g, e.db)
    <2>1. PICK q \in Disconnect(g) : e = [q EXCEPT !.db.invalid = ~is_connected(q.db)]
      BY <1>1, Zenon DEF Invalidate
    <2>2. q \in Results(V) /\ q.db \in HandlesOf(V) /\ SparesBoth(g, q.db)
      BY <2>1, DisconnectsSpare, ResultHolds
    <2> DEFINE x == ~is_connected(q.db)
               c == q.db
               k == [c EXCEPT !.invalid = x]
    <2>3. e = [q EXCEPT !.db = k] /\ x \in BOOLEAN /\ c \in HandlesOf(V)
      BY <2>1, <2>2, Zenon
    <2>10. SparesBoth(g, c)
      BY <2>2
    <2> HIDE DEF x, c
    <2>4. k \in HandleShapes(V) /\ k.p = c.p /\ k.s = c.s /\ k.dual = c.dual
      BY <2>3, Zenon DEF HandlesOf, HandleShapes
    <2> HIDE DEF k
    <2>5. k \in HandlesOf(V)
      BY <2>3, <2>4, MarkedIs
    <2>6. e \in Results(V) /\ e.db = k
      BY <2>2, <2>3, <2>5, Zenon DEF Results
    <2>7. QED  BY <2>4, <2>6, <2>10 DEF SparesBoth
  <1>2. PICK e \in Rollback(hd) :
          o = e \/ \E q \in Invalidate(e.db) : o = [q EXCEPT !.faults = @ + e.faults]
    BY Zenon DEF RollbackFailedImport
  <1>3. e.db \in HandlesOf(V) /\ e.faults \in Nat /\ SparesBoth(hd, e.db)
    BY RollsBackBoth, ResultHolds
  <1>4. CASE \E q \in Invalidate(e.db) : o = [q EXCEPT !.faults = @ + e.faults]
    <2>1. PICK q \in Invalidate(e.db) : o = [q EXCEPT !.faults = @ + e.faults]
      BY <1>4
    <2>2. q \in Results(V) /\ SparesBoth(e.db, q.db)
      BY <1>1, <1>3, <2>1
    <2>3. o.db = q.db
      BY <1>3, <2>1, <2>2, CountedIs
    <2>4. QED  BY <1>3, <2>2, <2>3, SparesOn
  <1>5. QED  BY <1>2, <1>3, <1>4

\* A commit that returns leaves no transaction.
LEMMA CommitEnds ==
  ASSUME NEW V, NEW b \in SafeSessions(V), NEW o \in commit(b), o.ok
  PROVE  ~o.db.active
  <1> DEFINE f == Fresh(b)
             c == [b EXCEPT !.store = b.seen]
             k == Fresh(c)
  <1>1. b \in SessionShapes /\ c \in SessionShapes
    BY Zenon DEF SafeSessions, SessionShapes
  <1>2. ~f.active /\ ~k.active
    BY <1>1, FreshSpares
  <1>3. Committed(b) = IF b.failed THEN f ELSE k
    BY Zenon DEF Committed
  <1> HIDE DEF f, c, k
  <1>4. \A x \in Unanswered(b) : ~x.ok
    BY DEF Unanswered, Err
  <1>5. ~Err(b, 0).ok /\ ~Err(b, 1).ok
    BY DEF Err
  <1>6. o = Ok(Committed(b), 0) \/ (o = Ok(b, 0) /\ ~b.active)
    <2>1. CASE ~b.open \/ b.broken
      BY <1>5, <2>1 DEF commit
    <2>2. CASE b.open /\ ~b.broken
      BY <1>4, <1>5, <2>2, Zenon DEF commit
    <2>3. QED  BY <2>1, <2>2
  <1>7. QED  BY <1>2, <1>3, <1>6 DEF Ok

\* A commit of both, which the primary decides.
LEMMA CommitsBoth ==
  ASSUME NEW V, NEW hd \in HandlesOf(V), NEW o \in Commit(hd)
  PROVE  /\ o.db.dual = hd.dual
         /\ ~hd.active => ~o.db.active
         /\ o.ok => ~is_transaction_active(o.db)
  <1> DEFINE Second(g) ==
               {Ok([e.db EXCEPT !.active = FALSE, !.sync = @ /\ e.ok], e.faults)
                : e \in OnSecondary(g, commit)}
             Next2(g) == IF hd.dual THEN Second(g) ELSE {Ok(g, 0)}
  <1>1. \E e \in OnPrimary(hd, commit) :
          (~e.ok /\ o = e) \/ \E q \in Next2(e.db) : Follows(e, q, o)
    <2>1. o \in Then(OnPrimary(hd, commit), Next2)
      BY Zenon DEF Commit
    <2> HIDE DEF Next2
    <2>2. QED  BY <2>1, Zenon DEF Then, Follows
  <1>2. ASSUME NEW e \in OnPrimary(hd, commit)
        PROVE  /\ e \in Results(V) /\ e.db.dual = hd.dual /\ e.db.active = hd.active
               /\ (e.ok => ~e.db.p.active)
    <2>1. PICK q \in commit(hd.p) : FromPrimary(hd, q, e)
      BY <1>2, Zenon DEF OnPrimary, FromPrimary
    <2>2. q \in Outcomes(V) /\ (q.ok => ~q.db.active)
      BY <2>1, HandleHolds, Commits, CommitEnds
    <2>3. QED  BY <2>1, <2>2, OnPrimaryIs DEF Holds
  <1>3. ASSUME NEW g \in HandlesOf(V), g.dual, NEW e \in Second(g)
        PROVE  e \in Results(V) /\ e.db.dual /\ ~e.db.active
    <2>1. PICK d \in OnSecondary(g, commit) :
            e = Ok([d.db EXCEPT !.active = FALSE, !.sync = @ /\ d.ok], d.faults)
      BY <1>3, Zenon
    <2>2. PICK q \in commit(g.s) : FromSecondary(g, q, d)
      BY <2>1, Zenon DEF OnSecondary, FromSecondary
    <2>3. q \in Outcomes(V)
      BY <2>2, HandleHolds, Commits
    <2>9. g.dual
      BY <1>3
    <2> HIDE DEF Second
    <2>4. d \in Results(V) /\ d.db.dual
      BY <2>2, <2>3, <2>9, OnSecondaryIs DEF Holds
    <2>5. d.db \in HandlesOf(V) /\ d.ok \in BOOLEAN /\ d.faults \in Nat
      BY <2>4, ResultHolds
    <2> DEFINE k == [d.db EXCEPT !.active = FALSE, !.sync = @ /\ d.ok]
    <2>10. k \in HandlesOf(V)
      BY <2>5, NotedIs, Zenon
    <2>11. k.dual = d.db.dual /\ k.active = FALSE
      BY <2>5, NotedSpares, Zenon
    <2>6. k \in HandlesOf(V) /\ k.dual = d.db.dual /\ k.active = FALSE
      BY <2>10, <2>11
    <2>7. e = Ok(k, d.faults)
      BY <2>1
    <2> HIDE DEF k
    <2>8. QED  BY <2>4, <2>5, <2>6, <2>7 DEF Ok, Results
  <1> HIDE DEF Second
  <1>4. PICK e \in OnPrimary(hd, commit) :
          (~e.ok /\ o = e) \/ \E q \in Next2(e.db) : Follows(e, q, o)
    BY <1>1
  <1>5. /\ e \in Results(V) /\ e.db \in HandlesOf(V) /\ e.db.dual = hd.dual
        /\ e.db.active = hd.active /\ (e.ok => ~e.db.p.active)
    BY <1>2, ResultHolds
  <1>6. CASE ~e.ok /\ o = e
    BY <1>5, <1>6
  <1>7. CASE \E q \in Next2(e.db) : Follows(e, q, o)
    <2>1. PICK q \in Next2(e.db) : Follows(e, q, o)
      BY <1>7
    <2>2. CASE hd.dual
      <3>1. q \in Results(V) /\ q.db.dual /\ ~q.db.active
        BY <1>3, <1>5, <2>1, <2>2
      <3>2. o.db = q.db
        BY <1>5, <2>1, <3>1, FollowsIs
      <3>3. o.db.dual /\ ~o.db.active
        BY <3>1, <3>2
      <3>4. o.db.dual = hd.dual
        <4>1. o.db \in HandlesOf(V)
          BY <1>5, <2>1, <3>1, FollowsIs, ResultHolds
        <4>2. QED  BY <2>2, <3>3, <4>1, HandleHolds
      <3>5. QED  BY <3>3, <3>4 DEF is_transaction_active
    <2>3. CASE ~hd.dual
      <3>1. q = Ok(e.db, 0) /\ e.ok
        BY <2>1, <2>3 DEF Follows
      <3>2. q \in Results(V) /\ q.db = e.db
        BY <1>5, <3>1 DEF Ok, Results
      <3>3. o.db = e.db
        BY <1>5, <2>1, <3>2, FollowsIs
      <3>4. QED  BY <1>5, <2>3, <3>1, <3>3 DEF is_transaction_active
    <2>4. QED  BY <2>2, <2>3
  <1>8. QED  BY <1>4, <1>6, <1>7

\* Marking the start of a transaction, field by field.
LEMMA StartedSpares ==
  ASSUME NEW V, NEW hd \in HandlesOf(V), NEW g \in HandlesOf(V)
  PROVE  LET k == Started(hd, g) IN
         /\ k.p = g.p /\ k.s = g.s /\ k.dual = g.dual
         /\ ~is_transaction_active(hd) => (k.active <=> hd.dual)
  <1> DEFINE n == g.gen + 1
             a == hd.dual
             k == [g EXCEPT !.gen = n, !.active = a]
  <1>1. \/ is_transaction_active(hd) /\ Started(hd, g) = g
        \/ ~is_transaction_active(hd) /\ Started(hd, g) = k
    BY Zenon DEF Started
  <1> HIDE DEF n
  <1>2. k.p = g.p /\ k.s = g.s /\ k.dual = g.dual /\ k.active = a
    BY Zenon DEF HandlesOf, HandleShapes
  <1>3. QED  BY <1>1, <1>2

\* Beginning a transaction on both: one that is there already is used.
LEMMA BeginsBoth ==
  ASSUME NEW V, NEW hd \in HandlesOf(V), NEW o \in Begin(hd)
  PROVE  /\ SparesBoth(hd, o.db)
         /\ is_transaction_active(hd) => o = Ok(hd, 0)
         /\ ~is_transaction_active(hd) /\ o.ok =>
              /\ o.db.p.active /\ o.db.p.store = hd.p.store
              /\ hd.dual => o.db.active /\ o.db.s.active /\ o.db.s.store = hd.s.store
  <1> DEFINE Undo(g) == {Ok(e.db, e.faults) : e \in OnPrimary(OutOfSync(g), rollback)}
             Both(g) == Handling(OnSecondary(g, begin_transaction), Undo)
             Primary == OnPrimary(hd, begin_transaction)
             Starts(e) == e.ok => /\ e.db.p.active /\ e.db.p.store = hd.p.store
                                  /\ hd.dual => e.db.s.active /\ e.db.s.store = hd.s.store
  <1>1. ASSUME NEW e \in Primary
        PROVE  /\ e \in Results(V) /\ e.db \in HandlesOf(V) /\ SparesBoth(hd, e.db)
               /\ e.ok => e.db.p.active /\ e.db.p.store = hd.p.store
               /\ e.db.s = hd.s
    <2>1. PICK q \in begin_transaction(hd.p) : FromPrimary(hd, q, e)
      BY <1>1, Zenon DEF OnPrimary, FromPrimary
    <2>2. /\ q \in Outcomes(V) /\ Spared(hd.p, q.db)
          /\ q.ok => q.db.active /\ q.db.store = hd.p.store
      BY <2>1, HandleHolds, Begins, BeginKeeps DEF SafeSessions, Keeps
    <2>3. QED  BY <2>1, <2>2, PrimarySpares
  <1>2. ASSUME NEW g \in HandlesOf(V), g.dual, NEW e \in OnSecondary(g, begin_transaction)
        PROVE  /\ e \in Results(V) /\ e.db \in HandlesOf(V) /\ SparesBoth(g, e.db)
               /\ e.ok => e.db.s.active /\ e.db.s.store = g.s.store
               /\ e.db.p = g.p
    <2>1. PICK q \in begin_transaction(g.s) : FromSecondary(g, q, e)
      BY <1>2, Zenon DEF OnSecondary, FromSecondary
    <2>2. /\ q \in Outcomes(V) /\ Spared(g.s, q.db)
          /\ q.ok => q.db.active /\ q.db.store = g.s.store
      BY <2>1, HandleHolds, Begins, BeginKeeps DEF SafeSessions, Keeps
    <2>3. QED  BY <1>2, <2>1, <2>2, SecondarySpares
  <1>3. ASSUME NEW g \in HandlesOf(V), NEW e \in Undo(g)
        PROVE  e \in Results(V) /\ e.db \in HandlesOf(V) /\ SparesBoth(g, e.db)
    <2>1. PICK d \in OnPrimary(OutOfSync(g), rollback) : e = Ok(d.db, d.faults)
      BY <1>3, Zenon
    <2> DEFINE k == OutOfSync(g)
    <2>2. k \in HandlesOf(V) /\ SparesBoth(g, k)
      BY OutOfSyncIs, SparesSame DEF Holds
    <2>3. PICK q \in rollback(k.p) : FromPrimary(k, q, d)
      BY <2>1, Zenon DEF OnPrimary, FromPrimary
    <2> HIDE DEF k
    <2>4. q \in Outcomes(V) /\ Spared(k.p, q.db)
      BY <2>2, <2>3, HandleHolds, RollsBack, RollbackSpares DEF SafeSessions
    <2>5. d \in Results(V) /\ SparesBoth(k, d.db)
      BY <2>2, <2>3, <2>4, PrimarySpares
    <2>6. e \in Results(V) /\ e.db = d.db
      BY <2>1, <2>5 DEF Ok, Results
    <2>7. QED  BY <2>2, <2>5, <2>6, SparesOn, ResultHolds
  <1> HIDE DEF Undo, Primary
  <1>4. ASSUME NEW g \in HandlesOf(V), g.dual, NEW e \in Both(g)
        PROVE  /\ e \in Results(V) /\ SparesBoth(g, e.db)
               /\ e.ok => e.db.s.active /\ e.db.s.store = g.s.store /\ e.db.p = g.p
    <2>1. PICK d \in OnSecondary(g, begin_transaction) :
            \/ d.ok /\ e = d
            \/ \E q \in Undo(d.db) : e = Err(q.db, d.faults + q.faults)
      BY <1>4, Zenon DEF Handling
    <2>2. /\ d \in Results(V) /\ d.db.p = g.p /\ d.db \in HandlesOf(V) /\ d.faults \in Nat
          /\ SparesBoth(g, d.db) /\ (d.ok => d.db.s.active /\ d.db.s.store = g.s.store)
      BY <1>2, <1>4, <2>1, ResultHolds
    <2>3. CASE \E q \in Undo(d.db) : e = Err(q.db, d.faults + q.faults)
      <3>1. PICK q \in Undo(d.db) : e = Err(q.db, d.faults + q.faults)
        BY <2>3
      <3>2. q.db \in HandlesOf(V) /\ q.faults \in Nat /\ SparesBoth(d.db, q.db)
        BY <1>3, <2>2, <3>1, ResultHolds
      <3>3. e \in Results(V) /\ e.db = q.db /\ ~e.ok
        BY <2>2, <3>1, <3>2 DEF Err, Results
      <3>4. QED  BY <2>2, <3>2, <3>3, SparesOn
    <2>4. QED  BY <2>1, <2>2, <2>3
  <1> HIDE DEF Both
  <1>5. ASSUME NEW e \in Then(Primary, Both), hd.dual
        PROVE  e \in Results(V) /\ SparesBoth(hd, e.db) /\ Starts(e)
    <2>1. PICK d \in Primary : (~d.ok /\ e = d) \/ \E q \in Both(d.db) : Follows(d, q, e)
      BY <1>5, Zenon DEF Then, Follows
    <2>2. /\ d \in Results(V) /\ d.db \in HandlesOf(V) /\ SparesBoth(hd, d.db) /\ d.db.dual
          /\ d.db.s = hd.s /\ (d.ok => d.db.p.active /\ d.db.p.store = hd.p.store)
      BY <1>1, <1>5 DEF SparesBoth
    <2>3. CASE \E q \in Both(d.db) : Follows(d, q, e)
      <3>1. PICK q \in Both(d.db) : Follows(d, q, e)
        BY <2>3
      <3>2. /\ q \in Results(V) /\ SparesBoth(d.db, q.db)
            /\ q.ok => q.db.s.active /\ q.db.s.store = d.db.s.store /\ q.db.p = d.db.p
        BY <1>4, <2>2, <3>1
      <3>3. e \in Results(V) /\ e.db = q.db /\ e.ok = q.ok /\ d.ok
        BY <2>2, <3>1, <3>2, FollowsIs DEF Follows
      <3>4. SparesBoth(hd, e.db)
        BY <2>2, <3>2, <3>3, SparesOn
      <3>5. QED  BY <2>2, <3>2, <3>3, <3>4
    <2>4. QED  BY <2>1, <2>2, <2>3
  <1>6. CASE o = Ok(hd, 0) /\ is_transaction_active(hd)
    BY <1>6, SparesSame DEF Ok
  <1>7. CASE /\ ~is_transaction_active(hd)
             /\ \E e : /\ (e \in Primary /\ ~hd.dual) \/ (hd.dual /\ e \in Then(Primary, Both))
                       /\ o = IF e.ok THEN [e EXCEPT !.db = Started(hd, e.db)] ELSE e
    <2>1. PICK e : /\ (e \in Primary /\ ~hd.dual) \/ (hd.dual /\ e \in Then(Primary, Both))
                   /\ o = IF e.ok THEN [e EXCEPT !.db = Started(hd, e.db)] ELSE e
      BY <1>7
    <2>2. e \in Results(V) /\ Starts(e) /\ e.db \in HandlesOf(V) /\ SparesBoth(hd, e.db)
      BY <1>1, <1>5, <2>1, ResultHolds
    <2> DEFINE g == e.db
               k == Started(hd, g)
    <2>7. g \in HandlesOf(V)
      BY <2>2
    <2> HIDE DEF g
    <2>8. k \in HandlesOf(V)
      BY <2>7, StartedIs
    <2>9. /\ k.p = g.p /\ k.s = g.s /\ k.dual = g.dual
          /\ k.active <=> hd.dual
      BY <1>7, <2>7, StartedSpares
    <2>3. /\ k.p = e.db.p /\ k.s = e.db.s /\ k.dual = e.db.dual
          /\ k.active <=> hd.dual
      BY <2>9 DEF g
    <2>4. (~e.ok /\ o = e) \/ (e.ok /\ o = [e EXCEPT !.db = k])
      BY <2>1 DEF g
    <2> HIDE DEF k
    <2>5. CASE e.ok /\ o = [e EXCEPT !.db = k]
      <3>1. o.db = k
        BY <2>2, <2>5, Zenon DEF Results
      <3>2. SparesBoth(hd, k)
        BY <2>2, <2>3, SparesSame, SparesOn
      <3>3. QED  BY <1>7, <2>2, <2>3, <2>5, <3>1, <3>2
    <2>6. QED  BY <1>7, <2>2, <2>4, <2>5
  <1>8. QED  BY <1>6, <1>7, Zenon DEF Begin, Primary, Both, Undo

\* The caller's row, in the transaction that was begun for it.
LEMMA OwnExecuted ==
  ASSUME NEW V, NEW hd \in HandlesOf(V), hd.p.active, ~hd.p.store.own,
         hd.dual => hd.active /\ hd.s.active /\ ~hd.s.store.own,
         NEW o \in Execute(hd, [do |-> "own"]), o.ok
  PROVE  o.db.dual = hd.dual /\ Holding(o.db)
  <1> DEFINE s == [do |-> "own"]
             F(b) == execute(b, s)
             Second(g) == {IF f.ok THEN f
                           ELSE [f EXCEPT !.db = OutOfSync(f.db), !.ok = ~g.active]
                           : f \in OnSecondary(g, F)}
             N(g) == IF hd.dual THEN Second(g) ELSE {Ok(g, 0)}
  <1>1. o \in Then(OnPrimary(hd, F), N)
    BY Zenon DEF Execute, Mirrored
  <1>2. Fits(s, V) /\ s.do = "own"
    BY DEF Fits
  <1> HIDE DEF s
  <1>3. \A b \in SafeSessions(V) : \A q \in F(b) :
          /\ q \in Outcomes(V)
          /\ q.ok /\ b.active /\ ~b.store.own => OwnHeld(q.db)
    BY <1>2, Executes, ExecuteKeeps DEF WritesOwn
  <1> HIDE DEF F
  <1>4. \A e \in OnPrimary(hd, F) : \E q \in F(hd.p) : FromPrimary(hd, q, e)
    BY Zenon DEF OnPrimary, FromPrimary
  <1>5. \A g : \A d \in N(g) : \/ ~hd.dual /\ d = Ok(g, 0)
                               \/ hd.dual /\ \E f : /\ Mirror(g, f, d)
                                                    /\ \E r \in F(g.s) : FromSecondary(g, r, f)
    BY Zenon DEF OnSecondary, FromSecondary, Mirror
  <1> HIDE DEF N
  <1>6. PICK e \in OnPrimary(hd, F) : (~e.ok /\ o = e) \/ \E d \in N(e.db) : Follows(e, d, o)
    BY <1>1, Zenon DEF Then, Follows
  <1>7. PICK d \in N(e.db) : Follows(e, d, o)
    BY <1>6
  <1>8. /\ e.ok /\ e \in Results(V) /\ e.db \in HandlesOf(V) /\ OwnHeld(e.db.p)
        /\ e.db.s = hd.s /\ e.db.dual = hd.dual /\ e.db.active = hd.active
    <2>1. PICK q \in F(hd.p) : FromPrimary(hd, q, e)
      BY <1>4
    <2>2. q \in Outcomes(V) /\ (q.ok => OwnHeld(q.db))
      BY <1>3, <2>1, HandleHolds
    <2>3. e \in Results(V) /\ e.ok = q.ok /\ Holds(V, hd, q.db, hd.s, e.db)
      BY <2>1, <2>2, OnPrimaryIs
    <2>4. e.ok
      BY <1>7 DEF Follows
    <2>5. QED  BY <2>2, <2>3, <2>4 DEF Holds
  <1>9. CASE hd.dual
    <2>1. PICK f : Mirror(e.db, f, d) /\ \E r \in F(e.db.s) : FromSecondary(e.db, r, f)
      BY <1>5, <1>7, <1>9
    <2>2. PICK r \in F(e.db.s) : FromSecondary(e.db, r, f)
      BY <2>1
    <2>3. r \in Outcomes(V) /\ (r.ok => OwnHeld(r.db))
      BY <1>3, <1>8, <1>9, <2>2, HandleHolds
    <2>4. /\ f \in Results(V) /\ f.ok = r.ok /\ Holds(V, e.db, e.db.p, r.db, f.db)
          /\ f.db \in HandlesOf(V)
      <3> DEFINE k == e.db
      <3>1. k \in HandlesOf(V) /\ k.dual /\ FromSecondary(k, r, f)
        BY <1>8, <1>9, <2>2
      <3> HIDE DEF k
      <3>2. f \in Results(V) /\ f.ok = r.ok /\ Holds(V, k, k.p, r.db, f.db)
        BY <2>3, <3>1, OnSecondaryIs
      <3>3. QED  BY <3>2, ResultHolds DEF k
    <2>5. CASE ~f.ok
      <3> DEFINE k == OutOfSync(f.db)
                 x == ~e.db.active
      <3>1. k \in HandlesOf(V) /\ ~x /\ d = [f EXCEPT !.db = k, !.ok = x] /\ x \in BOOLEAN
        BY <1>8, <1>9, <2>1, <2>4, <2>5, OutOfSyncIs DEF Mirror, Holds
      <3> HIDE DEF k
      <3>2. d \in Results(V) /\ d.ok = x
        <4> HIDE DEF x
        <4>1. QED  BY <2>4, <3>1, Zenon DEF Results
      <3>3. o.ok = d.ok
        BY <1>7, <1>8, <3>2, FollowsIs
      <3>4. QED  BY <3>1, <3>2, <3>3
    <2>6. CASE f.ok
      <3>1. d = f
        BY <2>1, <2>6 DEF Mirror
      <3>2. o.db = f.db
        BY <1>7, <1>8, <2>4, <3>1, FollowsIs
      <3>3. QED  BY <1>8, <1>9, <2>3, <2>4, <2>6, <3>2 DEF Holds, Holding
    <2>7. QED  BY <2>5, <2>6
  <1>10. CASE ~hd.dual
    <2>1. d = Ok(e.db, 0)
      BY <1>5, <1>7, <1>10
    <2>2. d \in Results(V) /\ d.db = e.db
      BY <1>8, <2>1 DEF Ok, Results
    <2>3. o.db = e.db
      BY <1>7, <1>8, <2>2, FollowsIs
    <2>4. QED  BY <1>8, <1>10, <2>3 DEF Holding
  <1>11. QED  BY <1>9, <1>10

LEMMA OwnWrittenHolds ==
  ASSUME NEW V, NEW hd \in HandlesOf(V), ~is_transaction_active(hd),
         ~hd.p.store.own, hd.dual => ~hd.s.store.own, NEW o \in OwnWritten(hd), o.ok
  PROVE  o.db.dual = hd.dual /\ Holding(o.db)
  <1> DEFINE N(g) == Execute(g, [do |-> "own"])
  <1>1. o \in Then(Begin(hd), N)
    BY Zenon DEF OwnWritten
  <1>2. \A g : N(g) = Execute(g, [do |-> "own"])
    OBVIOUS
  <1> HIDE DEF N
  <1>3. PICK e \in Begin(hd) : (~e.ok /\ o = e) \/ \E f \in N(e.db) : Follows(e, f, o)
    BY <1>1, Zenon DEF Then, Follows
  <1>4. PICK f \in N(e.db) : Follows(e, f, o)
    BY <1>3
  <1>5. /\ e \in Results(V) /\ e.db \in HandlesOf(V) /\ e.ok /\ e.db.dual = hd.dual
        /\ e.db.p.active /\ e.db.p.store = hd.p.store
        /\ hd.dual => e.db.active /\ e.db.s.active /\ e.db.s.store = hd.s.store
    <2>1. e \in Results(V) /\ e.ok
      BY <1>4, BeginIs DEF Follows
    <2>2. e.db.dual = hd.dual
      BY BeginsBoth DEF SparesBoth
    <2>3. /\ e.db.p.active /\ e.db.p.store = hd.p.store
          /\ hd.dual => e.db.active /\ e.db.s.active /\ e.db.s.store = hd.s.store
      BY <2>1, BeginsBoth
    <2>4. QED  BY <2>1, <2>2, <2>3, ResultHolds
  <1>6. f \in Execute(e.db, [do |-> "own"]) /\ f \in Results(V)
    <2>1. f \in Execute(e.db, [do |-> "own"])
      BY <1>2
    <2>2. Fits([do |-> "own"], V)
      BY DEF Fits
    <2>3. QED  BY <1>5, <2>1, <2>2, ExecuteIs
  <1>7. o.db = f.db /\ o.ok = f.ok
    <2>1. e \in Results(V) /\ f \in Results(V) /\ Follows(e, f, o)
      BY <1>4, <1>5, <1>6
    <2>2. QED  BY <2>1, FollowsIs, Zenon
  <1>8. f.db.dual = e.db.dual /\ Holding(f.db)
    <2> DEFINE k == e.db
    <2>1. k \in HandlesOf(V) /\ k.p.active /\ ~k.p.store.own
      BY <1>5
    <2>2. k.dual => k.active /\ k.s.active /\ ~k.s.store.own
      BY <1>5
    <2>3. f \in Execute(k, [do |-> "own"]) /\ f.ok
      BY <1>6, <1>7
    <2> HIDE DEF k
    <2>4. f.db.dual = k.dual /\ Holding(f.db)
      BY <2>1, <2>2, <2>3, OwnExecuted
    <2>5. QED  BY <2>4 DEF k
  <1>9. QED  BY <1>5, <1>7, <1>8

\* A handle that was left, or was just connected, holds nothing.
Quiet(k) == /\ ~k.active /\ ~is_transaction_active(k)
            /\ ~has_pending_transaction(k.p) /\ ~has_pending_transaction(k.s)

LEMMA EndedQuiet ==
  ASSUME NEW V, NEW hd \in HandlesOf(V)
  PROVE  Quiet(Ended(hd))
  <1> DEFINE p == Closed(hd.p)
             s == Closed(hd.s)
             k == [hd EXCEPT !.p = p, !.s = s, !.active = FALSE, !.invalid = FALSE]
  <1>1. ~p.active /\ ~p.open /\ ~s.active /\ ~s.open
    BY HandleHolds, ClosedSpares DEF SafeSessions
  <1>2. Ended(hd) = k
    BY DEF Ended
  <1> HIDE DEF p, s
  <1>3. k.p = p /\ k.s = s /\ k.active = FALSE
    BY Zenon DEF HandlesOf, HandleShapes
  <1> HIDE DEF k
  <1>4. QED  BY <1>1, <1>2, <1>3 DEF Quiet, is_transaction_active, has_pending_transaction

LEMMA ConnectQuiet ==
  ASSUME NEW b \in SessionShapes, NEW o \in connect(b)
  PROVE  /\ o.ok => ~o.db.active /\ ~has_pending_transaction(o.db)
         /\ ~o.ok => o.db = b
  <1> DEFINE c == [Fresh(b) EXCEPT !.open = TRUE, !.broken = FALSE]
  <1>1. ~c.active /\ ~c.dirty /\ ~c.failed /\ ~c.broken
    BY Zenon DEF SessionShapes, Fresh
  <1>2. o = Ok(c, 0) \/ o = Err(b, 1)
    BY Zenon DEF connect
  <1> HIDE DEF c
  <1>3. ~has_pending_transaction(c)
    BY <1>1 DEF has_pending_transaction
  <1>4. QED  BY <1>1, <1>2, <1>3 DEF Ok, Err

LEMMA ConnectsQuiet ==
  ASSUME NEW hd \in HandlesOf({}), NEW o \in Connect(hd), o.ok
  PROVE  /\ ~o.db.active /\ ~is_transaction_active(o.db)
         /\ ~has_pending_transaction(hd.s) => Quiet(o.db)
  <1> DEFINE a == [hd EXCEPT !.active = FALSE, !.invalid = FALSE]
             Second(g) ==
               {IF e.ok THEN e ELSE Ok(OutOfSync(e.db), e.faults) : e \in OnSecondary(g, connect)}
             Next2(g) == IF hd.dual THEN Second(g) ELSE {Ok(g, 0)}
  <1>1. a \in HandlesOf({}) /\ a.dual = hd.dual /\ a.s = hd.s /\ ~a.active
    <2>1. a \in HandlesOf({}) /\ a.dual = hd.dual /\ a.s = hd.s
      BY FlaggedIs, Zenon
    <2>2. a.active = FALSE
      BY Zenon DEF HandlesOf, HandleShapes
    <2>3. QED  BY <2>1, <2>2
  <1>2. \E e \in OnPrimary(a, connect) :
          (~e.ok /\ o = e) \/ \E q \in Next2(e.db) : Follows(e, q, o)
    <2>1. o \in Then(OnPrimary(a, connect), Next2)
      BY Zenon DEF Connect, Second
    <2> HIDE DEF Next2, a
    <2>2. QED  BY <2>1, Zenon DEF Then, Follows
  <1> HIDE DEF a
  <1>3. PICK e \in OnPrimary(a, connect) :
          (~e.ok /\ o = e) \/ \E q \in Next2(e.db) : Follows(e, q, o)
    BY <1>2
  <1>4. PICK q \in Next2(e.db) : Follows(e, q, o)
    BY <1>3
  <1>5. /\ e \in Results({}) /\ e.ok /\ e.db \in HandlesOf({}) /\ e.db.dual = hd.dual
        /\ ~e.db.active /\ e.db.s = hd.s /\ ~e.db.p.active /\ ~has_pending_transaction(e.db.p)
    <2>1. PICK r \in connect(a.p) : FromPrimary(a, r, e)
      BY Zenon DEF OnPrimary, FromPrimary
    <2>2. a.p \in SafeSessions({}) /\ a.p \in SessionShapes
      BY <1>1, HandleHolds DEF SafeSessions
    <2>3. /\ r \in Outcomes({})
          /\ r.ok => ~r.db.active /\ ~has_pending_transaction(r.db)
      BY <2>1, <2>2, Connects, ConnectQuiet
    <2>4. e \in Results({}) /\ e.ok = r.ok /\ Holds({}, a, r.db, a.s, e.db)
      BY <1>1, <2>1, <2>3, OnPrimaryIs
    <2>5. e.ok
      BY <1>4 DEF Follows
    <2>6. QED  BY <1>1, <2>3, <2>4, <2>5 DEF Holds
  <1>6. /\ q \in Results({}) /\ q.db.p = e.db.p /\ q.db.dual = hd.dual /\ ~q.db.active
        /\ ~has_pending_transaction(hd.s) => ~has_pending_transaction(q.db.s)
    <2>1. CASE q = Ok(e.db, 0)
      BY <1>5, <2>1 DEF Ok, Results
    <2>2. CASE hd.dual /\ q \in Second(e.db)
      <3>1. PICK d \in OnSecondary(e.db, connect) :
              q = IF d.ok THEN d ELSE Ok(OutOfSync(d.db), d.faults)
        BY <2>2, Zenon
      <3>2. PICK r \in connect(e.db.s) : FromSecondary(e.db, r, d)
        BY <3>1, Zenon DEF OnSecondary, FromSecondary
      <3>3. e.db.s \in SafeSessions({}) /\ e.db.s \in SessionShapes /\ e.db.dual
        BY <1>5, <2>2, HandleHolds DEF SafeSessions
      <3>4. /\ r \in Outcomes({})
            /\ r.ok => ~has_pending_transaction(r.db)
            /\ ~r.ok => r.db = e.db.s
        BY <3>2, <3>3, Connects, ConnectQuiet
      <3>5. /\ d \in Results({}) /\ d.ok = r.ok /\ Holds({}, e.db, e.db.p, r.db, d.db)
            /\ d.db \in HandlesOf({}) /\ d.faults \in Nat
        BY <1>5, <3>2, <3>3, <3>4, OnSecondaryIs, ResultHolds
      <3> DEFINE k == OutOfSync(d.db)
      <3>6. Holds({}, d.db, d.db.p, d.db.s, k)
        BY <3>5, OutOfSyncIs
      <3>7. (d.ok /\ q = d) \/ (~d.ok /\ q = Ok(k, d.faults))
        BY <3>1
      <3> HIDE DEF k, Second
      <3>8. CASE q = Ok(k, d.faults)
        <4>1. q \in Results({}) /\ q.db = k
          BY <3>5, <3>6, <3>8 DEF Ok, Results, Holds
        <4>2. ~has_pending_transaction(hd.s) => ~has_pending_transaction(r.db)
          BY <1>5, <3>4
        <4>3. QED  BY <1>5, <3>5, <3>6, <4>1, <4>2 DEF Holds
      <3>9. CASE d.ok /\ q = d
        BY <1>5, <3>4, <3>5, <3>9 DEF Holds
      <3>10. QED  BY <3>7, <3>8, <3>9
    <2>3. QED  BY <2>1, <2>2
  <1>7. o.db = q.db
    BY <1>4, <1>5, <1>6, FollowsIs
  <1>8. QED  BY <1>5, <1>6, <1>7 DEF Quiet, is_transaction_active

LEMMA BackendQuiet ==
  ASSUME NEW d, NEW r, NEW x
  PROVE  ~has_pending_transaction([Backend(d, r) EXCEPT !.open = x])
         /\ ~[Backend(d, r) EXCEPT !.open = x].active
  <1> DEFINE b == Backend(d, r)
             c == [b EXCEPT !.open = x]
  <1>1. c.active = FALSE /\ c.dirty = FALSE /\ c.failed = FALSE /\ c.broken = FALSE
    BY Zenon DEF Backend
  <1> HIDE DEF c
  <1>2. ~has_pending_transaction(c) /\ ~c.active
    BY <1>1 DEF has_pending_transaction
  <1>3. QED  BY <1>2 DEF c

LEMMA SituationQuiet ==
  ASSUME NEW c \in Cases
  PROVE  Quiet(Situation(c))
  <1> DEFINE rows(cat) == [cat |-> cat, row |-> [t \in Tables |-> "none"], own |-> FALSE]
             a == rows(c.pcat)
             d == rows(c.scat)
             h == Handle(c.dual, c.p, c.s, a)
             f == Backend(c.s, d)
             g == IF c.dual THEN [h EXCEPT !.s = f] ELSE h
             x == c.dual /\ c.sopen
             p == [g.p EXCEPT !.open = TRUE]
             s == [g.s EXCEPT !.open = x]
             k == [g EXCEPT !.p = p, !.s = s]
  <1>1. g = [dual |-> c.dual, p |-> Backend(c.p, a), s |-> IF c.dual THEN f ELSE Backend(c.s, a),
             active |-> FALSE, gen |-> 0, sync |-> TRUE, invalid |-> FALSE]
    BY DEF Handle
  <1>2. Situation(c) = k
    BY <1>1, Zenon DEF Situation
  <1> HIDE DEF a, d
  <1>3. g.p = Backend(c.p, a) /\ \E r : g.s = Backend(c.s, r)
    BY <1>1 DEF f
  <1>4. k.p = p /\ k.s = s /\ k.active = FALSE
    BY <1>1
  <1> HIDE DEF x, g
  <1>5. ~has_pending_transaction(p) /\ ~p.active /\ ~has_pending_transaction(s)
    BY <1>3, BackendQuiet
  <1> HIDE DEF p, s, k
  <1>6. QED  BY <1>2, <1>4, <1>5 DEF Quiet, is_transaction_active

-----------------------------------------------------------------------------
(***************************************************************************)
(* The steps of an import: the preparation is entered before it reads,     *)
(* alters or closes anything, and ready only after it closed.              *)
(***************************************************************************)
Steps(S) == [do : S, table : Tables]

Entered(q) == \E j \in DOMAIN q : q[j].do = "enter"
Guards(q) == \A i \in DOMAIN q : q[i].do \in {"check", "close", "upgrade"} =>
                 \E j \in 1..i : q[j].do = "enter"
ReadyLast(q) == \A i \in DOMAIN q : q[i].do = "ready" => i > 1 /\ q[i - 1].do = "close"
EnterFirst(q) == \A i \in DOMAIN q : q[i].do = "enter" => i = 1
Uses(q, do) == \A i \in DOMAIN q : q[i].do = do
Formed(S, q) == q \in Seq(Steps(S)) /\ Guards(q) /\ ReadyLast(q)

LEMMA OnceIs ==
  ASSUME NEW S, NEW do \in S
  PROVE  /\ Once(do) \in Seq(Steps(S)) /\ Uses(Once(do), do) /\ Len(Once(do)) = 1
  <1>1. Order[1] \in Tables
    BY StorageAssumption, OrderAssumption DEF Tables
  <1>2. Step(do, Order[1]) \in Steps(S) /\ Step(do, Order[1]).do = do
    BY <1>1 DEF Step, Steps
  <1>3. QED  BY <1>2 DEF Once, Uses

LEMMA ForIs ==
  ASSUME NEW S, NEW do \in S
  PROVE  /\ For(do) \in Seq(Steps(S)) /\ Uses(For(do), do)
  <1>1. \A i \in DOMAIN Order : Step(do, Order[i]) \in Steps(S) /\ Step(do, Order[i]).do = do
    BY DEF Step, Steps, Tables
  <1>2. DOMAIN Order = 1..Len(Order) /\ Len(Order) \in Nat
    BY OrderAssumption
  <1>3. For(do) \in [1..Len(Order) -> Steps(S)]
    BY <1>1, <1>2 DEF For
  <1>4. For(do) \in Seq(Steps(S))
    BY <1>2, <1>3
  <1>5. Uses(For(do), do)
    BY <1>1 DEF For, Uses
  <1>6. QED  BY <1>4, <1>5

\* Two sequences, one after the other.
LEMMA JoinedIs ==
  ASSUME NEW T, NEW q \in Seq(T), NEW r \in Seq(T)
  PROVE  /\ q \o r \in Seq(T) /\ Len(q) \in Nat /\ Len(r) \in Nat
         /\ Len(q \o r) = Len(q) + Len(r) /\ DOMAIN (q \o r) = 1..(Len(q) + Len(r))
         /\ DOMAIN q = 1..Len(q) /\ DOMAIN r = 1..Len(r)
         /\ \A i \in 1..Len(q) : (q \o r)[i] = q[i]
         /\ \A i \in 1..Len(r) : (q \o r)[Len(q) + i] = r[i]
  <1>1. Len(q) \in Nat /\ Len(r) \in Nat /\ DOMAIN q = 1..Len(q) /\ DOMAIN r = 1..Len(r)
    OBVIOUS
  <1>2. q \o r \in Seq(T) /\ Len(q \o r) = Len(q) + Len(r)
    BY ConcatProperties
  <1>3. DOMAIN (q \o r) = 1..(Len(q) + Len(r))
    BY <1>2
  <1>4. \A i \in 1..Len(q) : (q \o r)[i] = q[i]
    BY <1>1
  <1>5. \A i \in 1..Len(r) : (q \o r)[Len(q) + i] = r[i]
    BY <1>1
  <1>6. QED  BY <1>1, <1>2, <1>3, <1>4, <1>5

\* One part after another.
LEMMA Joined ==
  ASSUME NEW S, NEW q, Formed(S, q), NEW r \in Seq(Steps(S)), ReadyLast(r),
         Guards(r) \/ Entered(q)
  PROVE  /\ Formed(S, q \o r)
         /\ Entered(q) \/ Entered(r) => Entered(q \o r)
         /\ EnterFirst(q) /\ ~Entered(r) => EnterFirst(q \o r)
  <1> DEFINE s == q \o r
             n == Len(q)
             m == Len(r)
  <1>1. /\ q \in Seq(Steps(S)) /\ n \in Nat /\ m \in Nat /\ DOMAIN q = 1..n /\ DOMAIN r = 1..m
    BY DEF Formed
  <1>2. /\ s \in Seq(Steps(S)) /\ Len(s) = n + m /\ DOMAIN s = 1..(n + m)
        /\ \A i \in 1..n : s[i] = q[i]
        /\ \A i \in 1..m : s[n + i] = r[i]
    BY <1>1, JoinedIs
  <1> HIDE DEF s, n, m
  <1>3. ASSUME NEW i \in DOMAIN s
        PROVE  \/ i \in DOMAIN q /\ s[i] = q[i]
               \/ \E k \in DOMAIN r : i = n + k /\ s[i] = r[k]
    <2>1. CASE i <= n
      BY <1>1, <1>2, <1>3, <2>1
    <2>2. CASE i > n
      <3>1. i - n \in 1..m /\ i = n + (i - n)
        BY <1>1, <1>2, <1>3, <2>2
      <3>2. QED  BY <1>1, <1>2, <3>1
    <2>3. QED  BY <1>1, <1>2, <1>3, <2>1, <2>2
  <1>4. Guards(s)
    <2> SUFFICES ASSUME NEW i \in DOMAIN s, s[i].do \in {"check", "close", "upgrade"}
                 PROVE  \E j \in 1..i : s[j].do = "enter"
      BY DEF Guards
    <2>1. CASE i \in DOMAIN q /\ s[i] = q[i]
      <3>1. PICK j \in 1..i : q[j].do = "enter"
        BY <2>1 DEF Formed, Guards
      <3>2. s[j] = q[j]
        BY <1>1, <1>2, <2>1, <3>1
      <3>3. QED  BY <3>1, <3>2
    <2>2. CASE \E k \in DOMAIN r : i = n + k /\ s[i] = r[k]
      <3>1. PICK k \in DOMAIN r : i = n + k /\ s[i] = r[k]
        BY <2>2
      <3>2. CASE Entered(q)
        <4>1. PICK j \in DOMAIN q : q[j].do = "enter"
          BY <3>2 DEF Entered
        <4>2. j \in 1..i /\ s[j] = q[j]
          BY <1>1, <1>2, <3>1, <4>1
        <4>3. QED  BY <4>1, <4>2
      <3>3. CASE Guards(r)
        <4>1. PICK j \in 1..k : r[j].do = "enter"
          BY <3>1, <3>3 DEF Guards
        <4>2. n + j \in 1..i /\ s[n + j] = r[j]
          BY <1>1, <1>2, <3>1, <4>1
        <4>3. QED  BY <4>1, <4>2
      <3>4. QED  BY <3>2, <3>3
    <2>3. QED  BY <1>3, <2>1, <2>2
  <1>5. ReadyLast(s)
    <2> SUFFICES ASSUME NEW i \in DOMAIN s, s[i].do = "ready"
                 PROVE  i > 1 /\ s[i - 1].do = "close"
      BY DEF ReadyLast
    <2>1. CASE i \in DOMAIN q /\ s[i] = q[i]
      <3>1. i > 1 /\ q[i - 1].do = "close"
        BY <2>1 DEF Formed, ReadyLast
      <3>2. s[i - 1] = q[i - 1]
        BY <1>1, <1>2, <2>1, <3>1
      <3>3. QED  BY <3>1, <3>2
    <2>2. CASE \E k \in DOMAIN r : i = n + k /\ s[i] = r[k]
      <3>1. PICK k \in DOMAIN r : i = n + k /\ s[i] = r[k]
        BY <2>2
      <3>2. k > 1 /\ r[k - 1].do = "close"
        BY <3>1 DEF ReadyLast
      <3>3. k - 1 \in 1..m /\ n + (k - 1) = i - 1
        BY <1>1, <3>1, <3>2
      <3>4. s[i - 1] = r[k - 1] /\ i > 1
        BY <1>1, <1>2, <3>1, <3>2, <3>3
      <3>5. QED  BY <3>2, <3>4
    <2>3. QED  BY <1>3, <2>1, <2>2
  <1>6. Entered(q) \/ Entered(r) => Entered(s)
    <2>1. CASE Entered(q)
      <3>1. PICK j \in DOMAIN q : q[j].do = "enter"
        BY <2>1 DEF Entered
      <3>2. j \in DOMAIN s /\ s[j] = q[j]
        BY <1>1, <1>2, <3>1
      <3>3. QED  BY <3>1, <3>2 DEF Entered
    <2>2. CASE Entered(r)
      <3>1. PICK j \in DOMAIN r : r[j].do = "enter"
        BY <2>2 DEF Entered
      <3>2. n + j \in DOMAIN s /\ s[n + j] = r[j]
        BY <1>1, <1>2, <3>1
      <3>3. QED  BY <3>1, <3>2 DEF Entered
    <2>3. QED  BY <2>1, <2>2
  <1>7. EnterFirst(q) /\ ~Entered(r) => EnterFirst(s)
    BY <1>3 DEF EnterFirst, Entered
  <1>8. QED  BY <1>2, <1>4, <1>5, <1>6, <1>7 DEF Formed, s

\* A part of one kind of step.
LEMMA JoinedPlain ==
  ASSUME NEW S, NEW q, Formed(S, q), NEW r \in Seq(Steps(S)), NEW do, Uses(r, do),
         do \notin {"enter", "ready"}, do \in {"check", "close", "upgrade"} => Entered(q)
  PROVE  /\ Formed(S, q \o r)
         /\ Entered(q) => Entered(q \o r)
         /\ EnterFirst(q) => EnterFirst(q \o r)
  <1>1. ReadyLast(r) /\ ~Entered(r)
    BY DEF Uses, ReadyLast, Entered
  <1>2. Guards(r) \/ Entered(q)
    BY DEF Uses, Guards
  <1>3. QED  BY <1>1, <1>2, Joined

\* The last of one more step.
LEMMA LastIs ==
  ASSUME NEW T, NEW q \in Seq(T), NEW r \in Seq(T), Len(r) = 1
  PROVE  Len(q \o r) = Len(q) + 1 /\ (q \o r)[Len(q \o r)] = r[1] /\ q \o r # <<>>
  <1>1. /\ Len(q) \in Nat /\ Len(q \o r) = Len(q) + 1
        /\ \A i \in 1..1 : (q \o r)[Len(q) + i] = r[i]
    BY JoinedIs
  <1>2. (q \o r)[Len(q) + 1] = r[1]
    BY <1>1
  <1>3. QED  BY <1>1, <1>2

\* Ready, after a close.
LEMMA ReadyJoined ==
  ASSUME NEW S, NEW p, Formed(S, p), Entered(p), p # <<>>, p[Len(p)].do = "close",
         NEW d \in Seq(Steps(S)), Len(d) = 1, d[1].do = "ready"
  PROVE  /\ Formed(S, p \o d) /\ Entered(p \o d)
         /\ EnterFirst(p) => EnterFirst(p \o d)
  <1> DEFINE s == p \o d
             n == Len(p)
  <1>1. p \in Seq(Steps(S)) /\ n \in Nat /\ n >= 1 /\ DOMAIN p = 1..n
    <2>1. p \in Seq(Steps(S))
      BY DEF Formed
    <2>2. QED  BY <2>1, EmptySeq
  <1>2. /\ s \in Seq(Steps(S)) /\ DOMAIN s = 1..(n + 1)
        /\ \A i \in 1..n : s[i] = p[i]
        /\ \A i \in 1..1 : s[n + i] = d[i]
    <2>1. /\ p \o d \in Seq(Steps(S)) /\ DOMAIN (p \o d) = 1..(Len(p) + Len(d))
          /\ \A i \in 1..Len(p) : (p \o d)[i] = p[i]
          /\ \A i \in 1..Len(d) : (p \o d)[Len(p) + i] = d[i]
      <3>1. p \in Seq(Steps(S))
        BY DEF Formed
      <3> HIDE DEF s, n
      <3>2. QED  BY <3>1, JoinedIs
    <2>2. QED  BY <2>1
  <1>3. s[n + 1].do = "ready"
    BY <1>2
  <1> HIDE DEF s, n
  <1>4. ASSUME NEW i \in DOMAIN s
        PROVE  (i \in DOMAIN p /\ s[i] = p[i]) \/ (i = n + 1 /\ s[i].do = "ready")
    BY <1>1, <1>2, <1>3
  <1>5. Guards(s)
    <2> SUFFICES ASSUME NEW i \in DOMAIN s, s[i].do \in {"check", "close", "upgrade"}
                 PROVE  \E j \in 1..i : s[j].do = "enter"
      BY DEF Guards
    <2>1. i \in DOMAIN p /\ s[i] = p[i]
      BY <1>4
    <2>2. PICK j \in 1..i : p[j].do = "enter"
      BY <2>1 DEF Formed, Guards
    <2>3. s[j] = p[j]
      BY <1>1, <1>2, <2>1, <2>2
    <2>4. QED  BY <2>2, <2>3
  <1>6. ReadyLast(s)
    <2> SUFFICES ASSUME NEW i \in DOMAIN s, s[i].do = "ready"
                 PROVE  i > 1 /\ s[i - 1].do = "close"
      BY DEF ReadyLast
    <2>1. CASE i \in DOMAIN p /\ s[i] = p[i]
      <3>1. i > 1 /\ p[i - 1].do = "close"
        BY <2>1 DEF Formed, ReadyLast
      <3>2. s[i - 1] = p[i - 1]
        BY <1>1, <1>2, <2>1, <3>1
      <3>3. QED  BY <3>1, <3>2
    <2>2. CASE i = n + 1
      <3>1. i > 1 /\ s[i - 1] = p[n]
        BY <1>1, <1>2, <2>2
      <3>2. QED  BY <3>1 DEF n
    <2>3. QED  BY <1>4, <2>1, <2>2
  <1>7. Entered(s)
    <2>1. PICK j \in DOMAIN p : p[j].do = "enter"
      BY DEF Entered
    <2>2. j \in DOMAIN s /\ s[j] = p[j]
      BY <1>1, <1>2, <2>1
    <2>3. QED  BY <2>1, <2>2 DEF Entered
  <1>8. EnterFirst(p) => EnterFirst(s)
    BY <1>4 DEF EnterFirst
  <1>9. Formed(S, s)
    BY <1>2, <1>5, <1>6 DEF Formed
  <1>10. QED  BY <1>7, <1>8, <1>9 DEF s

LEMMA JoinedReady ==
  ASSUME NEW S, "ready" \in S, "close" \in S, NEW q, Formed(S, q), Entered(q)
  PROVE  LET s == (q \o Once("close")) \o Once("ready") IN
         /\ Formed(S, s) /\ Entered(s)
         /\ EnterFirst(q) => EnterFirst(s)
  <1> DEFINE c == Once("close")
             d == Once("ready")
             p == q \o c
  <1>1. /\ c \in Seq(Steps(S)) /\ Uses(c, "close") /\ Len(c) = 1
        /\ d \in Seq(Steps(S)) /\ Uses(d, "ready") /\ Len(d) = 1
    BY OnceIs
  <1> HIDE DEF c, d
  <1>2. Formed(S, p) /\ Entered(p) /\ (EnterFirst(q) => EnterFirst(p))
    BY <1>1, JoinedPlain
  <1>3. c[1].do = "close" /\ d[1].do = "ready"
    BY <1>1 DEF Uses
  <1>4. p[Len(p)] = c[1] /\ p # <<>>
    <2>1. q \in Seq(Steps(S))
      BY DEF Formed
    <2>2. QED  BY <1>1, <2>1, LastIs
  <1> HIDE DEF p
  <1>5. /\ Formed(S, p \o d) /\ Entered(p \o d)
        /\ EnterFirst(p) => EnterFirst(p \o d)
    BY <1>1, <1>2, <1>3, <1>4, ReadyJoined
  <1>6. QED  BY <1>2, <1>5 DEF p, c, d

\* The preparation.
LEMMA PreparationIs ==
  ASSUME NEW S, {"enter", "check", "close", "upgrade", "ready"} \subseteq S
  PROVE  Formed(S, Preparation) /\ Entered(Preparation) /\ EnterFirst(Preparation)
  <1> DEFINE a == Once("enter")
             b == a \o For("check")
             c == b \o Once("close")
             d == c \o For("upgrade")
  <1>1. a \in Seq(Steps(S)) /\ Uses(a, "enter") /\ Len(a) = 1
    BY OnceIs
  <1>2. /\ For("check") \in Seq(Steps(S)) /\ Uses(For("check"), "check")
        /\ For("upgrade") \in Seq(Steps(S)) /\ Uses(For("upgrade"), "upgrade")
        /\ Once("close") \in Seq(Steps(S)) /\ Uses(Once("close"), "close")
    BY ForIs, OnceIs
  <1> HIDE DEF a
  <1>3. Formed(S, a) /\ Entered(a) /\ EnterFirst(a)
    BY <1>1 DEF Formed, Guards, ReadyLast, Uses, Entered, EnterFirst
  <1>4. Formed(S, b) /\ Entered(b) /\ EnterFirst(b)
    BY <1>2, <1>3, JoinedPlain
  <1> HIDE DEF b
  <1>5. Formed(S, c) /\ Entered(c) /\ EnterFirst(c)
    BY <1>2, <1>4, JoinedPlain
  <1> HIDE DEF c
  <1>6. Formed(S, d) /\ Entered(d) /\ EnterFirst(d)
    BY <1>2, <1>5, JoinedPlain
  <1> HIDE DEF d
  <1>7. Preparation = (d \o Once("close")) \o Once("ready")
    BY Zenon DEF Preparation, a, b, c, d
  <1>8. QED  BY <1>6, <1>7, JoinedReady

\* The import, whether it commits itself, and whether it was prepared before.
LEMMA ImportScriptIs ==
  ASSUME NEW cmd, Standard(cmd), NEW prepared
  PROVE  LET q == ImportScript(cmd = "import-auto", prepared) IN
         Formed(StepsOf(cmd), q) /\ (cmd = "import-auto" => EnterFirst(q))
  <1> DEFINE S == StepsOf(cmd)
             auto == cmd = "import-auto"
             a == IF auto THEN <<>> ELSE Once("begin")
             b == a \o IF prepared THEN <<>> ELSE Preparation
             c == b \o For("row")
             e == IF auto THEN "commit" ELSE "return"
  <1>1. /\ {"enter", "check", "close", "upgrade", "ready", "row"} \subseteq S /\ e \in S
        /\ ~auto => "begin" \in S
    BY DEF StepsOf, Standard
  <1> HIDE DEF S
  <1>2. /\ Formed(S, Preparation) /\ EnterFirst(Preparation)
        /\ Formed(S, <<>>) /\ EnterFirst(<<>>)
    BY <1>1, PreparationIs DEF Formed, Guards, ReadyLast, EnterFirst
  <1>3. Formed(S, a)
    <2>1. ASSUME ~auto
          PROVE  Formed(S, Once("begin"))
      <3>1. Once("begin") \in Seq(Steps(S)) /\ Uses(Once("begin"), "begin")
        BY <1>1, <2>1, OnceIs
      <3>2. QED  BY <3>1 DEF Formed, Guards, ReadyLast, Uses
    <2>2. QED  BY <1>2, <2>1
  <1>4. Formed(S, b) /\ (auto => EnterFirst(b))
    <2>1. CASE auto
      <3>1. a = <<>>
        BY <2>1
      <3>2. b = <<>> \/ b = Preparation
        BY <1>2, <3>1, ConcatEmptySeq DEF Formed
      <3>3. QED  BY <1>2, <3>2
    <2>2. CASE ~auto
      <3>1. CASE prepared
        <4>1. b = a
          BY <1>3, <3>1, ConcatEmptySeq DEF Formed
        <4>2. QED  BY <1>3, <2>2, <4>1
      <3>2. CASE ~prepared
        <4>1. b = a \o Preparation
          BY <3>2
        <4>2. Formed(S, b)
          BY <1>2, <1>3, <4>1, Joined DEF Formed
        <4>3. QED  BY <2>2, <4>2
      <3>3. QED  BY <3>1, <3>2
    <2>3. QED  BY <2>1, <2>2
  <1> HIDE DEF a, b
  <1>5. Formed(S, c) /\ (auto => EnterFirst(c))
    <2>1. For("row") \in Seq(Steps(S)) /\ Uses(For("row"), "row")
      BY <1>1, ForIs
    <2>2. QED  BY <1>4, <2>1, JoinedPlain
  <1> HIDE DEF c
  <1>6. Formed(S, c \o Once(e)) /\ (auto => EnterFirst(c \o Once(e)))
    <2>1. Once(e) \in Seq(Steps(S)) /\ Uses(Once(e), e) /\ e \in {"commit", "return"}
      BY <1>1, OnceIs
    <2> HIDE DEF e
    <2>2. QED  BY <1>5, <2>1, JoinedPlain
  <1>7. ImportScript(auto, prepared) = c \o Once(e)
    BY DEF ImportScript, a, b, c, e
  <1>8. QED  BY <1>6, <1>7 DEF S

-----------------------------------------------------------------------------
\* The record of the command has every field the invariant reads.
JobKnown == {"cmd", "at", "todo", "snap", "failed", "clean", "unsure", "own"} \subseteq DOMAIN job

LEMMA JobStays == JobKnown /\ [Next]_vars => JobKnown'
  <1> SUFFICES ASSUME JobKnown, [Next]_vars  PROVE JobKnown'
    OBVIOUS
  <1>1. ASSUME NEW o, Advance(o)  PROVE JobKnown'
    BY <1>1 DEF Advance, JobKnown
  <1>2. ASSUME NEW S, Do(S)  PROVE JobKnown'
    BY <1>1, <1>2 DEF Do
  <1>3. CASE CallerWrites
    <2>1. PICK o : job' = IF o.ok THEN [job EXCEPT !.own = TRUE] ELSE [job EXCEPT !.at = "raised"]
      BY <1>3, Zenon DEF CallerWrites
    <2>2. QED  BY <2>1 DEF JobKnown
  <1>4. CASE Start
    BY <1>4 DEF Start, JobKnown
  <1>5. CASE Preflight \/ Migrate \/ BeginImport \/ CheckStandard \/ UpgradeStandard
    BY <1>2, <1>5, Zenon DEF Preflight, Migrate, BeginImport, CheckStandard, UpgradeStandard
  <1>6. CASE Create \/ Coupled \/ Close \/ CommitImport
    BY <1>2, <1>6, Zenon DEF Create, Coupled, Close, CommitImport
  <1>7. CASE Report \/ Enter \/ Ready \/ Return \/ Finished
    BY <1>7 DEF Report, Enter, Ready, Return, Finished, JobKnown
  <1>8. CASE WriteRow
    <2>1. \E o : Advance(o)
      BY <1>8, Zenon DEF WriteRow
    <2>2. QED  BY <1>1, <2>1
  <1>9. CASE Fail
    BY <1>9 DEF Fail, JobKnown
  <1>10. CASE CallerEnds
    <2>1. PICK o : job' = [job EXCEPT !.at = IF o.ok THEN "idle" ELSE "raised", !.own = FALSE]
      BY <1>10, Zenon DEF CallerEnds
    <2>2. QED  BY <2>1 DEF JobKnown
  <1>11. CASE Leave \/ Crash
    <2>1. job' = [Idle EXCEPT !.cmd = job.cmd]
      BY <1>11, Zenon DEF Leave, Crash
    <2>2. QED  BY <2>1 DEF JobKnown, Idle
  <1>12. CASE Reconnect \/ UNCHANGED vars
    BY <1>12 DEF Reconnect, vars, JobKnown
  <1>13. QED
    BY <1>3, <1>4, <1>5, <1>6, <1>7, <1>8, <1>9, <1>10, <1>11, <1>12, Zenon DEF Next

\* A step is done, or the command raises: what it leaves of the record.
Moves(o) ==
    /\ job'.cmd = job.cmd /\ job'.snap = job.snap /\ (job'.own <=> job.own)
    /\ job'.at \in {"run", "raising"} /\ (~job'.unsure => ~job.unsure)
    /\ job'.at = "run" => /\ o.ok /\ job'.todo = Tail(job.todo)
                          /\ ~job'.unsure => o.faults = 0

LEMMA AdvanceMoves ==
  ASSUME JobKnown, Standard(job.cmd), job.at = "run", NEW o, o.faults \in Nat, Advance(o)
  PROVE  Moves(o)
  <1> DEFINE noted == ~o.ok /\ Contained(job.cmd, Head(job.todo).do)
             todo == IF o.ok \/ noted THEN Tail(job.todo) ELSE job.todo
             at == IF o.ok \/ noted THEN job.at ELSE "raising"
             failed == job.failed \/ noted
             clean == job.clean /\ o.faults = 0
             unsure == job.unsure \/ (o.ok /\ o.faults > 0)
  <1>1. ~noted
    BY DEF Contained, Standard
  <1>2. job' = [job EXCEPT !.todo = todo, !.at = at, !.failed = failed, !.clean = clean,
                           !.unsure = unsure]
    BY Zenon DEF Advance
  <1>3. /\ o.ok => todo = Tail(job.todo) /\ at = "run"
        /\ ~o.ok => at = "raising"
        /\ ~unsure => ~job.unsure /\ (o.ok => o.faults = 0)
    BY <1>1
  <1> HIDE DEF todo, at, failed, clean, unsure, noted
  <1>4. /\ job'.cmd = job.cmd /\ job'.snap = job.snap /\ job'.own = job.own
        /\ job'.at = at /\ job'.todo = todo /\ job'.unsure = unsure
    BY <1>2, Zenon DEF JobKnown
  <1>5. QED  BY <1>3, <1>4 DEF Moves

\* The steps that are left once the first is done.
LEMMA TailOf ==
  ASSUME NEW S, NEW q \in Seq(S), q # <<>>
  PROVE  /\ Tail(q) \in Seq(S) /\ Head(q) = q[1] /\ 1 \in DOMAIN q
         /\ \A i \in DOMAIN Tail(q) : i \in Nat /\ i >= 1 /\ i + 1 \in DOMAIN q /\ Tail(q)[i] = q[i + 1]
         /\ Tail(q) # <<>> => 1 \in DOMAIN Tail(q) /\ Head(Tail(q)) = q[2] /\ 2 \in DOMAIN q
  <1>1. /\ Tail(q) \in Seq(S) /\ Len(q) \in Nat /\ Len(q) >= 1 /\ DOMAIN q = 1..Len(q)
        /\ Len(Tail(q)) = Len(q) - 1 /\ \A i \in 1..Len(Tail(q)) : Tail(q)[i] = q[i + 1]
    BY HeadTailProperties, EmptySeq
  <1>2. Tail(q) # <<>> => Len(Tail(q)) >= 1
    BY <1>1, EmptySeq
  <1>3. DOMAIN Tail(q) = 1..Len(Tail(q)) /\ Head(q) = q[1]
    BY <1>1
  <1>4. Tail(q) # <<>> => Head(Tail(q)) = Tail(q)[1]
    BY <1>1
  <1>5. QED  BY <1>1, <1>2, <1>3, <1>4

\* Commands other than an import, and what an import does not do.
LEMMA OthersKeep ==
  ASSUME KeepsInv, ~Standard(job.cmd), job'.cmd = job.cmd, job'.own => job.own,
         job'.at # "idle"
  PROVE  KeepsInv'
  BY DEF KeepsInv, OwnInv, ScriptInv, Standard

\* What an import has under way.
LEMMA StandardDoes ==
  ASSUME KeepsInv, Standard(job.cmd), NEW do, Doing(do)
  PROVE  /\ do \in StepsOf(job.cmd) /\ job.at = "run" /\ job.todo # <<>>
         /\ job.todo \in Seq(Steps(StepsOf(job.cmd))) /\ Head(job.todo).do = do
  <1>1. job.todo \in Seq(Steps(StepsOf(job.cmd))) /\ job.todo # <<>> /\ job.at = "run"
        /\ Head(job.todo).do = do
    BY DEF KeepsInv, ScriptInv, Doing, Steps
  <1>2. Head(job.todo) \in Steps(StepsOf(job.cmd))
    BY <1>1
  <1>3. QED  BY <1>1, <1>2 DEF Steps

LEMMA SetupKeeps ==
  ASSUME KeepsInv, NEW do \in {"preflight", "migrate", "create", "coupled", "report"}, Doing(do),
         job'.cmd = job.cmd, job'.own => job.own, job'.at # "idle"
  PROVE  KeepsInv'
  <1>1. ~Standard(job.cmd)
    BY StandardDoes DEF StepsOf
  <1>2. QED  BY <1>1, OthersKeep

\* A step of an import, other than the entry of its preparation.
LEMMA StepKeeps ==
  ASSUME KeepsInv, Standard(job.cmd), NEW do, do # "enter", Doing(do), NEW o, db' = o.db, Moves(o),
         o.db.dual = db.dual,
         job.cmd = "import-auto" => (~db.active => ~o.db.active),
         job.own => Spared(db.p, o.db.p) /\ (db.dual => Spared(db.s, o.db.s)),
         job.own /\ ~job.unsure /\ Holding(db) /\ o.ok /\ o.faults = 0 => Holding(o.db),
         job.cmd = "import-auto" /\ do = "close" /\ Snapped /\ ~db.active /\ o.ok => ~Pending(o.db)
  PROVE  KeepsInv'
  <1> DEFINE q == job.todo
             auto == job.cmd = "import-auto"
             T == Steps(StepsOf(job.cmd))
  <1>1. q \in Seq(T) /\ q # <<>> /\ Head(q).do = do /\ job.at = "run"
    BY StandardDoes
  <1>2. OwnInv'
    <2>1. \A b \in Targets(db) : job.own => ~b.store.own
      BY <1>1 DEF KeepsInv, OwnInv
    <2>2. job.own => ~db.p.store.own /\ (db.dual => ~db.s.store.own)
      BY <2>1 DEF Targets
    <2>3. job.own => \A b \in Targets(db') : ~b.store.own
      BY <2>2 DEF Targets, Spared
    <2>4. job.own /\ job'.at = "run" /\ ~job'.unsure => Holding(db')
      BY <1>1 DEF KeepsInv, OwnInv, Moves
    <2>5. auto => ~db'.active
      BY DEF KeepsInv, OwnInv
    <2>6. QED  BY <2>3, <2>4, <2>5 DEF KeepsInv, OwnInv, Moves
  <1>3. ScriptInv'
    <2> SUFFICES ASSUME job'.at = "run"  PROVE ScriptInv'
      BY DEF ScriptInv
    <2> DEFINE r == Tail(q)
    <2>1. /\ r \in Seq(T) /\ Head(q) = q[1] /\ 1 \in DOMAIN q
          /\ \A i \in DOMAIN r : i \in Nat /\ i >= 1 /\ i + 1 \in DOMAIN q /\ r[i] = q[i + 1]
          /\ r # <<>> => 1 \in DOMAIN r /\ Head(r) = q[2] /\ 2 \in DOMAIN q
      <3> HIDE DEF q, T
      <3>1. QED  BY <1>1, TailOf
    <2>2. /\ job'.todo = r /\ job'.cmd = job.cmd /\ o.ok
          /\ job'.own /\ ~job'.unsure => job.own /\ ~job.unsure
      BY DEF Moves
    <2>3. /\ auto \/ (job.own /\ ~job.unsure) =>
               \A i \in DOMAIN q : q[i].do \in {"check", "close", "upgrade"} =>
                   Snapped \/ \E j \in 1..i : q[j].do = "enter"
          /\ \A i \in DOMAIN q : q[i].do = "ready" => i = 1 \/ q[i - 1].do = "close"
          /\ auto => \A i \in DOMAIN q : q[i].do = "enter" => i = 1
      BY <1>1 DEF KeepsInv, ScriptInv
    <2>4. Snapped => Snapped'
      BY DEF Snapped, Moves
    <2>5. q[1].do = do
      BY <1>1, <2>1
    <2> HIDE DEF r, q
    <2>6. auto \/ (job'.own /\ ~job'.unsure) =>
            \A i \in DOMAIN r : r[i].do \in {"check", "close", "upgrade"} =>
                Snapped' \/ \E j \in 1..i : r[j].do = "enter"
      <3> SUFFICES ASSUME auto \/ (job'.own /\ ~job'.unsure), NEW i \in DOMAIN r,
                          r[i].do \in {"check", "close", "upgrade"}, ~Snapped
                   PROVE  \E j \in 1..i : r[j].do = "enter"
        BY <2>4
      <3>1. i \in Nat /\ i >= 1 /\ i + 1 \in DOMAIN q /\ r[i] = q[i + 1]
        BY <2>1
      <3>2. PICK j \in 1..(i + 1) : q[j].do = "enter"
        BY <2>2, <2>3, <3>1
      <3>3. j # 1
        BY <2>5, <3>2
      <3>4. j - 1 \in 1..i
        BY <3>1, <3>2, <3>3
      <3>5. j - 1 \in DOMAIN r
        BY <2>1, <3>1, <3>4
      <3>6. r[j - 1] = q[j]
        BY <2>1, <3>4, <3>5
      <3>7. QED  BY <3>2, <3>4, <3>6
    <2>7. \A i \in DOMAIN r : r[i].do = "ready" => i = 1 \/ r[i - 1].do = "close"
      <3> SUFFICES ASSUME NEW i \in DOMAIN r, r[i].do = "ready", i # 1
                   PROVE  r[i - 1].do = "close"
        OBVIOUS
      <3>1. i \in Nat /\ i > 1 /\ i + 1 \in DOMAIN q /\ q[i + 1].do = "ready"
        BY <2>1
      <3>2. q[(i + 1) - 1].do = "close"
        BY <2>3, <3>1
      <3>3. i - 1 \in DOMAIN r /\ (i - 1) + 1 = i
        BY <2>1, <3>1
      <3>4. r[i - 1] = q[i]
        BY <2>1, <3>3
      <3>5. (i + 1) - 1 = i
        BY <3>1
      <3>6. QED  BY <3>2, <3>4, <3>5
    <2>8. ASSUME auto, NEW i \in DOMAIN r, r[i].do = "enter"
          PROVE  FALSE
      <3>1. i \in Nat /\ i >= 1 /\ i + 1 \in DOMAIN q /\ q[i + 1].do = "enter"
        BY <2>1, <2>8
      <3>2. i + 1 = 1
        BY <2>3, <2>8, <3>1
      <3>3. QED  BY <3>1, <3>2
    <2>9. auto /\ r # <<>> /\ Head(r).do = "ready" => ~Pending(db')
      <3> SUFFICES ASSUME auto, r # <<>>, Head(r).do = "ready"  PROVE ~Pending(o.db)
        OBVIOUS
      <3>1. q[1].do = "close"
        <4>1. 2 \in DOMAIN q /\ q[2].do = "ready"
          BY <2>1
        <4>2. 2 = 1 \/ q[2 - 1].do = "close"
          BY <2>3, <4>1
        <4>3. QED  BY <4>2
      <3>2. Snapped \/ \E j \in 1..1 : q[j].do = "enter"
        BY <2>1, <2>3, <3>1
      <3>3. Snapped
        BY <3>1, <3>2
      <3>4. ~db.active
        BY DEF KeepsInv, OwnInv
      <3>5. QED  BY <2>2, <2>5, <3>1, <3>3, <3>4
    <2>10. QED  BY <2>1, <2>2, <2>6, <2>7, <2>8, <2>9 DEF ScriptInv, Steps
  <1>4. QED  BY <1>2, <1>3 DEF KeepsInv

\* The same after a call that carries the caller's transaction on.
LEMMA CarriedKeeps ==
  ASSUME JobKnown, SoundHandle, KeepsInv, NEW do, do # "enter", Doing(do), NEW V,
         NEW o \in Results(V), db' = o.db, Advance(o), job'.own => job.own, job'.cmd = job.cmd,
         job'.at # "idle",
         Standard(job.cmd) => Carries(job.cmd = "import-auto", db, o),
         do # "close"
  PROVE  KeepsInv'
  <1>1. CASE Standard(job.cmd)
    <2>1. Moves(o)
      BY <1>1, AdvanceMoves, ResultHolds DEF Doing
    <2>2. job.own => job.cmd # "import-auto"
      BY DEF KeepsInv, OwnInv
    <2>3. QED  BY <1>1, <2>1, <2>2, StepKeeps DEF Carries
  <1>2. CASE ~Standard(job.cmd)
    BY <1>2, OthersKeep
  <1>3. QED  BY <1>1, <1>2

\* What an advance leaves, whatever the command.
LEMMA AdvanceStays ==
  ASSUME JobKnown, NEW o, Advance(o), NEW do, Doing(do)
  PROVE  job'.cmd = job.cmd /\ (job'.own <=> job.own) /\ job'.at # "idle"
  <1> DEFINE noted == ~o.ok /\ Contained(job.cmd, Head(job.todo).do)
             todo == IF o.ok \/ noted THEN Tail(job.todo) ELSE job.todo
             at == IF o.ok \/ noted THEN job.at ELSE "raising"
             failed == job.failed \/ noted
             clean == job.clean /\ o.faults = 0
             unsure == job.unsure \/ (o.ok /\ o.faults > 0)
  <1>1. job' = [job EXCEPT !.todo = todo, !.at = at, !.failed = failed, !.clean = clean,
                           !.unsure = unsure]
    BY Zenon DEF Advance
  <1>2. at # "idle"
    BY DEF Doing
  <1> HIDE DEF todo, at, failed, clean, unsure, noted
  <1>3. job'.cmd = job.cmd /\ job'.own = job.own /\ job'.at = at
    BY <1>1, Zenon DEF JobKnown
  <1>4. QED  BY <1>2, <1>3

\* The entry of the preparation.
LEMMA EnterKeeps ==
  ASSUME JobKnown, KeepsInv, Enter
  PROVE  KeepsInv'
  <1> DEFINE q == job.todo
             r == Tail(q)
             auto == job.cmd = "import-auto"
             T == Steps(StepsOf(job.cmd))
             n == Snapshot(db)
  <1>1. job' = [job EXCEPT !.snap = n, !.todo = r] /\ db' = db /\ Doing("enter")
    BY DEF Enter
  <1> HIDE DEF n, r
  <1>2. /\ job'.snap = n /\ job'.todo = r /\ job'.cmd = job.cmd /\ (job'.own <=> job.own)
        /\ job'.at = job.at /\ (job'.unsure <=> job.unsure)
    <2>1. /\ job'.snap = n /\ job'.todo = r /\ job'.cmd = job.cmd /\ job'.own = job.own
          /\ job'.at = job.at /\ job'.unsure = job.unsure
      BY <1>1, Zenon DEF JobKnown
    <2>2. QED  BY <2>1
  <1>3. OwnInv'
    BY <1>1, <1>2 DEF KeepsInv, OwnInv, Doing, Targets, Holding
  <1>4. CASE ~Standard(job.cmd)
    BY <1>2, <1>3, <1>4 DEF KeepsInv, ScriptInv, Standard
  <1>5. CASE Standard(job.cmd)
    <2>1. q \in Seq(T) /\ q # <<>> /\ Head(q).do = "enter" /\ job.at = "run"
      BY <1>1, <1>5, StandardDoes
    <2>2. /\ r \in Seq(T) /\ Head(q) = q[1] /\ 1 \in DOMAIN q
          /\ \A i \in DOMAIN r : i \in Nat /\ i >= 1 /\ i + 1 \in DOMAIN q /\ r[i] = q[i + 1]
          /\ r # <<>> => 1 \in DOMAIN r /\ Head(r) = q[2] /\ 2 \in DOMAIN q
      <3> HIDE DEF q, T
      <3>1. QED  BY <2>1, TailOf DEF r
    <2>3. /\ \A i \in DOMAIN q : q[i].do = "ready" => i = 1 \/ q[i - 1].do = "close"
          /\ auto => \A i \in DOMAIN q : q[i].do = "enter" =>
                         i = 1 /\ ~has_pending_transaction(db.p) /\ ~has_pending_transaction(db.s)
      BY <1>5, <2>1 DEF KeepsInv, ScriptInv
    <2>4. q[1].do = "enter"
      BY <2>1, <2>2
    <2>5. auto => ~has_pending_transaction(db.p) /\ ~has_pending_transaction(db.s)
      BY <2>2, <2>3, <2>4
    <2>6. job.own /\ ~job.unsure => Holding(db) /\ ~auto
      BY <2>1 DEF KeepsInv, OwnInv
    <2>7. auto \/ (job.own /\ ~job.unsure) => Snapped'
      <3>1. n.p = has_pending_transaction(db.p) /\ n.s = has_pending_transaction(db.s)
        BY DEF n, Snapshot
      <3>2. CASE auto
        BY <1>1, <1>2, <2>5, <3>1, <3>2 DEF Snapped
      <3>3. CASE job.own /\ ~job.unsure
        <4>1. has_pending_transaction(db.p) /\ (db.dual => has_pending_transaction(db.s))
          BY <2>6, <3>3 DEF Holding, OwnHeld, has_pending_transaction
        <4>2. job.cmd = "import"
          BY <3>3 DEF KeepsInv, OwnInv
        <4>3. QED  BY <1>1, <1>2, <3>1, <4>1, <4>2 DEF Snapped
      <3>4. QED  BY <3>2, <3>3
    <2> HIDE DEF q
    <2>8. \A i \in DOMAIN r : r[i].do = "ready" => i = 1 \/ r[i - 1].do = "close"
      <3> SUFFICES ASSUME NEW i \in DOMAIN r, r[i].do = "ready", i # 1
                   PROVE  r[i - 1].do = "close"
        OBVIOUS
      <3>1. i \in Nat /\ i > 1 /\ i + 1 \in DOMAIN q /\ q[i + 1].do = "ready"
        BY <2>2
      <3>2. q[(i + 1) - 1].do = "close"
        BY <2>3, <3>1
      <3>3. i - 1 \in DOMAIN r /\ (i - 1) + 1 = i
        BY <2>2, <3>1
      <3>4. r[i - 1] = q[i]
        BY <2>2, <3>3
      <3>5. (i + 1) - 1 = i
        BY <3>1
      <3>6. QED  BY <3>2, <3>4, <3>5
    <2>9. ASSUME auto, NEW i \in DOMAIN r, r[i].do = "enter"
          PROVE  FALSE
      <3>1. i \in Nat /\ i >= 1 /\ i + 1 \in DOMAIN q /\ q[i + 1].do = "enter"
        BY <2>2, <2>9
      <3>2. i + 1 = 1
        BY <2>3, <2>9, <3>1
      <3>3. QED  BY <3>1, <3>2
    <2>10. ~(r # <<>> /\ Head(r).do = "ready")
      <3> SUFFICES ASSUME r # <<>>, Head(r).do = "ready"  PROVE FALSE
        OBVIOUS
      <3>1. 2 \in DOMAIN q /\ q[2].do = "ready"
        BY <2>2
      <3>2. 2 = 1 \/ q[2 - 1].do = "close"
        BY <2>3, <3>1
      <3>3. QED  BY <2>4, <3>2
    <2>11. ScriptInv'
      BY <1>2, <2>2, <2>7, <2>8, <2>9, <2>10 DEF ScriptInv, Steps
    <2>12. QED  BY <1>3, <2>11 DEF KeepsInv
  <1>6. QED  BY <1>4, <1>5

\* A command begins.
LEMMA StartKeeps ==
  ASSUME JobKnown, KeepsInv, Start
  PROVE  KeepsInv'
  <1> DEFINE q == Script(db, job.cmd, ready)
             at == "run"
             failed == FALSE
             clean == ~db.p.broken /\ ~db.s.broken
             auto == job.cmd = "import-auto"
  <1>1. /\ job' = [job EXCEPT !.at = at, !.todo = q, !.failed = failed, !.clean = clean]
        /\ db' = db /\ job.at = "idle"
    BY DEF Start
  <1> HIDE DEF at, failed, clean, q
  <1>2. job'.at = at /\ job'.todo = q /\ job'.cmd = job.cmd /\ job'.own = job.own
    BY <1>1, Zenon DEF JobKnown
  <1>3. OwnInv'
    BY <1>1, <1>2 DEF KeepsInv, OwnInv, Targets, Holding, at
  <1>4. ASSUME Standard(job.cmd)
        PROVE  Formed(StepsOf(job.cmd), q) /\ (auto => EnterFirst(q))
    <2>1. q = ImportScript(auto, ready)
      BY <1>4 DEF q, Script, Standard
    <2>2. QED  BY <1>4, <2>1, ImportScriptIs
  <1>5. auto => ~has_pending_transaction(db.p) /\ ~has_pending_transaction(db.s)
    BY <1>1 DEF KeepsInv, OwnInv
  <1>6. ScriptInv'
    <2> SUFFICES ASSUME Standard(job.cmd)  PROVE ScriptInv'
      BY <1>2 DEF ScriptInv
    <2>1. Formed(StepsOf(job.cmd), q) /\ (auto => EnterFirst(q))
      BY <1>4
    <2>2. q # <<>> => 1 \in DOMAIN q /\ Head(q) = q[1]
      BY <2>1, TailOf DEF Formed
    <2>3. ~(q # <<>> /\ Head(q).do = "ready")
      BY <2>1, <2>2 DEF Formed, ReadyLast
    <2>4. \A i \in DOMAIN q : q[i].do = "ready" => i = 1 \/ q[i - 1].do = "close"
      BY <2>1 DEF Formed, ReadyLast
    <2>5. \A i \in DOMAIN q : q[i].do \in {"check", "close", "upgrade"} =>
              \E j \in 1..i : q[j].do = "enter"
      BY <2>1 DEF Formed, Guards
    <2>6. auto => \A i \in DOMAIN q : q[i].do = "enter" => i = 1
      BY <2>1 DEF EnterFirst
    <2>7. q \in Seq(Steps(StepsOf(job.cmd)))
      BY <2>1 DEF Formed
    <2>8. QED  BY <1>1, <1>2, <1>5, <2>3, <2>4, <2>5, <2>6, <2>7 DEF ScriptInv, Steps
  <1>7. QED  BY <1>3, <1>6 DEF KeepsInv

\* The end of a process, and of what it had begun.
LEMMA LeftKeeps ==
  ASSUME JobKnown, NEW V, NEW k \in HandlesOf(V), db' = Ended(k), job' = [Idle EXCEPT !.cmd = job.cmd]
  PROVE  KeepsInv'
  <1>1. Quiet(db')
    BY EndedQuiet
  <1>2. job'.at = "idle" /\ ~job'.own
    BY DEF Idle
  <1>3. QED  BY <1>1, <1>2 DEF KeepsInv, OwnInv, ScriptInv, Quiet

\* The caller's row, and the end of its transaction.
LEMMA CallerWritesKeeps ==
  ASSUME JobKnown, SoundHandle, KeepsInv, CallerWrites
  PROVE  KeepsInv'
  <1>1. PICK o \in OwnWritten(db) :
          /\ db' = o.db /\ job.at = "idle" /\ job.cmd = "import"
          /\ job' = IF o.ok THEN [job EXCEPT !.own = TRUE] ELSE [job EXCEPT !.at = "raised"]
    BY Zenon DEF CallerWrites, OwnWritten, Take
  <1>2. \A b \in Targets(db) : ~b.seen.own
    BY DEF CallerWrites
  <1>3. ~db.p.seen.own /\ (db.dual => ~db.s.seen.own)
    BY <1>2 DEF Targets
  <1>4. ~job.own
    BY <1>1, <1>3 DEF KeepsInv, OwnInv, Holding, OwnHeld
  <1>5. ~is_transaction_active(db)
    BY <1>1, <1>4 DEF KeepsInv, OwnInv
  <1>6. ~db.p.store.own /\ (db.dual => ~db.s.store.own)
    <2>1. db.p \in SafeSessions(verified) /\ db.s \in SafeSessions(verified)
      BY HandleHolds DEF SoundHandle
    <2>2. OwnSound(db.p) /\ OwnSound(db.s)
      BY <2>1 DEF SafeSessions, SafeSession
    <2>3. QED  BY <1>3, <2>2 DEF OwnSound
  <1>7. CASE o.ok
    <2>1. job'.own /\ job'.at = "idle" /\ job'.cmd = "import"
      BY <1>1, <1>7 DEF JobKnown
    <2>2. Holding(db')
      BY <1>1, <1>5, <1>6, <1>7, OwnWrittenHolds DEF SoundHandle
    <2>3. \A b \in Targets(db') : ~b.store.own
      BY <2>2 DEF Targets, Holding, OwnHeld
    <2>4. QED  BY <2>1, <2>2, <2>3 DEF KeepsInv, OwnInv, ScriptInv
  <1>8. CASE ~o.ok
    <2>1. ~job'.own /\ job'.at = "raised" /\ job'.cmd = "import"
      BY <1>1, <1>4, <1>8 DEF JobKnown
    <2>2. QED  BY <2>1 DEF KeepsInv, OwnInv, ScriptInv
  <1>9. QED  BY <1>7, <1>8

LEMMA CallerEndsKeeps ==
  ASSUME JobKnown, SoundHandle, KeepsInv, CallerEnds
  PROVE  KeepsInv'
  <1>1. PICK o \in Commit(db) \cup Rollback(db) :
          /\ db' = o.db /\ job.at = "returned"
          /\ job' = [job EXCEPT !.at = IF o.ok THEN "idle" ELSE "raised", !.own = FALSE]
    BY DEF CallerEnds, Take
  <1>2. /\ job'.cmd = job.cmd /\ ~job'.own /\ job'.at = IF o.ok THEN "idle" ELSE "raised"
    BY <1>1 DEF JobKnown
  <1>3. job.cmd # "import-auto"
    BY <1>1 DEF KeepsInv, OwnInv
  <1>4. o.ok => ~is_transaction_active(db')
    BY <1>1, CommitsBoth, RollsBackBoth DEF SoundHandle
  <1>5. QED  BY <1>2, <1>3, <1>4 DEF KeepsInv, OwnInv, ScriptInv

\* The command fails: an import rolls its caller back.
LEMMA FailKeeps ==
  ASSUME JobKnown, SoundHandle, KeepsInv, Fail
  PROVE  KeepsInv'
  <1>1. /\ job.at = "raising" /\ job' = [job EXCEPT !.at = "raised"]
        /\ \E o \in (IF job.cmd = "import" THEN RollbackFailedImport(db)
                     ELSE IF job.cmd = "fetch" THEN Rollback(db) ELSE {Ok(db, 0)}) : db' = o.db
    BY DEF Fail, Take
  <1>2. job'.cmd = job.cmd /\ (job'.own <=> job.own) /\ job'.at = "raised"
    BY <1>1 DEF JobKnown
  <1>3. CASE job.cmd = "import"
    <2>1. PICK o \in RollbackFailedImport(db) : db' = o.db
      BY <1>1, <1>3
    <2>2. SparesBoth(db, db')
      BY <2>1, RollbackFailedSpares DEF SoundHandle
    <2>3. job.own => ~db.p.store.own /\ (db.dual => ~db.s.store.own)
      BY <1>1 DEF KeepsInv, OwnInv, Targets
    <2>4. job.own => \A b \in Targets(db') : ~b.store.own
      BY <2>2, <2>3 DEF SparesBoth, Spared, Targets
    <2>5. QED  BY <1>2, <1>3, <2>4 DEF KeepsInv, OwnInv, ScriptInv
  <1>4. CASE job.cmd # "import"
    <2>1. ~job.own
      BY <1>4 DEF KeepsInv, OwnInv
    <2>2. job.cmd = "import-auto" => ~db'.active
      <3> SUFFICES ASSUME job.cmd = "import-auto"  PROVE ~db'.active
        OBVIOUS
      <3>1. db' = db
        BY <1>1 DEF Ok
      <3>2. QED  BY <3>1 DEF KeepsInv, OwnInv
    <2>3. QED  BY <1>2, <2>1, <2>2 DEF KeepsInv, OwnInv, ScriptInv
  <1>5. QED  BY <1>3, <1>4

LEMMA ReconnectKeeps ==
  ASSUME JobKnown, SoundHandle, KeepsInv, Reconnect
  PROVE  KeepsInv'
  <1>1. PICK o \in Connect(db) : o.ok /\ db' = o.db
    BY DEF Reconnect, Take
  <1>2. job.at = "idle" /\ ~db.p.open /\ job' = job
    BY DEF Reconnect, is_connected
  <1>3. db \in HandlesOf({})
    BY <1>2 DEF SoundHandle
  <1>4. ~job.own
    BY <1>2 DEF KeepsInv, OwnInv, Holding, OwnHeld
  <1>5. /\ ~db'.active /\ ~is_transaction_active(db')
        /\ ~has_pending_transaction(db.s) => Quiet(db')
    BY <1>1, <1>3, ConnectsQuiet
  <1>6. QED  BY <1>2, <1>4, <1>5 DEF KeepsInv, OwnInv, ScriptInv, Quiet

\* What an import does: its own begin and commit, the preparation, and the rows.
LEMMA BeginImportKeeps ==
  ASSUME JobKnown, SoundHandle, KeepsInv, BeginImport
  PROVE  KeepsInv'
  <1>1. PICK o \in Begin(db) : db' = o.db /\ Advance(o) /\ Doing("begin")
    BY DEF BeginImport, Do, Take
  <1>2. o \in Results(verified) /\ db \in HandlesOf(verified)
    BY BeginIs DEF SoundHandle
  <1>3. /\ SparesBoth(db, o.db)
        /\ is_transaction_active(db) => o = Ok(db, 0)
    BY <1>2, BeginsBoth
  <1>4. CASE Standard(job.cmd)
    <2>1. job.cmd = "import"
      BY <1>1, <1>4, StandardDoes DEF StepsOf, Standard
    <2>2. Moves(o)
      BY <1>1, <1>2, <1>4, AdvanceMoves, ResultHolds DEF Doing
    <2>3. Holding(db) => is_transaction_active(db)
      BY DEF Holding, OwnHeld, is_transaction_active
    <2>4. Holding(db) => Holding(o.db)
      BY <1>3, <2>3 DEF Ok
    <2>5. /\ o.db.dual = db.dual
          /\ Spared(db.p, o.db.p) /\ Spared(db.s, o.db.s)
      BY <1>3 DEF SparesBoth
    <2>6. job.cmd # "import-auto" /\ "begin" # "enter" /\ Doing("begin")
      BY <1>1, <2>1
    <2>7. QED  BY <1>1, <1>4, <2>2, <2>4, <2>5, <2>6, StepKeeps
  <1>5. CASE ~Standard(job.cmd)
    BY <1>1, <1>5, AdvanceStays, OthersKeep
  <1>6. QED  BY <1>4, <1>5

LEMMA CommitImportKeeps ==
  ASSUME JobKnown, SoundHandle, KeepsInv, CommitImport
  PROVE  KeepsInv'
  <1>1. PICK o \in Commit(db) : db' = o.db /\ Advance(o) /\ Doing("commit")
    BY DEF CommitImport, Do, Take
  <1>2. o \in Results(verified) /\ db \in HandlesOf(verified)
    BY CommitIs DEF SoundHandle
  <1>3. CASE Standard(job.cmd)
    <2>1. job.cmd = "import-auto"
      BY <1>1, <1>3, StandardDoes DEF StepsOf, Standard
    <2>2. Moves(o)
      BY <1>1, <1>2, <1>3, AdvanceMoves, ResultHolds DEF Doing
    <2>3. o.db.dual = db.dual /\ (~db.active => ~o.db.active)
      BY <1>2, CommitsBoth
    <2>4. ~job.own
      BY <2>1 DEF KeepsInv, OwnInv
    <2>5. "commit" # "enter" /\ "commit" # "close"
      OBVIOUS
    <2>6. QED  BY <1>1, <1>3, <2>2, <2>3, <2>4, <2>5, StepKeeps
  <1>4. CASE ~Standard(job.cmd)
    BY <1>1, <1>4, AdvanceStays, OthersKeep
  <1>5. QED  BY <1>3, <1>4

LEMMA CloseKeeps ==
  ASSUME JobKnown, SoundHandle, KeepsInv, Close
  PROVE  KeepsInv'
  <1>1. PICK o \in CloseCreated(db, job.snap) : db' = o.db /\ Advance(o) /\ Doing("close")
    BY DEF Close, Do, Take
  <1>2. o \in Results(verified) /\ db \in HandlesOf(verified)
    BY CloseCreatedIs DEF SoundHandle
  <1>3. /\ SparesBoth(db, o.db) /\ o.db.active = db.active
        /\ Holding(db) /\ job.snap.p /\ (db.dual => job.snap.s) => Holding(o.db)
        /\ ~db.active /\ ~job.snap.p /\ ~job.snap.s /\ o.ok => ~Pending(o.db)
    BY <1>1, <1>2, CloseCreatedSpares
  <1>4. CASE Standard(job.cmd)
    <2>1. Moves(o)
      BY <1>1, <1>2, <1>4, AdvanceMoves, ResultHolds DEF Doing
    <2>2. /\ o.db.dual = db.dual
          /\ Spared(db.p, o.db.p) /\ Spared(db.s, o.db.s)
      BY <1>3 DEF SparesBoth
    <2>3. job.own => job.cmd = "import"
      BY DEF KeepsInv, OwnInv
    <2>4. job.own /\ ~job.unsure /\ Holding(db) => Holding(o.db)
      <3> SUFFICES ASSUME job.own, ~job.unsure, Holding(db)  PROVE Holding(o.db)
        OBVIOUS
      <3> DEFINE q == job.todo
                 T == Steps(StepsOf(job.cmd))
      <3>1. q \in Seq(T) /\ q # <<>> /\ Head(q).do = "close" /\ job.at = "run"
        BY <1>1, <1>4, StandardDoes
      <3>2. \A i \in DOMAIN q : q[i].do \in {"check", "close", "upgrade"} =>
                Snapped \/ \E j \in 1..i : q[j].do = "enter"
        BY <1>4, <3>1 DEF KeepsInv, ScriptInv
      <3> HIDE DEF q, T
      <3>3. 1 \in DOMAIN q /\ q[1].do = "close"
        BY <3>1, TailOf
      <3>4. Snapped \/ \E j \in 1..1 : q[j].do = "enter"
        BY <3>2, <3>3
      <3>5. Snapped
        BY <3>3, <3>4
      <3>6. job.snap.p /\ (db.dual => job.snap.s)
        BY <2>3, <3>5 DEF Snapped
      <3>7. QED  BY <1>3, <3>6
    <2>5. job.cmd = "import-auto" /\ Snapped /\ ~db.active /\ o.ok => ~Pending(o.db)
      BY <1>3 DEF Snapped
    <2>6. Doing("close") /\ "close" # "enter"
      BY <1>1
    <2>7. QED  BY <1>1, <1>3, <1>4, <2>1, <2>2, <2>4, <2>5, <2>6, StepKeeps
  <1>5. CASE ~Standard(job.cmd)
    BY <1>1, <1>5, AdvanceStays, OthersKeep
  <1>6. QED  BY <1>4, <1>5

LEMMA ReadyKeeps ==
  ASSUME JobKnown, SoundHandle, KeepsInv, Ready
  PROVE  KeepsInv'
  <1>1. job' = [job EXCEPT !.todo = Tail(@)] /\ db' = db /\ Doing("ready")
    BY DEF Ready
  <1>2. /\ job'.cmd = job.cmd /\ job'.snap = job.snap /\ job'.own = job.own /\ job'.at = job.at
        /\ job'.todo = Tail(job.todo) /\ job'.unsure = job.unsure
    BY <1>1 DEF JobKnown
  <1>3. CASE Standard(job.cmd)
    <2> DEFINE o == Ok(db, 0)
    <2>1. o.db = db /\ o.ok /\ o.faults = 0
      BY DEF Ok
    <2> HIDE DEF o
    <2>2. Moves(o)
      BY <1>1, <1>2, <2>1 DEF Moves, Doing
    <2>3. Spared(db.p, o.db.p) /\ Spared(db.s, o.db.s)
      BY <2>1 DEF Spared
    <2>4. "ready" # "enter" /\ "ready" # "close"
      OBVIOUS
    <2>5. QED  BY <1>1, <1>3, <2>1, <2>2, <2>3, <2>4, StepKeeps
  <1>4. CASE ~Standard(job.cmd)
    BY <1>1, <1>2, <1>4, OthersKeep DEF Doing
  <1>5. QED  BY <1>3, <1>4

LEMMA CheckKeeps ==
  ASSUME JobKnown, SoundHandle, KeepsInv, CheckStandard
  PROVE  KeepsInv'
  <1>1. PICK o \in CloseAfter(StandardPreflight(db, This), job.snap) :
          db' = o.db /\ Advance(o) /\ Doing("check")
    BY Zenon DEF CheckStandard, Do, Prepared, CloseAfter, Take
  <1> DEFINE S == StandardPreflight(db, This)
             c == job.cmd = "import-auto"
  <1>2. db \in HandlesOf(verified) /\ S \subseteq Results(verified)
    BY StandardPreflightIs DEF SoundHandle
  <1>3. \A e \in S : Carries(c, db, e)
    BY <1>2, StandardPreflightCarries
  <1> HIDE DEF S
  <1>4. o \in Results(verified) /\ Carries(c, db, o)
    BY <1>1, <1>2, <1>3, CloseAfterIs, CloseAfterCarries DEF S
  <1>5. job'.cmd = job.cmd /\ (job'.own <=> job.own) /\ job'.at # "idle"
    BY <1>1, AdvanceStays
  <1>6. "check" # "enter" /\ "check" # "close"
    OBVIOUS
  <1>7. QED  BY <1>1, <1>4, <1>5, <1>6, CarriedKeeps

LEMMA UpgradeKeeps ==
  ASSUME JobKnown, SoundHandle, KeepsInv, UpgradeStandard
  PROVE  KeepsInv'
  <1> DEFINE c == job.cmd = "import-auto"
             S == StandardMigrate(db, This, c)
  <1>1. PICK o \in CloseAfter(S, job.snap) : db' = o.db /\ Advance(o) /\ Doing("upgrade")
    BY Zenon DEF UpgradeStandard, Do, Prepared, CloseAfter, Take
  <1>2. db \in HandlesOf(verified) /\ c \in BOOLEAN
    BY DEF SoundHandle
  <1>3. S \subseteq Results(verified)
    <2> HIDE DEF c
    <2>1. QED  BY <1>2, StandardMigrateIs
  <1>4. \A e \in S : Carries(c, db, e)
    <2> HIDE DEF c
    <2>1. QED  BY <1>2, StandardMigrateCarries
  <1> HIDE DEF S
  <1>5. o \in Results(verified)
    BY <1>2, <1>3, CloseAfterIs
  <1>6. Carries(c, db, o)
    BY <1>2, <1>3, <1>4, CloseAfterCarries
  <1>7. job'.cmd = job.cmd /\ (job'.own <=> job.own) /\ job'.at # "idle"
    BY <1>1, AdvanceStays
  <1>8. "upgrade" # "enter" /\ "upgrade" # "close"
    OBVIOUS
  <1>9. QED  BY <1>1, <1>5, <1>6, <1>7, <1>8, CarriedKeeps

LEMMA RowKeeps ==
  ASSUME JobKnown, SoundHandle, KeepsInv, WriteRow
  PROVE  KeepsInv'
  <1>1. PICK o \in RowWritten(verified, db, This) :
          /\ db' = o.db /\ Advance(o) /\ Doing("row")
          /\ verified' = IF o.ok THEN verified \cup {This} ELSE verified
    BY Zenon DEF WriteRow, RowWritten, Verified, RowCheck, Writes, Take
  <1> DEFINE c == job.cmd = "import-auto"
  <1>2. db \in HandlesOf(verified)
    BY DEF SoundHandle
  <1>3. o \in Results(verified')
    BY <1>1, <1>2, RowWrittenIs
  <1>4. Carries(c, db, o)
    BY <1>1, <1>2, RowWrittenCarries
  <1>5. job'.cmd = job.cmd /\ (job'.own <=> job.own) /\ job'.at # "idle"
    BY <1>1, AdvanceStays
  <1>6. "row" # "enter" /\ "row" # "close"
    OBVIOUS
  <1>7. QED  BY <1>1, <1>3, <1>4, <1>5, <1>6, CarriedKeeps

LEMMA ReturnKeeps ==
  ASSUME JobKnown, SoundHandle, KeepsInv, Return
  PROVE  KeepsInv'
  <1>1. job' = [job EXCEPT !.at = "returned", !.todo = <<>>] /\ db' = db /\ Doing("return")
    BY DEF Return
  <1>2. /\ job'.cmd = job.cmd /\ job'.own = job.own /\ job'.at = "returned"
        /\ job'.unsure = job.unsure
    BY <1>1 DEF JobKnown
  <1>3. CASE Standard(job.cmd)
    <2>1. job.cmd = "import" /\ job.at = "run"
      BY <1>1, <1>3, StandardDoes DEF StepsOf, Standard
    <2>2. QED  BY <1>1, <1>2, <2>1 DEF KeepsInv, OwnInv, ScriptInv, Targets, Holding
  <1>4. CASE ~Standard(job.cmd)
    BY <1>2, <1>4, OthersKeep
  <1>5. QED  BY <1>3, <1>4

LEMMA FinishedKeeps ==
  ASSUME JobKnown, SoundHandle, KeepsInv, Finished
  PROVE  KeepsInv'
  <1>1. job' = [job EXCEPT !.at = "done"] /\ db' = db
    BY DEF Finished
  <1>2. job'.cmd = job.cmd /\ job'.own = job.own /\ job'.at = "done"
    BY <1>1 DEF JobKnown
  <1>3. QED  BY <1>1, <1>2 DEF KeepsInv, OwnInv, ScriptInv

LEMMA NextKeeps == JobKnown /\ SoundHandle /\ KeepsInv /\ [Next]_vars => KeepsInv'
  <1> SUFFICES ASSUME JobKnown, SoundHandle, KeepsInv, [Next]_vars  PROVE KeepsInv'
    OBVIOUS
  <1>1. ASSUME NEW do \in {"preflight", "migrate", "create", "coupled"}, Doing(do),
               NEW o, Advance(o)
        PROVE  KeepsInv'
    <2>1. job'.cmd = job.cmd /\ (job'.own <=> job.own) /\ job'.at # "idle"
      BY <1>1, AdvanceStays
    <2>2. QED  BY <1>1, <2>1, SetupKeeps
  <1>2. CASE Preflight \/ Migrate \/ Create \/ Coupled
    <2>1. \E do \in {"preflight", "migrate", "create", "coupled"} : Doing(do)
      BY <1>2 DEF Preflight, Migrate, Create, Coupled
    <2>2. \E o : Advance(o)
      BY <1>2, Zenon DEF Preflight, Migrate, Create, Coupled, Do
    <2>3. QED  BY <1>1, <2>1, <2>2
  <1>3. CASE Report
    <2>1. Doing("report") /\ "report" \in {"preflight", "migrate", "create", "coupled", "report"}
      BY <1>3 DEF Report
    <2>2. job'.cmd = job.cmd /\ (job'.own <=> job.own) /\ job'.at # "idle"
      BY <1>3 DEF Report, JobKnown
    <2>3. QED  BY <2>1, <2>2, SetupKeeps
  <1>4. CASE CallerWrites
    BY <1>4, CallerWritesKeeps
  <1>5. CASE Start
    BY <1>5, StartKeeps
  <1>6. CASE BeginImport
    BY <1>6, BeginImportKeeps
  <1>7. CASE Enter
    BY <1>7, EnterKeeps
  <1>8. CASE CheckStandard
    BY <1>8, CheckKeeps
  <1>9. CASE UpgradeStandard
    BY <1>9, UpgradeKeeps
  <1>10. CASE Close
    BY <1>10, CloseKeeps
  <1>11. CASE Ready
    BY <1>11, ReadyKeeps
  <1>12. CASE WriteRow
    BY <1>12, RowKeeps
  <1>13. CASE CommitImport
    BY <1>13, CommitImportKeeps
  <1>14. CASE Return
    BY <1>14, ReturnKeeps
  <1>15. CASE Finished
    BY <1>15, FinishedKeeps
  <1>16. CASE Fail
    BY <1>16, FailKeeps
  <1>17. CASE CallerEnds
    BY <1>17, CallerEndsKeeps
  <1>18. CASE Leave
    <2>1. PICK o \in ContextExit(db, job.at = "raised") : db' = Ended(o.db)
      BY <1>18 DEF Leave
    <2>2. o.db \in HandlesOf(verified) /\ job' = [Idle EXCEPT !.cmd = job.cmd]
      BY <1>18, ContextExitIs, ResultHolds DEF Leave, SoundHandle
    <2> DEFINE k == o.db
    <2> HIDE DEF k
    <2>3. k \in HandlesOf(verified) /\ db' = Ended(k)
      BY <2>1, <2>2 DEF k
    <2>4. QED  BY <2>2, <2>3, LeftKeeps
  <1>19. CASE Crash
    BY <1>19, LeftKeeps DEF Crash, SoundHandle
  <1>20. CASE Reconnect
    BY <1>20, ReconnectKeeps
  <1>21. CASE UNCHANGED vars
    <2>1. db' = db /\ job' = job
      BY <1>21 DEF vars
    <2>2. OwnInv'
      BY <2>1 DEF KeepsInv, OwnInv, Targets, Holding
    <2>3. ScriptInv'
      BY <2>1 DEF KeepsInv, ScriptInv, Snapped
    <2>4. QED  BY <2>2, <2>3 DEF KeepsInv
  <1>22. QED
    BY <1>2, <1>3, <1>4, <1>5, <1>6, <1>7, <1>8, <1>9, <1>10, <1>11, <1>12, <1>13, <1>14,
       <1>15, <1>16, <1>17, <1>18, <1>19, <1>20, <1>21, Zenon DEF Next

LEMMA InitKeeps == Init => JobKnown /\ KeepsInv
  <1> SUFFICES ASSUME Init  PROVE JobKnown /\ KeepsInv
    OBVIOUS
  <1>1. PICK c \in Cases : db = Situation(c) /\ job = [Idle EXCEPT !.cmd = c.cmd]
    BY DEF Init
  <1>2. Quiet(db)
    BY <1>1, SituationQuiet
  <1>3. job.at = "idle" /\ ~job.own /\ JobKnown
    BY <1>1 DEF Idle, JobKnown
  <1>4. QED  BY <1>2, <1>3 DEF KeepsInv, OwnInv, ScriptInv, Quiet

\* What a caller wrote before an import stays in its transaction while the
\* import prepares its tables and writes its rows, on both databases, whatever
\* commands ran before and whatever failed (begin_transaction,
\* _snapshot_validation_transactions, rollback_failed_import).
THEOREM CallerInvariant == Spec => []KeepsInv
  <1>1. Init => SoundHandle /\ JobKnown /\ KeepsInv
    BY InitIsSound, InitKeeps
  <1>2. SoundHandle /\ JobKnown /\ KeepsInv /\ [Next]_vars => (SoundHandle /\ JobKnown /\ KeepsInv)'
    BY NextIsSound, JobStays, NextKeeps
  <1>3. QED  BY <1>1, <1>2, PTL DEF Spec

\* The standard preparation neither commits nor loses the row its caller wrote,
\* leaves no transaction that it opened itself, and an import that raises leaves
\* nothing of its caller's (_prepare_jravan_tables, import_records).
THEOREM CallerIsKept == Spec => []CallerKeepsTransaction
  <1>1. KeepsInv => CallerKeepsTransaction
    <2> SUFFICES ASSUME KeepsInv  PROVE CallerKeepsTransaction
      OBVIOUS
    <2>1. ASSUME job.own, job.at \in {"run", "returned"}, ~job.unsure, NEW b \in OpenTargets(db)
          PROVE  b.seen.own /\ ~b.store.own
      BY <2>1 DEF KeepsInv, OwnInv, OpenTargets, Targets, Holding, OwnHeld
    <2>2. ASSUME job.own, job.at = "raised", NEW b \in Targets(db)
          PROVE  ~b.store.own
      BY <2>2 DEF KeepsInv, OwnInv
    <2>3. ASSUME job.cmd = "import-auto", job.at = "run", job.todo # <<>>, Head(job.todo).do = "ready"
          PROVE  ~Pending(db)
      BY <2>3 DEF KeepsInv, ScriptInv, Standard
    <2>4. QED  BY <2>1, <2>2, <2>3 DEF CallerKeepsTransaction
  <1>2. QED  BY CallerInvariant, <1>1, PTL

-----------------------------------------------------------------------------
(***************************************************************************)
(* The importer's memory that its tables are ready: an import that commits *)
(* for itself leaves no column waiting for a commit, and what it verified  *)
(* stays verified.                                                         *)
(***************************************************************************)

\* Tables get finer and finer, and what a verification admits it admits on.
LEMMA FinerOn ==
  ASSUME NEW a, NEW b, NEW c, Finer(a, b), Finer(b, c)
  PROVE  Finer(a, c)
  BY DEF Finer

LEMMA FinerFits ==
  ASSUME NEW a, NEW b, Finer(a, b), NEW x, NEW y, verify_table_schema(a, x, y)
  PROVE  verify_table_schema(b, x, y)
  BY DEF Finer, verify_table_schema, Has

\* The tables of a session, durable or not, are as fine as those of f.
Within(f, b) == \A t \in Tables : Finer(f[t], b.seen.cat[t]) /\ Finer(f[t], b.store.cat[t])
Held(f, b) == Within(f, b) /\ Even(b)

\* The rows of the session c are rows that b had, and it is not newly open.
Moved(b, c) ==
    /\ c.store = b.store \/ c.store = b.seen
    /\ c.seen = b.store \/ c.seen = b.seen
    /\ c.open => b.open

LEMMA MovedOn ==
  ASSUME NEW a, NEW b, NEW c, Moved(a, b), Moved(b, c)
  PROVE  Moved(a, c)
  BY DEF Moved

LEMMA MovedHolds ==
  ASSUME NEW f, NEW b, NEW c, Moved(b, c), Held(f, b)
  PROVE  Held(f, c)
  <1>1. \A t \in Tables : Finer(b.seen.cat[t], b.seen.cat[t]) /\ Finer(b.store.cat[t], b.store.cat[t])
    BY DEF Finer
  <1>2. Within(f, c)
    BY DEF Moved, Held, Within
  <1>3. Even(c)
    BY <1>1 DEF Moved, Held, Even
  <1>4. QED  BY <1>2, <1>3 DEF Held

LEMMA DerivedMoves ==
  ASSUME NEW b, NEW c, Derived(b, c)
  PROVE  Moved(b, c)
  BY DEF Derived, Moved

\* A rollback.
LEMMA RollbackMoves ==
  ASSUME NEW b \in SessionShapes, NEW o \in rollback(b)
  PROVE  Moved(b, o.db) /\ (Well(b) /\ o.faults = 0 => o.ok /\ Well(o.db))
  <1> DEFINE f == Fresh(b)
             g == Gone(b)
             c == Closed(b)
             r == [Fresh(b) EXCEPT !.broken = FALSE]
  <1>1. /\ Derived(b, f) /\ f.open = b.open /\ f.broken = b.broken /\ ~f.failed
    BY FreshIs, FreshSpares
  <1>2. Derived(b, g) /\ Derived(b, c) /\ Derived(b, r) /\ Moved(b, b)
    BY GoneIs, ClosedIs, RebuiltIs DEF Moved
  <1>3. r.open = b.open /\ ~r.broken /\ ~r.failed
    BY RebuiltIs, RebuiltSpares
  <1> HIDE DEF f, g, c, r
  <1>4. Moved(b, f) /\ Moved(b, g) /\ Moved(b, c) /\ Moved(b, r) /\ Moved(b, b)
    BY <1>1, <1>2, DerivedMoves
  <1>5. o \in {Err(b, 0), Err(b, 1), Ok(f, 0), Err(g, 1), Ok(b, 0), Ok(r, 0), Err(c, 1)}
    BY Zenon DEF rollback, postgresql_rollback, sqlite_rollback, _reconnect, f, g, c, r
  <1>6. o = Err(b, 0) => ~Well(b)
    <2>1. Err(b, 0) # Ok(f, 0) /\ Err(b, 0) # Err(b, 1) /\ Err(b, 0) # Err(g, 1) /\ Err(b, 0) # Ok(b, 0)
          /\ Err(b, 0) # Ok(r, 0) /\ Err(b, 0) # Err(c, 1)
      BY DEF Err, Ok
    <2>2. QED
      BY <2>1, Zenon DEF rollback, postgresql_rollback, sqlite_rollback, _reconnect, Well, f, g, c, r
  <1>7. QED  BY <1>1, <1>3, <1>4, <1>5, <1>6 DEF Ok, Err, Well

\* What a server's handler does after a failure.
LEMMA UndoMoves ==
  ASSUME NEW x \in SessionShapes, IsServer(x),
         NEW p \in (IF x.active THEN {Ok(x, 0)} ELSE postgresql_rollback(x))
  PROVE  Moved(x, p.db) /\ p.faults \in Nat
  <1>1. CASE p = Ok(x, 0)
    BY <1>1 DEF Ok, Moved
  <1>2. CASE p \in rollback(x)
    BY <1>2, RollbackMoves, RollbackSpares
  <1>3. QED  BY <1>1, <1>2 DEF rollback

\* An error, raised after something was undone.
LEMMA ErrorMoves ==
  ASSUME NEW b, NEW x, Moved(b, x), NEW p, Moved(x, p.db), p.faults \in Nat, NEW n \in Nat,
         NEW o, o = Err(p.db, n + p.faults)
  PROVE  Moved(b, o.db) /\ ~o.ok /\ (n > 0 => o.faults # 0)
  BY MovedOn DEF Err

\* A read.
LEMMA FetchMoves ==
  ASSUME NEW b \in SessionShapes, NEW o \in fetch(b)
  PROVE  Moved(b, o.db) /\ (Well(b) /\ o.faults = 0 => o.ok /\ Well(o.db))
  <1> DEFINE Undo(x) == IF x.active THEN {Ok(x, 0)} ELSE postgresql_rollback(x)
             e == b.dirty \/ b.driver = "psycopg"
             y == [b EXCEPT !.dirty = e]
             f == b.active \/ b.driver = "psycopg"
             r == [b EXCEPT !.failed = f]
             g == Gone(b)
  <1>2. e \in BOOLEAN /\ f \in BOOLEAN /\ (b.dirty => e)
    BY DEF SessionShapes
  <1> HIDE DEF e, f
  <1>3. Moved(b, y) /\ y.open = b.open /\ y.broken = b.broken /\ y.failed = b.failed
    <2>1. Derived(b, y) /\ y.open = b.open
      BY <1>2, ReadIs, Zenon
    <2>2. y.broken = b.broken /\ y.failed = b.failed
      BY Zenon DEF SessionShapes
    <2> HIDE DEF y
    <2>3. QED  BY <2>1, <2>2, DerivedMoves
  <1>4. Moved(b, r) /\ r \in SessionShapes /\ r.driver = b.driver
    <2>1. Derived(b, r) /\ r \in SessionShapes /\ r.driver = b.driver
      BY <1>2, FailedIs, FailedSpares, Zenon
    <2> HIDE DEF r
    <2>2. QED  BY <2>1, DerivedMoves
  <1>5. Moved(b, g) /\ g \in SessionShapes /\ g.driver = b.driver
    <2>1. Derived(b, g)
      BY GoneIs, Zenon
    <2> HIDE DEF g
    <2>2. QED  BY <2>1, DerivedMoves DEF Derived
  <1> HIDE DEF y, r, g, Undo
  <1>6. Moved(b, b)
    BY DEF Moved
  <1>7. CASE o = Ok(y, 0)
    BY <1>3, <1>7 DEF Ok, Well
  <1>8. CASE o = Ok(b, 0)
    BY <1>6, <1>8 DEF Ok, Well
  <1>10. ASSUME NEW x \in SessionShapes, Moved(b, x), IsServer(x), NEW n \in Nat,
                NEW p \in Undo(x), o = Err(p.db, n + p.faults)
         PROVE  Moved(b, o.db) /\ (n > 0 => o.faults # 0)
    <2>1. Moved(x, p.db) /\ p.faults \in Nat
      BY <1>10, UndoMoves DEF Undo
    <2>2. QED  BY <1>10, <2>1, ErrorMoves
  <1>11. CASE ~b.open
    <2>1. o = Err(b, 0)
      BY <1>11 DEF fetch
    <2>2. QED  BY <1>6, <1>11, <2>1 DEF Err, Well
  <1>12. CASE b.open /\ ~IsServer(b)
    <2>1. o \in {Ok(b, 0)} \cup Handling({Err(b, 1)}, sqlite_rollback)
      BY <1>12, Zenon DEF fetch
    <2>2. CASE o \in Handling({Err(b, 1)}, sqlite_rollback)
      <3>1. Err(b, 1).ok = FALSE /\ Err(b, 1).db = b /\ Err(b, 1).faults = 1
        BY DEF Err
      <3>2. PICK p \in sqlite_rollback(b) : o = Err(p.db, 1 + p.faults)
        BY <2>2, <3>1, Zenon DEF Handling
      <3>3. Moved(b, p.db) /\ p.faults \in Nat
        BY <1>12, RollbackMoves, RollbackSpares DEF rollback
      <3>4. QED  BY <1>6, <3>2, <3>3, ErrorMoves
    <2>3. QED  BY <1>8, <2>1, <2>2
  <1>13. CASE b.open /\ IsServer(b) /\ (b.broken \/ b.failed)
    <2>1. o \in Handling({Err(b, 0)}, Undo)
      BY <1>13, Zenon DEF fetch, Undo
    <2>2. Err(b, 0).ok = FALSE /\ Err(b, 0).db = b /\ Err(b, 0).faults = 0
      BY DEF Err
    <2>3. PICK p \in Undo(b) : o = Err(p.db, 0 + p.faults)
      BY <2>1, <2>2, Zenon DEF Handling
    <2>4. QED  BY <1>6, <1>10, <1>13, <2>3 DEF Well
  <1>14. CASE b.open /\ IsServer(b) /\ ~(b.broken \/ b.failed)
    <2>1. o \in {Ok(y, 0)} \cup Handling({Err(r, 1), Err(g, 1)}, Undo)
      BY <1>14, Zenon DEF fetch, Undo, y, r, g, e, f
    <2>2. CASE o \in Handling({Err(r, 1), Err(g, 1)}, Undo)
      <3>1. /\ Err(r, 1).ok = FALSE /\ Err(r, 1).db = r /\ Err(r, 1).faults = 1
            /\ Err(g, 1).ok = FALSE /\ Err(g, 1).db = g /\ Err(g, 1).faults = 1
        BY DEF Err
      <3>2. PICK k \in {Err(r, 1), Err(g, 1)} :
              o \in IF k.ok THEN {k} ELSE {Err(p.db, k.faults + p.faults) : p \in Undo(k.db)}
        BY <2>2, Zenon DEF Handling
      <3> DEFINE x == k.db
      <3>3. x \in {r, g} /\ k.ok = FALSE /\ k.faults = 1
        BY <3>1, <3>2, Zenon
      <3>4. PICK p \in Undo(x) : o = Err(p.db, 1 + p.faults)
        BY <3>2, <3>3, Zenon
      <3> HIDE DEF x
      <3>5. x \in SessionShapes /\ Moved(b, x) /\ IsServer(x)
        BY <1>4, <1>5, <1>14, <3>3 DEF IsServer
      <3>6. QED  BY <1>10, <3>4, <3>5
    <2>3. QED  BY <1>7, <2>1, <2>2
  <1>15. QED  BY <1>11, <1>12, <1>13, <1>14

\* A commit: what it makes durable was seen, and of the columns that waited none
\* is left, but with pg8000 outside a transaction, where none ever waits.
LEMMA CommitMoves ==
  ASSUME NEW V, NEW b \in SafeSessions(V), NEW o \in commit(b)
  PROVE  /\ Moved(b, o.db)
         /\ o.ok => o.db.seen = o.db.store \/ (b.driver = "pg8000" /\ ~b.active /\ o.db = b)
         /\ Well(b) /\ o.ok => Well(o.db)
  <1> DEFINE f == Fresh(b)
             g == Gone(b)
             c == [b EXCEPT !.store = b.seen]
             k == Fresh(c)
             l == b.lost \/ b.store # b.seen
             u == [b EXCEPT !.store = b.seen, !.lost = l]
             v == Gone(u)
  <1>1. b \in SessionShapes /\ l \in BOOLEAN
    BY DEF SafeSessions, SessionShapes
  <1>2. /\ Derived(b, f) /\ Derived(b, g) /\ f.open = b.open /\ f.broken = b.broken /\ ~f.failed
        /\ f.seen = b.store
    BY <1>1, FreshIs, FreshSpares, GoneIs
  <1>3. Derived(b, c) /\ c.open = b.open /\ c.broken = b.broken
    <2>1. Derived(b, c) /\ c.open = b.open
      BY <1>1, SavedIs
    <2>2. c.broken = b.broken
      BY <1>1, Zenon DEF SessionShapes
    <2>3. QED  BY <2>1, <2>2
  <1> HIDE DEF c
  <1>4. /\ Derived(c, k) /\ k.open = c.open /\ k.broken = c.broken /\ ~k.failed
        /\ k.seen = c.store
    BY <1>3, FreshIs, FreshSpares DEF Derived
  <1>5. /\ Committed(b) = IF b.failed THEN f ELSE k
        /\ Unanswered(b) = {Err(g, 1), Err(v, 1)}
    BY Zenon DEF Committed, Unanswered, c
  <1> HIDE DEF l
  <1>6. Derived(b, u)
    BY <1>1, LostIs
  <1>7. Derived(u, v)
    BY <1>6, GoneIs DEF Derived
  <1>8. k.store = c.store /\ f.store = b.store
    BY <1>1, <1>3, Zenon DEF SessionShapes, Fresh, Derived
  <1> HIDE DEF f, g, k, u, v
  <1>9. Moved(b, b) /\ Moved(b, f) /\ Moved(b, g) /\ Moved(b, k) /\ Moved(b, v)
    <2>1. Moved(b, b)
      BY DEF Moved
    <2>2. Moved(b, f) /\ Moved(b, g) /\ Moved(b, c) /\ Moved(c, k) /\ Moved(b, u) /\ Moved(u, v)
      BY <1>2, <1>3, <1>4, <1>6, <1>7, DerivedMoves
    <2>3. QED  BY <2>1, <2>2, MovedOn
  <1>10. \/ o = Err(b, 0) \/ o = Err(b, 1) \/ o \in Unanswered(b)
         \/ o = Ok(Committed(b), 0)
         \/ o = Ok(b, 0) /\ b.driver = "pg8000" /\ ~b.active
    <2>1. CASE ~b.open \/ b.broken
      <3>1. o \in {Err(b, 0)}
        BY <2>1, Zenon DEF commit
      <3>2. QED  BY <3>1
    <2>2. CASE b.open /\ ~b.broken
      <3>1. b.driver \in {"sqlite", "psycopg", "pg8000"}
        BY <1>1 DEF SessionShapes, Drivers
      <3> DEFINE Of(d) == CASE d = "sqlite"  -> {Ok(Committed(b), 0), Err(b, 1)}
                            [] d = "psycopg" -> {Ok(Committed(b), 0)} \cup Unanswered(b)
                            [] OTHER -> IF ~b.active THEN {Ok(b, 0)}
                                        ELSE IF b.failed THEN {Err(b, 0)}
                                        ELSE {Ok(Committed(b), 0)} \cup Unanswered(b)
      <3>2. o \in Of(b.driver)
        BY <2>2, Zenon DEF commit
      <3>3. CASE b.driver = "sqlite"
        <4>1. Of("sqlite") = {Ok(Committed(b), 0), Err(b, 1)}
          OBVIOUS
        <4>2. QED  BY <3>2, <3>3, <4>1, Zenon
      <3>4. CASE b.driver = "psycopg"
        <4>1. Of("psycopg") = {Ok(Committed(b), 0)} \cup Unanswered(b)
          OBVIOUS
        <4>2. QED  BY <3>2, <3>4, <4>1, Zenon
      <3>5. CASE b.driver = "pg8000"
        <4>1. Of("pg8000") = IF ~b.active THEN {Ok(b, 0)}
                             ELSE IF b.failed THEN {Err(b, 0)}
                             ELSE {Ok(Committed(b), 0)} \cup Unanswered(b)
          OBVIOUS
        <4>2. QED  BY <3>2, <3>5, <4>1, Zenon
      <3>6. QED  BY <3>1, <3>3, <3>4, <3>5
    <2>3. QED  BY <2>1, <2>2
  <1>11. CASE o = Ok(Committed(b), 0)
    <2>1. PICK x \in {f, k} : o = Ok(x, 0)
      BY <1>5, <1>11
    <2>2. o.db = x
      BY <2>1 DEF Ok
    <2>3. x.seen = x.store /\ x.open = b.open /\ x.broken = b.broken /\ ~x.failed
      BY <1>2, <1>3, <1>4, <1>8, <2>1
    <2>4. QED  BY <1>9, <2>1, <2>2, <2>3 DEF Well
  <1>12. CASE o = Ok(b, 0) /\ b.driver = "pg8000" /\ ~b.active
    BY <1>9, <1>12 DEF Ok
  <1>13. CASE o = Err(b, 0) \/ o = Err(b, 1) \/ o \in Unanswered(b)
    BY <1>5, <1>9, <1>13 DEF Err
  <1>14. QED  BY <1>10, <1>11, <1>12, <1>13

\* What a call opened is undone, or the session dropped.
LEMMA RecoverMoves ==
  ASSUME NEW b \in SessionShapes, NEW o \in Recovers(b)
  PROVE  /\ Moved(b, o.db)
         /\ Well(b) /\ o.ok /\ o.faults = 0 => Well(o.db)
  <1>1. PICK e \in rollback(b) :
          \/ e.ok /\ o = e
          \/ ~e.ok /\ \E d \in disconnect(e.db) : o = [d EXCEPT !.faults = @ + e.faults]
    BY Zenon DEF Recovers
  <1>2. /\ Moved(b, e.db) /\ e.db \in SessionShapes /\ e.faults \in Nat
        /\ Well(b) /\ e.faults = 0 => e.ok /\ Well(e.db)
    BY RollbackMoves, RollbackSpares
  <1>3. CASE ~e.ok /\ \E d \in disconnect(e.db) : o = [d EXCEPT !.faults = @ + e.faults]
    <2>1. PICK d \in disconnect(e.db) : o = [d EXCEPT !.faults = @ + e.faults]
      BY <1>3
    <2> DEFINE c == Closed(e.db)
    <2>2. Derived(e.db, c)
      BY <1>2, ClosedIs
    <2>3. d = Ok(c, 0) \/ d = Err(e.db, 1)
      BY <2>1, Zenon DEF disconnect
    <2> HIDE DEF c
    <2>4. Moved(e.db, c) /\ Moved(e.db, e.db)
      BY <2>2, DerivedMoves DEF Moved
    <2>5. d \in [db : {c, e.db}, ok : BOOLEAN, faults : Nat] /\ Moved(e.db, d.db)
      <3>1. CASE d = Ok(c, 0)
        BY <2>4, <3>1 DEF Ok
      <3>2. CASE d = Err(e.db, 1)
        BY <2>4, <3>2 DEF Err
      <3>3. QED  BY <2>3, <3>1, <3>2
    <2>6. o.db = d.db /\ o.faults = d.faults + e.faults /\ d.faults \in Nat
      BY <2>1, <2>5
    <2>7. Well(b) => o.faults # 0
      BY <1>2, <1>3, <2>6
    <2>8. QED  BY <1>2, <2>5, <2>6, <2>7, MovedOn
  <1>4. QED  BY <1>1, <1>2, <1>3

LEMMA ClosesMoves ==
  ASSUME NEW b \in SessionShapes, NEW was, NEW o \in Closes(was, b)
  PROVE  /\ Moved(b, o.db)
         /\ Well(b) /\ o.ok /\ o.faults = 0 => Well(o.db)
  <1>1. CASE o \in Recovers(b)
    BY <1>1, RecoverMoves
  <1>2. CASE o = Ok(b, 0)
    BY <1>2 DEF Ok, Moved
  <1>3. QED  BY <1>1, <1>2 DEF Closes

\* A column makes a table finer; a row leaves it as it is.
LEMMA PutFiner ==
  ASSUME NEW driver, NEW R \in Rows, NEW s, s.do \in {"add", "row"},
         NEW N, N = Put(driver, R, s), NEW t \in Tables
  PROVE  Finer(R.cat[t], N.cat[t]) /\ (s.do = "row" => Finer(N.cat[t], R.cat[t]))
  <1>1. R.cat \in [Tables -> TableStates] /\ R.cat[t] \in TableStates
    BY DEF Rows
  <1>2. Finer(R.cat[t], R.cat[t])
    BY DEF Finer
  <1>3. CASE s.do = "add"
    <2> DEFINE c == [R.cat[s.table] EXCEPT !.flaws = @ \ {s.column}]
    <2>1. N = [R EXCEPT !.cat = [R.cat EXCEPT ![s.table] = c]]
      BY <1>3, Zenon DEF Put
    <2>2. N.cat = [R.cat EXCEPT ![s.table] = c]
      BY <2>1, Zenon DEF Rows
    <2>3. CASE t = s.table
      <3>1. N.cat[t] = [R.cat[t] EXCEPT !.flaws = @ \ {s.column}]
        BY <1>1, <2>2, <2>3
      <3>2. QED  BY <1>1, <1>3, <3>1 DEF Finer, TableStates
    <2>4. CASE t # s.table
      <3> HIDE DEF c
      <3>1. N.cat[t] = R.cat[t]
        BY <1>1, <2>2, <2>4
      <3>2. QED  BY <1>2, <1>3, <3>1
    <2>5. QED  BY <2>3, <2>4
  <1>4. CASE s.do = "row"
    <2> DEFINE c == [R.cat[s.table] EXCEPT !.rows = TRUE]
               r == RowIn(driver, R.cat[s.table])
    <2>1. N = [R EXCEPT !.row = [R.row EXCEPT ![s.table] = r],
                        !.cat = [R.cat EXCEPT ![s.table] = c]]
      BY <1>4, Zenon DEF Put
    <2>2. N.cat = [R.cat EXCEPT ![s.table] = c]
      BY <2>1, Zenon DEF Rows
    <2>3. CASE t = s.table
      <3>1. N.cat[t] = [R.cat[t] EXCEPT !.rows = TRUE]
        BY <1>1, <2>2, <2>3
      <3>2. QED  BY <1>1, <3>1 DEF Finer, TableStates
    <2>4. CASE t # s.table
      <3> HIDE DEF c, r
      <3>1. N.cat[t] = R.cat[t]
        BY <1>1, <2>2, <2>4
      <3>2. QED  BY <1>2, <3>1
    <2>5. QED  BY <2>3, <2>4
  <1>5. QED  BY <1>3, <1>4

\* A statement, whatever became of it: it took effect, or not, and something was
\* undone.
LEMMA ExecuteMoves ==
  ASSUME NEW V, NEW b \in SafeSessions(V), NEW s, Fits(s, V), NEW o \in execute(b, s)
  PROVE  /\ Moved(b, o.db) \/ (b.open /\ Moved(Done(b, s), o.db))
         /\ o.ok => o = Ok(Done(b, s), 0) /\ b.open
  <1> DEFINE d == Done(b, s)
             Undo(x) == IF x.active THEN {Ok(x, 0)} ELSE postgresql_rollback(x)
             f == b.active \/ b.driver = "psycopg"
             r == [b EXCEPT !.failed = f]
             g == Gone(b)
             l == d.lost \/ d.store # b.store
             u == [d EXCEPT !.lost = l]
             v == Gone(u)
             Is(e) == Moved(b, e) \/ (b.open /\ Moved(d, e))
  <1>2. b \in SessionShapes /\ (b.open => d \in SessionShapes)
    BY DoneIs DEF SafeSessions
  <1>3. f \in BOOLEAN /\ (b.open => l \in BOOLEAN)
    BY <1>2 DEF SessionShapes
  <1> HIDE DEF d, f, l
  <1>4. Derived(b, r) /\ r.driver = b.driver
    BY <1>2, <1>3, FailedIs, Zenon DEF Derived
  <1>5. Derived(b, g) /\ g.driver = b.driver
    BY <1>2, GoneIs, Zenon DEF Derived
  <1>6. b.open => d.driver = b.driver
    BY Zenon DEF d, Done, SafeSessions, SessionShapes
  <1>7. b.open => Derived(d, u) /\ u \in SessionShapes
    BY <1>2, <1>3, Zenon DEF Derived, SessionShapes
  <1>8. b.open => Derived(u, v) /\ v.driver = b.driver
    BY <1>6, <1>7, GoneIs, Zenon DEF Derived
  <1> HIDE DEF r, g, u, v
  <1>9. /\ r \in SessionShapes /\ g \in SessionShapes /\ (b.open => v \in SessionShapes)
        /\ Is(b) /\ Is(r) /\ Is(g) /\ (b.open => Is(v))
    <2>1. r \in SessionShapes /\ g \in SessionShapes /\ (b.open => v \in SessionShapes)
      BY <1>4, <1>5, <1>8 DEF Derived
    <2>2. Moved(b, b) /\ Moved(b, r) /\ Moved(b, g)
      BY <1>4, <1>5, DerivedMoves DEF Moved
    <2>3. b.open => Moved(d, v)
      BY <1>7, <1>8, DerivedMoves, MovedOn
    <2>4. QED  BY <2>1, <2>2, <2>3
  <1>10. CASE o = Ok(d, 0) /\ b.open
    <2>1. o.db = d /\ Moved(d, d)
      BY <1>10 DEF Ok, Moved
    <2>2. QED  BY <1>10, <2>1 DEF d
  <1>11. CASE o = Err(b, 0)
    BY <1>9, <1>11 DEF Err, d
  <1>15. ASSUME NEW x \in SessionShapes, Is(x), NEW p, Moved(x, p.db), NEW n, o = Err(p.db, n)
         PROVE  Is(o.db) /\ ~o.ok
    BY <1>15, MovedOn DEF Err
  <1>12. CASE b.driver = "sqlite"
    <2>1. execute(b, s) = sqlite_execute(b, s) /\ ~IsServer(b)
      BY <1>12 DEF execute, IsServer
    <2>2. CASE ~b.open
      BY <1>11, <2>1, <2>2 DEF sqlite_execute
    <2>3. CASE b.open
      <3>1. o \in {Ok(d, 0)} \cup Handling({Err(b, 1)}, sqlite_rollback)
        BY <2>1, <2>3, Zenon DEF sqlite_execute, d
      <3>2. CASE o \in Handling({Err(b, 1)}, sqlite_rollback)
        <4>1. Err(b, 1).ok = FALSE /\ Err(b, 1).db = b /\ Err(b, 1).faults = 1
          BY DEF Err
        <4>2. PICK p \in sqlite_rollback(b) : o = Err(p.db, 1 + p.faults)
          BY <3>2, <4>1, Zenon DEF Handling
        <4>3. Moved(b, p.db)
          BY <1>2, <2>1, RollbackMoves DEF rollback
        <4>4. Is(o.db) /\ ~o.ok
          BY <1>2, <1>9, <1>15, <4>2, <4>3
        <4>5. QED  BY <4>4 DEF d
      <3>3. QED  BY <1>10, <2>3, <3>1, <3>2
    <2>4. QED  BY <2>2, <2>3
  <1>13. CASE b.driver # "sqlite"
    <2>1. execute(b, s) = postgresql_execute(b, s) /\ IsServer(b)
      BY <1>13 DEF execute, IsServer
    <2> HIDE DEF Undo
    <2>5. ASSUME NEW x \in SessionShapes, Is(x), x.driver = b.driver, NEW n \in Nat,
                 NEW p \in Undo(x), o = Err(p.db, n + p.faults)
          PROVE  Is(o.db) /\ ~o.ok
      <3>1. IsServer(x)
        BY <1>13, <2>5 DEF IsServer
      <3>2. Moved(x, p.db)
        BY <2>5, <3>1, UndoMoves DEF Undo
      <3>3. QED  BY <1>15, <2>5, <3>2
    <2>2. CASE ~b.open
      BY <1>11, <2>1, <2>2, Zenon DEF postgresql_execute
    <2>3. CASE b.open /\ (b.broken \/ b.failed)
      <3>1. o \in Handling({Err(b, 0)}, Undo)
        BY <2>1, <2>3, Zenon DEF postgresql_execute, Undo
      <3>2. Err(b, 0).ok = FALSE /\ Err(b, 0).db = b /\ Err(b, 0).faults = 0
        BY DEF Err
      <3>3. PICK p \in Undo(b) : o = Err(p.db, 0 + p.faults)
        BY <3>1, <3>2, Zenon DEF Handling
      <3>4. Is(o.db) /\ ~o.ok
        BY <1>2, <1>9, <2>5, <3>3
      <3>5. QED  BY <3>4 DEF d
    <2>4. CASE b.open /\ ~(b.broken \/ b.failed)
      <3>1. o \in {Ok(d, 0)} \cup Handling({Err(r, 1), Err(g, 1), Err(v, 1)}, Undo)
        BY <2>1, <2>4, Zenon DEF postgresql_execute, d, f, l, r, g, u, v, Undo
      <3>2. CASE o \in Handling({Err(r, 1), Err(g, 1), Err(v, 1)}, Undo)
        <4>1. /\ Err(r, 1).ok = FALSE /\ Err(r, 1).db = r /\ Err(r, 1).faults = 1
              /\ Err(g, 1).ok = FALSE /\ Err(g, 1).db = g /\ Err(g, 1).faults = 1
              /\ Err(v, 1).ok = FALSE /\ Err(v, 1).db = v /\ Err(v, 1).faults = 1
          BY DEF Err
        <4>2. PICK e \in {Err(r, 1), Err(g, 1), Err(v, 1)} :
                o \in IF e.ok THEN {e} ELSE {Err(p.db, e.faults + p.faults) : p \in Undo(e.db)}
          BY <3>2, Zenon DEF Handling
        <4> DEFINE x == e.db
        <4>3. x \in {r, g, v} /\ e.ok = FALSE /\ e.faults = 1
          BY <4>1, <4>2, Zenon
        <4>4. PICK p \in Undo(x) : o = Err(p.db, 1 + p.faults)
          BY <4>2, <4>3, Zenon
        <4> HIDE DEF x, Is
        <4>5. x \in SessionShapes /\ Is(x) /\ x.driver = b.driver
          BY <1>4, <1>5, <1>8, <1>9, <2>4, <4>3
        <4>6. Is(o.db) /\ ~o.ok
          BY <2>5, <4>4, <4>5
        <4>7. QED  BY <4>6 DEF Is, d
      <3>3. QED  BY <1>10, <2>4, <3>1, <3>2
    <2>6. QED  BY <2>2, <2>3, <2>4
  <1>14. QED  BY <1>12, <1>13

\* A statement that took effect: what it did, and what else is as it was.
Does(f, V, b, s, d) ==
    /\ d \in SafeSessions(V) /\ d.driver = b.driver /\ d.active = b.active /\ d.open = b.open
    /\ d.broken = b.broken /\ d.failed = b.failed
    /\ Within(f, b) => Within(f, d)
    /\ b.driver = "pg8000" /\ ~b.active => d.seen = d.store
    /\ s.do = "row" /\ Even(b) => Even(d)

LEMMA DoneFiner ==
  ASSUME NEW V, NEW b \in SafeSessions(V), b.open, NEW s, s.do \in {"add", "row"}, Fits(s, V),
         NEW f
  PROVE  Does(f, V, b, s, Done(b, s))
  <1> DEFINE d == Done(b, s)
             N == Put(b.driver, b.seen, s)
             x == [b EXCEPT !.seen = N, !.store = N]
             y == [b EXCEPT !.seen = N, !.dirty = TRUE]
  <1>1. b \in SessionShapes /\ b.seen \in Rows /\ d \in SafeSessions(V)
    BY DoneIs DEF SafeSessions, SessionShapes
  <1>2. \A t \in Tables : /\ Finer(b.seen.cat[t], N.cat[t])
                          /\ s.do = "row" => Finer(N.cat[t], b.seen.cat[t])
    BY <1>1, PutFiner
  <1>3. \/ d = x
        \/ d = y /\ ~(b.driver = "pg8000" /\ ~b.active)
    BY Zenon DEF Done
  <1>4. \A t \in Tables : Finer(N.cat[t], N.cat[t])
    BY DEF Finer
  <1> HIDE DEF d, N
  <1>5. Within(f, b) => \A t \in Tables : Finer(f[t], N.cat[t]) /\ Finer(f[t], b.store.cat[t])
    BY <1>2, FinerOn DEF Within
  <1>6. s.do = "row" /\ Even(b) =>
          \A t \in Tables : Finer(N.cat[t], b.store.cat[t]) /\ Finer(b.store.cat[t], N.cat[t])
    BY <1>2, FinerOn DEF Even
  <1>7. d = x => Does(f, V, b, s, d)
    <2>1. /\ x.driver = b.driver /\ x.active = b.active /\ x.open = b.open /\ x.broken = b.broken
          /\ x.failed = b.failed /\ x.seen = N /\ x.store = N
      BY <1>1, Zenon DEF SessionShapes
    <2> HIDE DEF x
    <2>2. QED  BY <1>1, <1>4, <1>5, <2>1 DEF Within, Even, Does
  <1>8. d = y /\ ~(b.driver = "pg8000" /\ ~b.active) => Does(f, V, b, s, d)
    <2>1. /\ y.driver = b.driver /\ y.active = b.active /\ y.open = b.open /\ y.broken = b.broken
          /\ y.failed = b.failed /\ y.seen = N /\ y.store = b.store
      BY <1>1, Zenon DEF SessionShapes
    <2> HIDE DEF x, y
    <2>2. QED  BY <1>1, <1>5, <1>6, <2>1 DEF Within, Even, Does
  <1>9. Does(f, V, b, s, d)
    BY <1>3, <1>7, <1>8
  <1>10. QED  BY <1>9 DEF d

\* A call that a session b came out of as c, no column added: the call leaves as
\* fine a table as there was, and none that waits.
Steady(f, b, c) == (Held(f, b) => Held(f, c)) /\ (c.open => b.open)

LEMMA MovedSteady ==
  ASSUME NEW f, NEW b, NEW c, Moved(b, c)
  PROVE  Steady(f, b, c)
  BY MovedHolds DEF Steady, Moved

LEMMA SteadyOn ==
  ASSUME NEW f, NEW a, NEW b, NEW c, Steady(f, a, b), Steady(f, b, c)
  PROVE  Steady(f, a, c)
  BY DEF Steady

\* A row, written, refused by its table or lost.
LEMMA UpsertSteady ==
  ASSUME NEW V, NEW b \in SafeSessions(V), NEW t \in V, NEW o \in upsert(b, t), NEW f
  PROVE  Steady(f, b, o.db)
  <1> DEFINE s == [do |-> "row", table |-> t]
             Undo(x) == IF IsServer(x) /\ x.active THEN {Ok(x, 0)} ELSE rollback(x)
             e == IsServer(b)
             r == [b EXCEPT !.failed = e]
  <1>1. CASE o \in execute(b, s)
    <2>1. Fits(s, V) /\ s.do \in {"add", "row"} /\ s.do = "row"
      BY DEF Fits
    <2> HIDE DEF s
    <2>2. CASE Moved(b, o.db)
      BY <2>2, MovedSteady
    <2>3. CASE b.open /\ Moved(Done(b, s), o.db)
      <3> DEFINE d == Done(b, s)
      <3>1. Does(f, V, b, s, d)
        BY <2>1, <2>3, DoneFiner
      <3> HIDE DEF d
      <3>2. Steady(f, b, d)
        BY <2>1, <3>1 DEF Steady, Held, Does
      <3>3. QED  BY <2>3, <3>2, MovedSteady, SteadyOn DEF d
    <2>4. QED  BY <1>1, <2>1, <2>2, <2>3, ExecuteMoves
  <1> HIDE DEF s, Undo
  <1>2. CASE o \in Handling({Err(r, 0)}, Undo)
    <2>1. b \in SessionShapes /\ e \in BOOLEAN
      BY DEF SafeSessions, IsServer
    <2> HIDE DEF e
    <2>2. Derived(b, r) /\ r \in SessionShapes
      BY <2>1, FailedIs, FailedSpares, Zenon
    <2> HIDE DEF r
    <2>3. Err(r, 0).ok = FALSE /\ Err(r, 0).db = r /\ Err(r, 0).faults = 0
      BY DEF Err
    <2>4. PICK p \in Undo(r) : o = Err(p.db, 0 + p.faults)
      BY <1>2, <2>3, Zenon DEF Handling
    <2>5. Moved(r, p.db)
      <3>1. CASE p \in rollback(r)
        BY <2>2, <3>1, RollbackMoves
      <3>2. CASE p = Ok(r, 0)
        BY <3>2 DEF Ok, Moved
      <3>3. QED  BY <2>4, <3>1, <3>2 DEF Undo
    <2>6. Moved(b, p.db)
      BY <2>2, <2>5, MovedOn, DerivedMoves
    <2>7. o.db = p.db
      BY <2>4 DEF Err
    <2>8. QED  BY <2>6, <2>7, MovedSteady
  <1>3. QED  BY <1>1, <1>2, Zenon DEF upsert, s, Undo

\* A session whose added columns may wait for its commit.
Waits(f, b) == Within(f, b) /\ (b.driver = "pg8000" /\ ~b.active => Even(b))

\* A column that was added; c comes from b, which was whole and stays so.
Adds(f, b, c) ==
    /\ Waits(f, b) => Waits(f, c)
    /\ c.open => b.open
    /\ Well(b) => Well(c)

LEMMA AddsOn ==
  ASSUME NEW f, NEW a, NEW b, NEW c, Adds(f, a, b), Adds(f, b, c)
  PROVE  Adds(f, a, c)
  BY DEF Adds

LEMMA DefineAdds ==
  ASSUME NEW V, NEW b \in SafeSessions(V), NEW s, s.do = "add", Fits(s, V), NEW o \in ddl(b, s), o.ok,
         NEW f
  PROVE  Adds(f, b, o.db)
  <1> DEFINE d == Done(b, s)
             k == [d EXCEPT !.store = d.seen, !.dirty = FALSE]
  <1>1. ASSUME NEW e \in execute(b, s), e.ok
        PROVE  e = Ok(d, 0) /\ b.open
    BY <1>1, ExecuteMoves
  <1>2. o = Ok(d, 0) \/ o = Ok(k, 0)
    <2>1. CASE o \in execute(b, s)
      BY <1>1, <2>1
    <2>2. CASE \E e \in execute(b, s) :
                 o = IF e.ok THEN Ok([e.db EXCEPT !.store = e.db.seen, !.dirty = FALSE], e.faults) ELSE e
      <3>1. PICK e \in execute(b, s) :
                 o = IF e.ok THEN Ok([e.db EXCEPT !.store = e.db.seen, !.dirty = FALSE], e.faults) ELSE e
        BY <2>2
      <3>2. e.ok
        BY <3>1
      <3>3. e = Ok(d, 0)
        BY <1>1, <3>2
      <3>4. Ok(d, 0).db = d /\ Ok(d, 0).faults = 0
        BY DEF Ok
      <3>5. QED  BY <3>1, <3>2, <3>3, <3>4
    <2>3. QED  BY <2>1, <2>2, Zenon DEF ddl
  <1>3. b.open
    <2>1. PICK e \in execute(b, s) : e.ok
      <3>1. CASE o \in execute(b, s)
        BY <3>1
      <3>2. CASE \E e \in execute(b, s) :
                 o = IF e.ok THEN Ok([e.db EXCEPT !.store = e.db.seen, !.dirty = FALSE], e.faults) ELSE e
        BY <3>2
      <3>3. QED  BY <3>1, <3>2, Zenon DEF ddl
    <2>2. QED  BY <1>1, <2>1
  <1>4. Does(f, V, b, s, d)
    BY <1>3, DoneFiner
  <1> HIDE DEF d
  <1>5. /\ k.driver = d.driver /\ k.active = d.active /\ k.open = d.open /\ k.broken = d.broken
        /\ k.failed = d.failed /\ k.seen = d.seen /\ k.store = d.seen
    BY <1>4, Zenon DEF SafeSessions, SessionShapes, Does
  <1> HIDE DEF k
  <1>6. Within(f, d) => Within(f, k)
    BY <1>5 DEF Within
  <1>7. ASSUME NEW x, x.seen = x.store
        PROVE  Even(x)
    BY <1>7 DEF Even, Finer
  <1>8. Adds(f, b, d)
    BY <1>4, <1>7 DEF Adds, Waits, Well, Does
  <1>9. Adds(f, b, k)
    BY <1>4, <1>5, <1>6, <1>7 DEF Adds, Waits, Well, Does
  <1>10. QED  BY <1>2, <1>8, <1>9 DEF Ok

\* A call that returns without a fault.
Clean(f, b, q) == q.ok /\ q.faults = 0 => Steady(f, b, q.db) /\ (Well(b) => Well(q.db))

LEMMA CleanOn ==
  ASSUME NEW f, NEW b, NEW e, Clean(f, b, e), e.ok, e.faults \in Nat,
         NEW p, Clean(f, e.db, p), p.faults \in Nat,
         NEW o, o.db = p.db, o.ok = p.ok, o.faults = p.faults + e.faults
  PROVE  Clean(f, b, o)
  <1>1. o.ok /\ o.faults = 0 => p.faults = 0 /\ e.faults = 0
    OBVIOUS
  <1>2. QED  BY <1>1, SteadyOn DEF Clean

LEMMA NothingClean ==
  ASSUME NEW f, NEW b, NEW n
  PROVE  Clean(f, b, Ok(b, n))
  BY DEF Clean, Steady, Ok

\* A read, whatever became of it.
LEMMA FetchSteady ==
  ASSUME NEW b \in SessionShapes, NEW f, NEW o \in fetch(b)
  PROVE  Steady(f, b, o.db) /\ Clean(f, b, o) /\ (Well(b) /\ o.faults = 0 => o.ok /\ Well(o.db))
  BY FetchMoves, MovedSteady DEF Clean

\* The columns of one table, committed.
LEMMA AddClean ==
  ASSUME NEW V, NEW b \in SafeSessions(V), NEW t, NEW f, NEW o \in AddColumns(b, t, TRUE)
  PROVE  Clean(f, b, o)
  <1> DEFINE left(x) == x.seen.cat[t].flaws \cap Addable
             Add(a) == [do |-> "add", table |-> t, column |-> a]
             One(x) == IF left(x) = {} THEN {Ok(x, 0)}
                       ELSE UNION {ddl(x, Add(a)) : a \in left(x)}
             Begun(x) == IF TRUE THEN {Ok(x, 0)}
                         ELSE IF IsServer(x) THEN begin_transaction(x)
                         ELSE IF x.dirty THEN {Ok(x, 0)}
                         ELSE execute(x, [do |-> "BEGIN"])
             Last(x) == IF TRUE THEN commit(x) ELSE {Ok(x, 0)}
             Kept(e) == e \in Outcomes(V) /\ (e.ok => Adds(f, b, e.db))
  <1>1. o \in Then(Then(Then(Then(Begun(b), One), One), One), Last)
    BY Zenon DEF AddColumns
  <1>2. ASSUME NEW x \in SafeSessions(V), NEW e, e = Ok(x, 0)
        PROVE  e \in Outcomes(V) /\ e.db = x
    BY <1>2 DEF Ok, Outcomes
  <1>3. ASSUME NEW x
        PROVE  Adds(f, x, x)
    BY DEF Adds
  <1>4. ASSUME NEW e \in Begun(b)
        PROVE  Kept(e)
    BY <1>2, <1>3, <1>4
  <1>5. ASSUME NEW x \in SafeSessions(V), NEW e \in One(x)
        PROVE  e \in Outcomes(V) /\ (e.ok => Adds(f, x, e.db))
    <2>1. CASE e = Ok(x, 0)
      BY <1>2, <1>3, <2>1
    <2>2. CASE \E a \in left(x) : e \in ddl(x, Add(a))
      <3>1. PICK a \in left(x) : e \in ddl(x, Add(a))
        BY <2>2
      <3>2. Fits(Add(a), V) /\ Add(a).do = "add"
        BY DEF Fits
      <3> HIDE DEF Add
      <3>3. QED  BY <3>1, <3>2, Defines, DefineAdds
    <2>3. QED  BY <1>5, <2>1, <2>2
  <1>6. ASSUME NEW x, NEW e \in Last(x)
        PROVE  e \in commit(x)
    BY <1>6
  <1> HIDE DEF One, Begun, Last
  <1>7. ASSUME NEW S, \A q \in S : Kept(q), NEW e \in Then(S, One)
        PROVE  Kept(e)
    <2>1. PICK q \in S : \/ e = q
                         \/ q.ok /\ \E p \in One(q.db) : e = [p EXCEPT !.faults = @ + q.faults]
      BY <1>7, Zenon DEF Then
    <2>2. Kept(q) /\ q.db \in SafeSessions(V) /\ q.faults \in Nat
      BY <1>7 DEF Outcomes
    <2>3. ASSUME q.ok, NEW p \in One(q.db), e = [p EXCEPT !.faults = @ + q.faults]
          PROVE  Kept(e)
      <3>1. p \in Outcomes(V) /\ (p.ok => Adds(f, q.db, p.db))
        BY <1>5, <2>2, <2>3
      <3>2. e \in Outcomes(V) /\ e.db = p.db /\ e.ok = p.ok
        BY <2>2, <2>3, <3>1, SummedFaults
      <3>3. QED  BY <2>2, <2>3, <3>1, <3>2, AddsOn
    <2> HIDE DEF Kept
    <2>4. QED  BY <2>1, <2>2, <2>3
  <1>8. \A e \in Then(Begun(b), One) : Kept(e)
    BY <1>4, <1>7
  <1>9. \A e \in Then(Then(Begun(b), One), One) : Kept(e)
    BY <1>7, <1>8
  <1>10. \A e \in Then(Then(Then(Begun(b), One), One), One) : Kept(e)
    BY <1>7, <1>9
  <1>11. PICK q : /\ Kept(q)
                  /\ \/ o = q /\ ~q.ok
                     \/ q.ok /\ \E p \in Last(q.db) : o = [p EXCEPT !.faults = @ + q.faults]
    <2> DEFINE S == Then(Then(Then(Begun(b), One), One), One)
    <2>1. o \in Then(S, Last) /\ \A e \in S : Kept(e)
      BY <1>1, <1>10
    <2> HIDE DEF S
    <2>2. PICK q \in S : \/ o = q /\ ~q.ok
                         \/ q.ok /\ \E p \in Last(q.db) : o = [p EXCEPT !.faults = @ + q.faults]
      BY <2>1, Zenon DEF Then
    <2>3. QED  BY <2>1, <2>2
  <1>12. CASE o = q /\ ~q.ok
    BY <1>12 DEF Clean
  <1>13. ASSUME q.ok, NEW p \in Last(q.db), o = [p EXCEPT !.faults = @ + q.faults]
         PROVE  Clean(f, b, o)
    <2> DEFINE x == q.db
               c == p.db
    <2>1. x \in SafeSessions(V) /\ q.faults \in Nat /\ Adds(f, b, x)
      BY <1>11, <1>13 DEF Outcomes
    <2>2. p \in commit(x)
      BY <1>6, <1>13
    <2>3. p \in Outcomes(V)
      BY <2>1, <2>2, Commits
    <2>4. o.db = c /\ o.ok = p.ok
      BY <1>13, <2>1, <2>3, SummedFaults
    <2>5. /\ Moved(x, c)
          /\ p.ok => c.seen = c.store \/ (x.driver = "pg8000" /\ ~x.active /\ c = x)
          /\ Well(x) /\ p.ok => Well(c)
      BY <2>1, <2>2, CommitMoves
    <2> HIDE DEF x, c
    <2>6. Waits(f, x) => Within(f, c)
      BY <2>5 DEF Waits, Within, Moved
    <2>7. Waits(f, x) /\ p.ok => Even(c)
      BY <2>5 DEF Waits, Even, Finer
    <2>8. Held(f, b) => Waits(f, b)
      BY DEF Held, Waits
    <2>9. p.ok => Steady(f, b, c)
      BY <2>1, <2>5, <2>6, <2>7, <2>8 DEF Steady, Held, Adds, Moved
    <2>10. QED  BY <2>1, <2>4, <2>5, <2>9 DEF Clean, Adds
  <1>14. QED  BY <1>11, <1>12, <1>13

\* The migration of one table, committed.
LEMMA MigrateClean ==
  ASSUME NEW V, NEW b \in SafeSessions(V), NEW t, NEW f, NEW o \in MigrateOne(b, t, TRUE)
  PROVE  Clean(f, b, o)
  <1> DEFINE Upgrade(x) ==
               LET tab == x.seen.cat[t] IN
               IF Has(tab, {"capture"}) THEN {Err(x, 0)}
               ELSE IF Has(tab, Addable) /\ ~Has(tab, {"key"}) THEN AddColumns(x, t, TRUE)
               ELSE {Ok(x, 0)}
             Existing(x) ==
               UNION {IF ~e.ok THEN {e} ELSE {[p EXCEPT !.faults = @ + e.faults] : p \in Upgrade(e.db)}
                      : e \in fetch(x)}
             Absent(x) == {Ok(x, 0)}
             Kept(x, p) == p \in Outcomes(V) /\ Clean(f, x, p)
  <1>1. ASSUME NEW x \in SafeSessions(V), NEW p \in Upgrade(x)
        PROVE  Kept(x, p)
    <2>1. CASE p = Err(x, 0)
      BY <2>1 DEF Err, Outcomes, Clean
    <2>2. CASE p = Ok(x, 0)
      <3>1. p \in Outcomes(V)
        BY <2>2 DEF Ok, Outcomes
      <3>2. QED  BY <2>2, <3>1, NothingClean
    <2>3. CASE p \in AddColumns(x, t, TRUE)
      BY <2>3, AddsColumns, AddClean
    <2>4. QED  BY <1>1, <2>1, <2>2, <2>3
  <1>2. MigrateOne(b, t, TRUE) =
          UNION {{[p EXCEPT !.faults = @ + e.faults]
                  : p \in IF e.ok /\ e.db.seen.cat[t].there THEN Existing(e.db) ELSE Absent(e.db)}
                 : e \in fetch(b)}
    BY Zenon DEF MigrateOne, table_exists
  <1> HIDE DEF Upgrade
  <1>3. ASSUME NEW x \in SafeSessions(V), NEW e \in fetch(x)
        PROVE  /\ e \in Outcomes(V) /\ e.db \in SafeSessions(V) /\ e.faults \in Nat /\ Clean(f, x, e)
               /\ Steady(f, x, e.db) /\ (Well(x) /\ e.faults = 0 => Well(e.db))
    <2>1. e \in Outcomes(V) /\ x \in SessionShapes
      BY <1>3, Fetches DEF SafeSessions
    <2>2. QED  BY <1>3, <2>1, FetchSteady DEF Outcomes
  <1>4. ASSUME NEW x \in SafeSessions(V), NEW p \in Existing(x)
        PROVE  Kept(x, p)
    <2>1. PICK e \in fetch(x) : \/ p = e
                                \/ e.ok /\ \E q \in Upgrade(e.db) : p = [q EXCEPT !.faults = @ + e.faults]
      BY <1>4, Zenon
    <2>2. CASE p = e
      BY <1>3, <2>2
    <2>3. CASE e.ok /\ \E q \in Upgrade(e.db) : p = [q EXCEPT !.faults = @ + e.faults]
      <3>1. PICK q \in Upgrade(e.db) : p = [q EXCEPT !.faults = @ + e.faults]
        BY <2>3
      <3>2. Kept(e.db, q)
        BY <1>1, <1>3, <3>1
      <3>3. q.faults \in Nat
        BY <3>2 DEF Outcomes
      <3>4. p \in Outcomes(V) /\ p.db = q.db /\ p.ok = q.ok /\ p.faults = q.faults + e.faults
        BY <1>3, <3>1, <3>2, SummedFaults
      <3>5. QED  BY <1>3, <2>3, <3>2, <3>3, <3>4, CleanOn
    <2>4. QED  BY <2>1, <2>2, <2>3
  <1>5. ASSUME NEW x \in SafeSessions(V), NEW p \in Absent(x)
        PROVE  Kept(x, p)
    <2>1. p = Ok(x, 0)
      BY <1>5
    <2>2. p \in Outcomes(V)
      BY <2>1 DEF Ok, Outcomes
    <2>3. QED  BY <2>1, <2>2, NothingClean
  <1> HIDE DEF Existing, Absent
  <1>6. PICK e \in fetch(b) :
          o \in {[p EXCEPT !.faults = @ + e.faults]
                 : p \in IF e.ok /\ e.db.seen.cat[t].there THEN Existing(e.db) ELSE Absent(e.db)}
    BY <1>2, Zenon
  <1>7. PICK p \in Existing(e.db) \cup Absent(e.db) : o = [p EXCEPT !.faults = @ + e.faults]
    BY <1>6, Zenon
  <1>8. Kept(e.db, p)
    BY <1>3, <1>4, <1>5, <1>7
  <1>9. p.faults \in Nat
    BY <1>8 DEF Outcomes
  <1>10. o.db = p.db /\ o.ok = p.ok /\ o.faults = p.faults + e.faults
    BY <1>3, <1>7, <1>8, SummedFaults
  <1>11. o.faults = 0 => p.faults = 0 /\ e.faults = 0
    BY <1>3, <1>9, <1>10
  <1>12. QED  BY <1>3, <1>8, <1>10, <1>11, SteadyOn DEF Clean

\* The name of a table is only looked up.
LEMMA KnowsClean ==
  ASSUME NEW V, NEW b \in SafeSessions(V), NEW t, NEW f, NEW o \in Knows(b, t)
  PROVE  Clean(f, b, o)
  <1> DEFINE There(x) == {Ok(x, 0)}
             Absent(x) == {IF LegacyOnly(x.seen.cat[t]) THEN Err(x, 0) ELSE Ok(x, 0)}
  <1>1. Knows(b, t) =
          UNION {{[p EXCEPT !.faults = @ + e.faults]
                  : p \in IF e.ok /\ e.db.seen.cat[t].there THEN There(e.db) ELSE Absent(e.db)}
                 : e \in fetch(b)}
    BY Zenon DEF Knows, table_exists
  <1>2. ASSUME NEW x, NEW p \in There(x) \cup Absent(x)
        PROVE  p = Ok(x, 0) \/ p = Err(x, 0)
    BY <1>2
  <1> HIDE DEF There, Absent
  <1>3. PICK e \in fetch(b) :
          o \in {[p EXCEPT !.faults = @ + e.faults]
                 : p \in IF e.ok /\ e.db.seen.cat[t].there THEN There(e.db) ELSE Absent(e.db)}
    BY <1>1, Zenon
  <1>4. PICK p \in There(e.db) \cup Absent(e.db) : o = [p EXCEPT !.faults = @ + e.faults]
    BY <1>3, Zenon
  <1>5. e \in Outcomes(V) /\ b \in SessionShapes /\ e.faults \in Nat
    BY Fetches DEF SafeSessions, Outcomes
  <1>6. p = Ok(e.db, 0) \/ p = Err(e.db, 0)
    BY <1>2
  <1>7. o.db = e.db /\ o.faults = e.faults
    BY <1>4, <1>5, <1>6 DEF Ok, Err
  <1>8. Steady(f, b, e.db) /\ (Well(b) /\ e.faults = 0 => Well(e.db))
    BY <1>5, FetchSteady
  <1>9. QED  BY <1>7, <1>8 DEF Clean

\* The same of a handle.
SteadyBoth(f, g, hd, k) == k.dual = hd.dual /\ Steady(f, hd.p, k.p) /\ Steady(g, hd.s, k.s)
CleanBoth(f, g, hd, o) ==
    o.ok /\ o.faults = 0 => SteadyBoth(f, g, hd, o.db) /\ (Well(hd.p) => Well(o.db.p))

LEMMA SteadySame ==
  ASSUME NEW f, NEW g, NEW a, NEW b, b.dual = a.dual, b.p = a.p, b.s = a.s
  PROVE  SteadyBoth(f, g, a, b)
  BY DEF SteadyBoth, Steady

LEMMA SteadyBothOn ==
  ASSUME NEW f, NEW g, NEW a, NEW b, NEW c, SteadyBoth(f, g, a, b), SteadyBoth(f, g, b, c)
  PROVE  SteadyBoth(f, g, a, c)
  BY SteadyOn DEF SteadyBoth

\* What the handle's outcome takes from the one of its primary, of its secondary.
LEMMA PrimaryTaken ==
  ASSUME NEW V, NEW hd \in HandlesOf(V), NEW q \in Outcomes(V), NEW o, FromPrimary(hd, q, o)
  PROVE  /\ o \in Results(V) /\ o.db \in HandlesOf(V) /\ o.ok = q.ok /\ o.faults = q.faults
         /\ o.db.p = q.db /\ o.db.s = hd.s /\ o.db.dual = hd.dual
  <1>1. o \in Results(V) /\ o.ok = q.ok /\ Holds(V, hd, q.db, hd.s, o.db)
    BY OnPrimaryIs
  <1>2. o.faults = q.faults
    <2> DEFINE k == [hd EXCEPT !.p = q.db]
    <2>1. o = [q EXCEPT !.db = k]
      BY DEF FromPrimary
    <2> HIDE DEF k
    <2>2. QED  BY <2>1, Zenon DEF Outcomes
  <1>3. QED  BY <1>1, <1>2, ResultHolds DEF Holds

LEMMA SecondaryTaken ==
  ASSUME NEW V, NEW hd \in HandlesOf(V), hd.dual, NEW q \in Outcomes(V), NEW o, FromSecondary(hd, q, o)
  PROVE  /\ o \in Results(V) /\ o.db \in HandlesOf(V) /\ o.ok = q.ok /\ o.faults = q.faults
         /\ o.db.p = hd.p /\ o.db.s = q.db /\ o.db.dual = hd.dual
  <1>1. o \in Results(V) /\ o.ok = q.ok /\ Holds(V, hd, hd.p, q.db, o.db)
    BY OnSecondaryIs
  <1>2. o.faults = q.faults
    <2> DEFINE k == [hd EXCEPT !.s = q.db]
    <2>1. o = [q EXCEPT !.db = k]
      BY DEF FromSecondary
    <2> HIDE DEF k
    <2>2. QED  BY <2>1, Zenon DEF Outcomes
  <1>3. QED  BY <1>1, <1>2, ResultHolds DEF Holds

LEMMA NothingCleanBoth ==
  ASSUME NEW V, NEW hd \in HandlesOf(V), NEW f, NEW g
  PROVE  Ok(hd, 0) \in Results(V) /\ CleanBoth(f, g, hd, Ok(hd, 0))
  <1>1. Ok(hd, 0) \in Results(V) /\ Ok(hd, 0).db = hd
    BY DEF Ok, Results
  <1>2. QED  BY <1>1, SteadySame DEF CleanBoth

\* The outcome o is q's, with the faults of e.
Sums(e, q, o) == o.db = q.db /\ o.ok = q.ok /\ (o.faults = 0 => e.faults = 0 /\ q.faults = 0)

\* One call after another.
LEMMA FollowsClean ==
  ASSUME NEW V, NEW hd, NEW f, NEW g, NEW e \in Results(V), CleanBoth(f, g, hd, e),
         NEW q \in Results(V), CleanBoth(f, g, e.db, q), NEW o, Follows(e, q, o)
  PROVE  CleanBoth(f, g, hd, o) /\ o \in Results(V) /\ Sums(e, q, o)
  <1>1. e.ok /\ o = [q EXCEPT !.faults = @ + e.faults]
    BY DEF Follows
  <1>2. e.faults \in Nat /\ q.faults \in Nat
    BY ResultHolds
  <1>3. o \in Results(V) /\ o.db = q.db /\ o.ok = q.ok /\ o.faults = q.faults + e.faults
    BY <1>1, <1>2, CountedFaults
  <1>4. o.faults = 0 => e.faults = 0 /\ q.faults = 0
    BY <1>2, <1>3
  <1>5. QED  BY <1>1, <1>3, <1>4, SteadyBothOn DEF CleanBoth, Sums

\* A call of every target.
CleanCall(V, f, b, q) == b \in SafeSessions(V) => q \in Outcomes(V) /\ Clean(f, b, q)
TargetsClean(V, f, g, hd, o) ==
    \E q, e : /\ CleanCall(V, f, hd.p, q) /\ FromPrimary(hd, q, e)
              /\ \/ o = e \/ Follows(e, Ok(e.db, 0), o)
                 \/ e.db.dual /\ \E r, k : /\ CleanCall(V, g, e.db.s, r) /\ FromSecondary(e.db, r, k)
                                           /\ Follows(e, k, o)

LEMMA TargetedClean ==
  ASSUME NEW V, NEW hd \in HandlesOf(V), NEW f, NEW g, NEW o, TargetsClean(V, f, g, hd, o)
  PROVE  CleanBoth(f, g, hd, o)
  <1>1. PICK q, e : /\ CleanCall(V, f, hd.p, q) /\ FromPrimary(hd, q, e)
                    /\ \/ o = e \/ Follows(e, Ok(e.db, 0), o)
                       \/ e.db.dual /\ \E r, k : /\ CleanCall(V, g, e.db.s, r) /\ FromSecondary(e.db, r, k)
                                                 /\ Follows(e, k, o)
    BY Zenon DEF TargetsClean
  <1>2. q \in Outcomes(V) /\ Clean(f, hd.p, q)
    BY <1>1, HandleHolds DEF CleanCall
  <1>3. /\ e \in Results(V) /\ e.db \in HandlesOf(V) /\ e.ok = q.ok /\ e.faults = q.faults
        /\ e.db.p = q.db /\ e.db.s = hd.s /\ e.db.dual = hd.dual
    BY <1>1, <1>2, PrimaryTaken
  <1>4. CleanBoth(f, g, hd, e)
    BY <1>2, <1>3 DEF CleanBoth, Clean, SteadyBoth, Steady
  <1>5. CASE Follows(e, Ok(e.db, 0), o)
    BY <1>3, <1>4, <1>5, NothingCleanBoth, FollowsClean
  <1>6. CASE e.db.dual /\ \E r, k : /\ CleanCall(V, g, e.db.s, r) /\ FromSecondary(e.db, r, k)
                                    /\ Follows(e, k, o)
    <2>1. /\ e.db.dual
          /\ \E r, k : CleanCall(V, g, e.db.s, r) /\ FromSecondary(e.db, r, k) /\ Follows(e, k, o)
      BY <1>6
    <2>2. PICK r, k : CleanCall(V, g, e.db.s, r) /\ FromSecondary(e.db, r, k) /\ Follows(e, k, o)
      BY <2>1
    <2>3. r \in Outcomes(V) /\ Clean(g, e.db.s, r)
      BY <1>3, <2>2, HandleHolds DEF CleanCall
    <2>4. /\ k \in Results(V) /\ k.db \in HandlesOf(V) /\ k.ok = r.ok /\ k.faults = r.faults
          /\ k.db.p = e.db.p /\ k.db.s = r.db /\ k.db.dual = e.db.dual
      BY <1>3, <2>1, <2>2, <2>3, SecondaryTaken, Zenon
    <2>5. CleanBoth(f, g, e.db, k)
      BY <2>3, <2>4 DEF CleanBoth, Clean, SteadyBoth, Steady
    <2>6. QED  BY <1>3, <1>4, <2>2, <2>4, <2>5, FollowsClean
  <1>7. QED  BY <1>1, <1>4, <1>5, <1>6

\* A verification.
LEMMA LooksClean ==
  ASSUME NEW V, NEW f, NEW b, NEW q, Looks(b, q)
  PROVE  CleanCall(V, f, b, q)
  <1> SUFFICES ASSUME b \in SafeSessions(V)
               PROVE  q \in Outcomes(V) /\ Clean(f, b, q)
    BY DEF CleanCall
  <1>1. q \in Outcomes(V)
    BY LooksIs DEF Safely
  <1>2. PICK x \in fetch(b) : q = x \/ q = Err(x.db, x.faults)
    BY DEF Looks
  <1>3. Clean(f, b, x)
    BY <1>2, FetchSteady DEF SafeSessions
  <1>4. ~Err(x.db, x.faults).ok
    BY DEF Err
  <1>5. QED  BY <1>1, <1>2, <1>3, <1>4 DEF Clean

LEMMA ChecksClean ==
  ASSUME NEW V, NEW hd \in HandlesOf(V), NEW f, NEW g, NEW o, Checks(hd, o)
  PROVE  CleanBoth(f, g, hd, o)
  <1>1. TargetsClean(V, f, g, hd, o)
    BY LooksClean, Zenon DEF Checks, TargetsClean
  <1>2. QED  BY <1>1, TargetedClean

\* The migration of one table on every target, committed; the name of a table.
LEMMA MigratesClean ==
  ASSUME NEW V, NEW hd \in HandlesOf(V), NEW t, NEW f, NEW g,
         NEW o \in migrate_table_if_needed(hd, t, TRUE)
  PROVE  CleanBoth(f, g, hd, o)
  <1> DEFINE F(b) == MigrateOne(b, t, TRUE)
             N(k) == IF k.dual /\ k.s.open THEN OnSecondary(k, F) ELSE {Ok(k, 0)}
  <1>1. o \in Then(OnPrimary(hd, F), N)
    BY Zenon DEF migrate_table_if_needed, OnTargets
  <1>2. \A x, b : \A q \in F(b) : CleanCall(V, x, b, q)
    BY Migrates, MigrateClean DEF CleanCall
  <1> HIDE DEF F
  <1>3. \A e \in OnPrimary(hd, F) : \E q : CleanCall(V, f, hd.p, q) /\ FromPrimary(hd, q, e)
    BY <1>2, Zenon DEF OnPrimary, FromPrimary
  <1>4. \A k : \A q \in N(k) : \/ q = Ok(k, 0)
                               \/ k.dual /\ \E r : CleanCall(V, g, k.s, r) /\ FromSecondary(k, r, q)
    BY <1>2, Zenon DEF OnSecondary, FromSecondary
  <1> HIDE DEF N
  <1>5. PICK e \in OnPrimary(hd, F) : o = e \/ \E q \in N(e.db) : Follows(e, q, o)
    BY <1>1, Zenon DEF Then, Follows
  <1>6. TargetsClean(V, f, g, hd, o)
    BY <1>3, <1>4, <1>5, Zenon DEF TargetsClean
  <1>7. QED  BY <1>6, TargetedClean

LEMMA ResolveClean ==
  ASSUME NEW V, NEW hd \in HandlesOf(V), NEW t, NEW f, NEW g,
         NEW o \in resolve_standard_table_name(hd, t)
  PROVE  CleanBoth(f, g, hd, o)
  <1> DEFINE F(b) == Knows(b, t)
             N(k) == IF k.dual /\ k.s.open THEN OnSecondary(k, F) ELSE {Ok(k, 0)}
  <1>1. o \in OnPrimary(hd, F) \/ o \in Then(OnPrimary(hd, F), N)
    BY Zenon DEF resolve_standard_table_name, OnTargets, Knows
  <1>2. \A x, b : \A q \in F(b) : CleanCall(V, x, b, q)
    BY KnowsIs, KnowsClean DEF CleanCall
  <1> HIDE DEF F
  <1>3. \A e \in OnPrimary(hd, F) : \E q : CleanCall(V, f, hd.p, q) /\ FromPrimary(hd, q, e)
    BY <1>2, Zenon DEF OnPrimary, FromPrimary
  <1>4. \A k : \A q \in N(k) : \/ q = Ok(k, 0)
                               \/ k.dual /\ \E r : CleanCall(V, g, k.s, r) /\ FromSecondary(k, r, q)
    BY <1>2, Zenon DEF OnSecondary, FromSecondary
  <1> HIDE DEF N
  <1>5. PICK e \in OnPrimary(hd, F) : o = e \/ \E q \in N(e.db) : Follows(e, q, o)
    BY <1>1, Zenon DEF Then, Follows
  <1>6. TargetsClean(V, f, g, hd, o)
    BY <1>3, <1>4, <1>5, Zenon DEF TargetsClean
  <1>7. QED  BY <1>6, TargetedClean

\* A verification of table t, whose key may differ and whose columns may be
\* missing if x, and what it found of a session that is connected.
Finds(t, x, b, q) == Looks(b, q) /\ (q.ok => verify_table_schema(q.db.seen.cat[t], x, x))
Found(t, x, b) == b.open => verify_table_schema(b.seen.cat[t], x, x)
FindsBoth(t, x, hd, o) ==
    \E q, e : /\ Finds(t, x, hd.p, q) /\ FromPrimary(hd, q, e)
              /\ \/ ~e.ok /\ o = e
                 \/ ~(e.db.dual /\ e.db.s.open) /\ Follows(e, Ok(e.db, 0), o)
                 \/ e.db.dual /\ \E r, k : /\ Finds(t, x, e.db.s, r) /\ FromSecondary(e.db, r, k)
                                           /\ Follows(e, k, o)

LEMMA FindsBothIs ==
  ASSUME NEW V, NEW hd \in HandlesOf(V), NEW t, NEW x, NEW o, FindsBoth(t, x, hd, o), o.ok
  PROVE  Found(t, x, o.db.p) /\ Found(t, x, o.db.s)
  <1>1. PICK q, e : /\ Finds(t, x, hd.p, q) /\ FromPrimary(hd, q, e)
                    /\ \/ ~e.ok /\ o = e
                       \/ ~(e.db.dual /\ e.db.s.open) /\ Follows(e, Ok(e.db, 0), o)
                       \/ e.db.dual /\ \E r, k : /\ Finds(t, x, e.db.s, r) /\ FromSecondary(e.db, r, k)
                                                 /\ Follows(e, k, o)
    BY Zenon DEF FindsBoth
  <1>2. q \in Outcomes(V)
    BY <1>1, HandleHolds, LooksIs DEF Finds, Safely
  <1>3. /\ e \in Results(V) /\ e.db \in HandlesOf(V) /\ e.ok = q.ok
        /\ e.db.p = q.db /\ e.db.s = hd.s /\ e.db.dual = hd.dual
    BY <1>1, <1>2, PrimaryTaken
  <1>4. e.ok => Found(t, x, e.db.p)
    BY <1>1, <1>3 DEF Finds, Found
  <1>5. CASE ~(e.db.dual /\ e.db.s.open) /\ Follows(e, Ok(e.db, 0), o)
    <2>1. Ok(e.db, 0) \in Results(V) /\ Ok(e.db, 0).db = e.db
      BY <1>3 DEF Ok, Results
    <2>2. o.db = e.db
      BY <1>3, <1>5, <2>1, FollowsIs
    <2>3. e.ok /\ ~e.db.s.open
      BY <1>3, <1>5 DEF HandlesOf, Follows
    <2>4. QED  BY <1>4, <2>2, <2>3 DEF Found
  <1>6. CASE e.db.dual /\ \E r, k : /\ Finds(t, x, e.db.s, r) /\ FromSecondary(e.db, r, k)
                                    /\ Follows(e, k, o)
    <2>1. /\ e.db.dual
          /\ \E r, k : Finds(t, x, e.db.s, r) /\ FromSecondary(e.db, r, k) /\ Follows(e, k, o)
      BY <1>6
    <2>2. PICK r, k : Finds(t, x, e.db.s, r) /\ FromSecondary(e.db, r, k) /\ Follows(e, k, o)
      BY <2>1
    <2>3. r \in Outcomes(V)
      BY <1>3, <2>2, HandleHolds, LooksIs DEF Finds, Safely
    <2>4. /\ k \in Results(V) /\ k.db \in HandlesOf(V) /\ k.ok = r.ok /\ k.faults = r.faults
          /\ k.db.p = e.db.p /\ k.db.s = r.db /\ k.db.dual = e.db.dual
      BY <1>3, <2>1, <2>2, <2>3, SecondaryTaken, Zenon
    <2>5. e.ok
      BY <2>2 DEF Follows
    <2>6. o \in Results(V) /\ o.db = k.db /\ o.ok = k.ok
      BY <1>3, <2>2, <2>4, FollowsIs, Zenon
    <2>7. QED  BY <1>4, <2>2, <2>4, <2>5, <2>6 DEF Finds, Found
  <1>7. QED  BY <1>1, <1>5, <1>6

\* What the generic verification finds, and what the standard contract does.
LEMMA GenericFinds ==
  ASSUME NEW V, NEW hd \in HandlesOf(V), NEW t, NEW o \in GenericCheck(hd, t), o.ok
  PROVE  Found(t, FALSE, o.db.p) /\ Found(t, FALSE, o.db.s)
  <1> DEFINE P(cat) == verify_table_schema(cat[t], FALSE, FALSE)
             F(b) == Check(b, P)
             N(g) == IF g.dual /\ g.s.open THEN OnSecondary(g, F) ELSE {Ok(g, 0)}
  <1>1. o \in Then(OnPrimary(hd, F), N)
    BY Zenon DEF GenericCheck, CheckTargets, OnTargets
  <1>2. \A b : \A q \in F(b) : Finds(t, FALSE, b, q)
    <2>1. \A b : \A q \in F(b) : \E x \in fetch(b) :
             q = IF x.ok /\ ~P(x.db.seen.cat) THEN Err(x.db, x.faults) ELSE x
      BY Zenon DEF Check
    <2> HIDE DEF F
    <2>2. TAKE b
    <2>3. TAKE q \in F(b)
    <2>4. PICK x \in fetch(b) : q = IF x.ok /\ ~P(x.db.seen.cat) THEN Err(x.db, x.faults) ELSE x
      BY <2>1
    <2>5. CASE x.ok /\ ~P(x.db.seen.cat)
      BY <2>4, <2>5 DEF Err, Looks, Finds
    <2>6. CASE ~(x.ok /\ ~P(x.db.seen.cat))
      BY <2>4, <2>6 DEF Looks, Finds
    <2>7. QED  BY <2>5, <2>6
  <1> HIDE DEF P, F
  <1>3. \A e \in OnPrimary(hd, F) : \E q : Finds(t, FALSE, hd.p, q) /\ FromPrimary(hd, q, e)
    BY <1>2, Zenon DEF OnPrimary, FromPrimary
  <1>4. \A g : \A k \in N(g) : \/ ~(g.dual /\ g.s.open) /\ k = Ok(g, 0)
                               \/ g.dual /\ \E r : Finds(t, FALSE, g.s, r) /\ FromSecondary(g, r, k)
    BY <1>2, Zenon DEF OnSecondary, FromSecondary
  <1> HIDE DEF N
  <1>5. PICK e \in OnPrimary(hd, F) : (~e.ok /\ o = e) \/ \E k \in N(e.db) : Follows(e, k, o)
    BY <1>1, Zenon DEF Then, Follows
  <1>6. FindsBoth(t, FALSE, hd, o)
    BY <1>3, <1>4, <1>5, Zenon DEF FindsBoth
  <1>7. QED  BY <1>6, FindsBothIs

LEMMA StandardFinds ==
  ASSUME NEW V, NEW hd \in HandlesOf(V), NEW t, NEW o \in StandardCheck(hd, t), o.ok
  PROVE  Found(t, TRUE, o.db.p) /\ Found(t, TRUE, o.db.s)
  <1> DEFINE P(cat) == StandardContract(cat[t])
             F(b) == Check(b, P)
             N(g) == IF g.dual /\ g.s.open THEN OnSecondary(g, F) ELSE {Ok(g, 0)}
  <1>1. o \in Then(OnPrimary(hd, F), N)
    BY Zenon DEF StandardCheck, CheckTargets, OnTargets
  <1>2. \A cat : P(cat) => verify_table_schema(cat[t], TRUE, TRUE)
    BY DEF StandardContract, verify_table_schema
  <1>3. \A b : \A q \in F(b) : Finds(t, TRUE, b, q)
    <2>1. \A b : \A q \in F(b) : \E x \in fetch(b) :
             q = IF x.ok /\ ~P(x.db.seen.cat) THEN Err(x.db, x.faults) ELSE x
      BY Zenon DEF Check
    <2> HIDE DEF F, P
    <2>2. TAKE b
    <2>3. TAKE q \in F(b)
    <2>4. PICK x \in fetch(b) : q = IF x.ok /\ ~P(x.db.seen.cat) THEN Err(x.db, x.faults) ELSE x
      BY <2>1
    <2>5. CASE x.ok /\ ~P(x.db.seen.cat)
      BY <2>4, <2>5 DEF Err, Looks, Finds
    <2>6. CASE ~(x.ok /\ ~P(x.db.seen.cat))
      BY <1>2, <2>4, <2>6 DEF Looks, Finds
    <2>7. QED  BY <2>5, <2>6
  <1> HIDE DEF P, F
  <1>4. \A e \in OnPrimary(hd, F) : \E q : Finds(t, TRUE, hd.p, q) /\ FromPrimary(hd, q, e)
    BY <1>3, Zenon DEF OnPrimary, FromPrimary
  <1>5. \A g : \A k \in N(g) : \/ ~(g.dual /\ g.s.open) /\ k = Ok(g, 0)
                               \/ g.dual /\ \E r : Finds(t, TRUE, g.s, r) /\ FromSecondary(g, r, k)
    BY <1>3, Zenon DEF OnSecondary, FromSecondary
  <1> HIDE DEF N
  <1>6. PICK e \in OnPrimary(hd, F) : (~e.ok /\ o = e) \/ \E k \in N(e.db) : Follows(e, k, o)
    BY <1>1, Zenon DEF Then, Follows
  <1>7. FindsBoth(t, TRUE, hd, o)
    BY <1>4, <1>5, <1>6, Zenon DEF FindsBoth
  <1>8. QED  BY <1>7, FindsBothIs

\* A look at the primary: a session that is well answers, unless something
\* happens to it.
Glanced(f, g, hd, e) ==
    /\ SteadyBoth(f, g, hd, e.db)
    /\ Well(hd.p) /\ e.faults = 0 => e.ok /\ Well(e.db.p)

LEMMA FetchGlances ==
  ASSUME NEW V, NEW hd \in HandlesOf(V), NEW f, NEW g, NEW o \in OnPrimary(hd, fetch)
  PROVE  Glanced(f, g, hd, o)
  <1>1. PICK q \in fetch(hd.p) : FromPrimary(hd, q, o)
    BY Zenon DEF OnPrimary, FromPrimary
  <1>2. q \in Outcomes(V) /\ hd.p \in SessionShapes
    BY <1>1, HandleHolds, Fetches DEF SafeSessions
  <1>3. Steady(f, hd.p, q.db) /\ (Well(hd.p) /\ q.faults = 0 => q.ok /\ Well(q.db))
    BY <1>1, <1>2, FetchSteady
  <1>4. /\ o.ok = q.ok /\ o.faults = q.faults
        /\ o.db.p = q.db /\ o.db.s = hd.s /\ o.db.dual = hd.dual
    BY <1>1, <1>2, PrimaryTaken
  <1>5. QED  BY <1>3, <1>4 DEF Glanced, SteadyBoth, Steady

After(e, q, o) == o = [q EXCEPT !.faults = @ + e.faults]

LEMMA GlancedClean ==
  ASSUME NEW V, NEW f, NEW g, NEW hd, NEW e \in Results(V), Glanced(f, g, hd, e),
         NEW q \in Results(V), CleanBoth(f, g, e.db, q), NEW o, After(e, q, o)
  PROVE  CleanBoth(f, g, hd, o) /\ Sums(e, q, o)
  <1>1. e.faults \in Nat /\ q.faults \in Nat
    BY ResultHolds
  <1>2. o.db = q.db /\ o.ok = q.ok /\ o.faults = q.faults + e.faults
    BY <1>1, CountedFaults DEF After
  <1>3. o.faults = 0 => e.faults = 0 /\ q.faults = 0
    BY <1>1, <1>2
  <1>4. QED  BY <1>2, <1>3, SteadyBothOn DEF CleanBoth, Glanced, Sums

\* A step of the preparation decided on a table that the primary has.
Decided(t, x, k) == k.p.seen.cat[t].there => Found(t, x, k.p) /\ Found(t, x, k.s)
Deciding(t, x, hd, o) == Well(hd.p) /\ o.ok /\ o.faults = 0 => Decided(t, x, o.db)

LEMMA CheckedThereDecides ==
  ASSUME NEW V, NEW hd \in HandlesOf(V), NEW t, NEW f, NEW g, NEW o \in CheckedThere(hd, t)
  PROVE  CleanBoth(f, g, hd, o) /\ Deciding(t, TRUE, hd, o)
  <1> DEFINE N(e) == IF e.ok /\ e.db.p.seen.cat[t].there THEN StandardCheck(e.db, t) ELSE {Ok(e.db, 0)}
  <1>1. CheckedThere(hd, t) =
          UNION {{[q EXCEPT !.faults = @ + e.faults] : q \in N(e)} : e \in OnPrimary(hd, fetch)}
    BY Zenon DEF CheckedThere, IfThere
  <1>2. \A e : e.db \in HandlesOf(V) =>
          \A q \in N(e) :
            \/ /\ q \in Results(V) /\ CleanBoth(f, g, e.db, q)
               /\ q.ok => Found(t, TRUE, q.db.p) /\ Found(t, TRUE, q.db.s)
            \/ q = Ok(e.db, 0) /\ ~(e.ok /\ e.db.p.seen.cat[t].there)
    BY StandardIs, ChecksClean, StandardFinds
  <1> HIDE DEF N
  <1>3. PICK e \in OnPrimary(hd, fetch) : o \in {[q EXCEPT !.faults = @ + e.faults] : q \in N(e)}
    BY <1>1, Zenon
  <1>4. PICK q \in N(e) : After(e, q, o)
    BY <1>3, Zenon DEF After
  <1>5. e \in Results(V) /\ e.db \in HandlesOf(V) /\ Glanced(f, g, hd, e)
    BY <1>3, FetchIs, FetchGlances, ResultHolds
  <1>6. Ok(e.db, 0).db = e.db
    BY DEF Ok
  <1>7. \/ /\ q \in Results(V) /\ CleanBoth(f, g, e.db, q)
           /\ q.ok => Found(t, TRUE, q.db.p) /\ Found(t, TRUE, q.db.s)
        \/ q = Ok(e.db, 0) /\ ~(e.ok /\ e.db.p.seen.cat[t].there)
    BY <1>2, <1>4, <1>5, Zenon
  <1>8. q \in Results(V) /\ CleanBoth(f, g, e.db, q)
    BY <1>5, <1>7, NothingCleanBoth, Zenon
  <1>9. e.ok /\ q.ok => Decided(t, TRUE, q.db)
    BY <1>6, <1>7 DEF Decided
  <1>10. CleanBoth(f, g, hd, o) /\ Sums(e, q, o)
    BY <1>4, <1>5, <1>8, GlancedClean, Zenon
  <1>11. QED  BY <1>5, <1>9, <1>10 DEF Glanced, Deciding, Sums

LEMMA PreflightDecides ==
  ASSUME NEW V, NEW hd \in HandlesOf(V), NEW t, NEW f, NEW g, NEW o \in StandardPreflight(hd, t)
  PROVE  CleanBoth(f, g, hd, o) /\ Deciding(t, TRUE, hd, o)
  <1> DEFINE N(k) == CheckedThere(k, t)
  <1>1. o \in Then(resolve_standard_table_name(hd, t), N)
    BY Zenon DEF StandardPreflight, CheckedThere, StandardCheck
  <1>2. \A k \in HandlesOf(V) : \A q \in N(k) :
          q \in Results(V) /\ CleanBoth(f, g, k, q) /\ Deciding(t, TRUE, k, q)
    BY CheckedThereIs, CheckedThereDecides
  <1> HIDE DEF N
  <1>3. PICK e \in resolve_standard_table_name(hd, t) :
          (~e.ok /\ o = e) \/ \E q \in N(e.db) : Follows(e, q, o)
    BY <1>1, Zenon DEF Then, Follows
  <1>4. e \in Results(V) /\ e.db \in HandlesOf(V) /\ CleanBoth(f, g, hd, e)
    BY <1>3, ResolveIs, ResolveClean, ResultHolds
  <1>5. CASE ~e.ok /\ o = e
    BY <1>4, <1>5 DEF Deciding
  <1>6. ASSUME NEW q \in N(e.db), Follows(e, q, o)
        PROVE  CleanBoth(f, g, hd, o) /\ Deciding(t, TRUE, hd, o)
    <2>1. q \in Results(V) /\ CleanBoth(f, g, e.db, q) /\ Deciding(t, TRUE, e.db, q)
      BY <1>2, <1>4, <1>6
    <2>2. CleanBoth(f, g, hd, o) /\ o \in Results(V) /\ Sums(e, q, o)
      BY <1>4, <1>6, <2>1, FollowsClean
    <2>3. e.ok
      BY <1>6 DEF Follows
    <2>4. QED  BY <1>4, <2>1, <2>2, <2>3 DEF Deciding, CleanBoth, Sums
  <1>7. QED  BY <1>3, <1>5, <1>6

LEMMA UpgradedTableDecides ==
  ASSUME NEW V, NEW hd \in HandlesOf(V), NEW t, NEW f, NEW g, NEW only, NEW later,
         NEW o \in Upgraded(hd, t, TRUE, only, later)
  PROVE  CleanBoth(f, g, hd, o) /\ (o.ok /\ later = FALSE => Decided(t, FALSE, o.db))
  <1> DEFINE S == IF only THEN {Ok(hd, 0)} ELSE migrate_table_if_needed(hd, t, TRUE)
             N(k) == IF later THEN {Ok(k, 0)} ELSE GenericCheck(k, t)
  <1>1. o \in Then(S, N)
    BY Zenon DEF Upgraded
  <1>2. \A k \in HandlesOf(V) : Ok(k, 0) \in Results(V) /\ CleanBoth(f, g, k, Ok(k, 0))
    BY NothingCleanBoth
  <1>3. \A k \in HandlesOf(V) : \A q \in N(k) :
          /\ q \in Results(V) /\ CleanBoth(f, g, k, q)
          /\ q.ok /\ later = FALSE => Decided(t, FALSE, q.db)
    BY <1>2, GenericIs, ChecksClean, GenericFinds DEF Decided
  <1>4. \A e \in S : e \in Results(V) /\ CleanBoth(f, g, hd, e)
    BY <1>2, MigrateIs, MigratesClean
  <1> HIDE DEF S, N
  <1>5. PICK e \in S : (~e.ok /\ o = e) \/ \E q \in N(e.db) : Follows(e, q, o)
    BY <1>1, Zenon DEF Then, Follows
  <1>6. e \in Results(V) /\ e.db \in HandlesOf(V) /\ CleanBoth(f, g, hd, e)
    BY <1>4, ResultHolds
  <1>7. ASSUME NEW q \in N(e.db), Follows(e, q, o)
        PROVE  CleanBoth(f, g, hd, o) /\ o.db = q.db /\ o.ok = q.ok
    <2>1. q \in Results(V) /\ CleanBoth(f, g, e.db, q)
      BY <1>3, <1>6, <1>7, Zenon
    <2>2. CleanBoth(f, g, hd, o) /\ o \in Results(V) /\ Sums(e, q, o)
      BY <1>6, <1>7, <2>1, FollowsClean, Zenon
    <2>3. QED  BY <2>2 DEF Sums
  <1>8. QED  BY <1>3, <1>5, <1>6, <1>7

LEMMA MigrateDecides ==
  ASSUME NEW V, NEW hd \in HandlesOf(V), NEW t, NEW f, NEW g, NEW o \in StandardMigrate(hd, t, TRUE)
  PROVE  /\ CleanBoth(f, g, hd, o)
         /\ Kind(hd, t) \notin ORDERED_MASTER => Deciding(t, FALSE, hd, o)
  <1> DEFINE only == Kind(hd, t) \in NONADDITIVE_STANDARD
             later == Kind(hd, t) \in ORDERED_MASTER
             F(k) == Upgraded(k, t, TRUE, only, later)
             N(e) == IF e.ok /\ e.db.p.seen.cat[t].there THEN F(e.db) ELSE {Ok(e.db, 0)}
  <1>1. StandardMigrate(hd, t, TRUE) =
          UNION {{[q EXCEPT !.faults = @ + e.faults] : q \in N(e)} : e \in OnPrimary(hd, fetch)}
    BY Zenon DEF StandardMigrate, IfThere, Upgraded, GenericCheck
  <1> HIDE DEF only, later
  <1>0. \A k \in HandlesOf(V) : \A q \in F(k) :
          q \in Results(V) /\ CleanBoth(f, g, k, q) /\ (q.ok /\ later = FALSE => Decided(t, FALSE, q.db))
    <2>1. \A k \in HandlesOf(V) : \A q \in F(k) : q \in Results(V)
      BY UpgradedTableIs, Zenon
    <2>2. \A k \in HandlesOf(V) : \A q \in F(k) :
            CleanBoth(f, g, k, q) /\ (q.ok /\ later = FALSE => Decided(t, FALSE, q.db))
      BY UpgradedTableDecides, Zenon
    <2>3. QED  BY <2>1, <2>2
  <1> HIDE DEF F
  <1>2. \A e : e.db \in HandlesOf(V) =>
          \A q \in N(e) :
            \/ /\ q \in Results(V) /\ CleanBoth(f, g, e.db, q)
               /\ q.ok /\ later = FALSE => Decided(t, FALSE, q.db)
            \/ q = Ok(e.db, 0) /\ ~(e.ok /\ e.db.p.seen.cat[t].there)
    BY <1>0
  <1> HIDE DEF N
  <1>3. PICK e \in OnPrimary(hd, fetch) : o \in {[q EXCEPT !.faults = @ + e.faults] : q \in N(e)}
    BY <1>1, Zenon
  <1>4. PICK q \in N(e) : After(e, q, o)
    BY <1>3, Zenon DEF After
  <1>5. e \in Results(V) /\ e.db \in HandlesOf(V) /\ Glanced(f, g, hd, e)
    BY <1>3, FetchIs, FetchGlances, ResultHolds
  <1>6. Ok(e.db, 0).db = e.db
    BY DEF Ok
  <1>7. \/ /\ q \in Results(V) /\ CleanBoth(f, g, e.db, q)
           /\ q.ok /\ later = FALSE => Decided(t, FALSE, q.db)
        \/ q = Ok(e.db, 0) /\ ~(e.ok /\ e.db.p.seen.cat[t].there)
    BY <1>2, <1>4, <1>5, Zenon
  <1>8. q \in Results(V) /\ CleanBoth(f, g, e.db, q)
    BY <1>5, <1>7, NothingCleanBoth, Zenon
  <1>9. e.ok /\ q.ok /\ later = FALSE => Decided(t, FALSE, q.db)
    BY <1>6, <1>7 DEF Decided
  <1>10. CleanBoth(f, g, hd, o) /\ Sums(e, q, o)
    BY <1>4, <1>5, <1>8, GlancedClean, Zenon
  <1>11. Kind(hd, t) \notin ORDERED_MASTER => later = FALSE
    BY DEF later
  <1>12. later = FALSE => Deciding(t, FALSE, hd, o)
    BY <1>5, <1>9, <1>10 DEF Glanced, Deciding, Sums
  <1>13. QED  BY <1>10, <1>11, <1>12, Zenon

\* Closing what the preparation opened.
LEMMA CloseCreatedClean ==
  ASSUME NEW V, NEW hd \in HandlesOf(V), NEW snap, NEW f, NEW g, NEW o \in CloseCreated(hd, snap)
  PROVE  CleanBoth(f, g, hd, o)
  <1> DEFINE F(b) == Closes(snap.p, b)
             G(b) == Closes(snap.s, b)
             S(k) == IF k.dual /\ k.s.open THEN OnSecondary(k, G) ELSE {Ok(k, 0)}
             Second(k, x) == {[d EXCEPT !.ok = @ /\ x] : d \in S(k)}
  <1>1. CloseCreated(hd, snap) =
          UNION {{[q EXCEPT !.faults = @ + e.faults] : q \in Second(e.db, e.ok)}
                 : e \in OnPrimary(hd, F)}
    BY Zenon DEF CloseCreated, Closes, Recovers
  <1>2. \A e \in OnPrimary(hd, F) : \E q \in Closes(snap.p, hd.p) : FromPrimary(hd, q, e)
    BY Zenon DEF OnPrimary, FromPrimary
  <1>3. \A k : \A d \in S(k) :
          \/ d = Ok(k, 0)
          \/ k.dual /\ \E q \in Closes(snap.s, k.s) : FromSecondary(k, q, d)
    BY Zenon DEF OnSecondary, FromSecondary
  <1> HIDE DEF F, G, S
  <1>4. PICK e \in OnPrimary(hd, F) :
          o \in {[q EXCEPT !.faults = @ + e.faults] : q \in Second(e.db, e.ok)}
    BY <1>1, Zenon
  <1>5. PICK d \in S(e.db) :
          \E r : r = [d EXCEPT !.ok = @ /\ e.ok] /\ o = [r EXCEPT !.faults = @ + e.faults]
    BY <1>4, Zenon
  <1>6. PICK q \in Closes(snap.p, hd.p) : FromPrimary(hd, q, e)
    BY <1>2
  <1>7. /\ q \in Outcomes(V) /\ Moved(hd.p, q.db)
        /\ Well(hd.p) /\ q.ok /\ q.faults = 0 => Well(q.db)
    BY <1>6, HandleHolds, ClosesIs, ClosesMoves DEF SafeSessions
  <1>8. /\ e \in Results(V) /\ e.db \in HandlesOf(V) /\ e.ok = q.ok /\ e.faults = q.faults
        /\ e.db.p = q.db /\ e.db.s = hd.s /\ e.db.dual = hd.dual
    BY <1>6, <1>7, PrimaryTaken
  <1>9. CleanBoth(f, g, hd, e)
    <2>1. Steady(f, hd.p, q.db)
      BY <1>7, MovedSteady
    <2>2. QED  BY <1>7, <1>8, <2>1 DEF CleanBoth, SteadyBoth, Steady
  <1>10. d \in Results(V) /\ CleanBoth(f, g, e.db, d)
    <2>1. CASE d = Ok(e.db, 0)
      BY <1>8, <2>1, NothingCleanBoth
    <2>2. CASE e.db.dual /\ \E r \in Closes(snap.s, e.db.s) : FromSecondary(e.db, r, d)
      <3>1. e.db.dual /\ \E r \in Closes(snap.s, e.db.s) : FromSecondary(e.db, r, d)
        BY <2>2
      <3>2. PICK r \in Closes(snap.s, e.db.s) : FromSecondary(e.db, r, d)
        BY <3>1
      <3>3. r \in Outcomes(V) /\ Moved(e.db.s, r.db)
        BY <1>8, <3>2, HandleHolds, ClosesIs, ClosesMoves DEF SafeSessions
      <3>4. /\ d \in Results(V) /\ d.db \in HandlesOf(V) /\ d.ok = r.ok /\ d.faults = r.faults
            /\ d.db.p = e.db.p /\ d.db.s = r.db /\ d.db.dual = e.db.dual
        BY <1>8, <3>1, <3>2, <3>3, SecondaryTaken, Zenon
      <3>5. Steady(g, e.db.s, r.db)
        BY <3>3, MovedSteady
      <3>6. QED  BY <3>4, <3>5 DEF CleanBoth, SteadyBoth, Steady
    <2>3. QED  BY <1>3, <1>5, <2>1, <2>2
  <1>11. o.db = d.db /\ (o.ok /\ o.faults = 0 => d.ok /\ d.faults = 0 /\ e.ok /\ e.faults = 0)
    <2>1. PICK r : r = [d EXCEPT !.ok = @ /\ e.ok] /\ o = [r EXCEPT !.faults = @ + e.faults]
      BY <1>5
    <2> DEFINE x == d.ok /\ e.ok
    <2>2. x \in BOOLEAN
      BY <1>8, <1>10, ResultHolds
    <2>3. r = [d EXCEPT !.ok = x]
      BY <2>1
    <2> HIDE DEF x
    <2>4. r \in Results(V) /\ r.db = d.db /\ r.ok = x /\ r.faults = d.faults
      BY <1>10, <2>2, <2>3, Zenon DEF Results
    <2>5. e.faults \in Nat /\ r.faults \in Nat
      BY <1>8, <2>4, ResultHolds
    <2>6. o.db = r.db /\ o.ok = r.ok /\ o.faults = r.faults + e.faults
      BY <2>1, <2>4, <2>5, CountedFaults
    <2>7. o.faults = 0 => d.faults = 0 /\ e.faults = 0
      BY <2>4, <2>5, <2>6
    <2>8. o.ok => d.ok /\ e.ok
      BY <2>4, <2>6, Zenon DEF x
    <2>9. QED  BY <2>4, <2>6, <2>7, <2>8, Zenon
  <1>12. QED  BY <1>9, <1>10, <1>11, SteadyBothOn DEF CleanBoth

\* A step of the preparation that returns did so without being undone.
LEMMA CloseAfterReturns ==
  ASSUME NEW S, NEW snap, NEW o \in CloseAfter(S, snap), o.ok
  PROVE  o \in S
  <1>1. PICK e \in S : IF e.ok THEN o = e
                       ELSE \E q \in CloseCreated(e.db, snap) : o = Err(q.db, e.faults + q.faults)
    BY Zenon DEF CloseAfter, Handling
  <1>2. \A x, n : ~Err(x, n).ok
    BY DEF Err
  <1>3. QED  BY <1>1, <1>2

\* A row, whatever becomes of it on either database: no column is added.
SteadyCall(V, f, b, q) == b \in SafeSessions(V) => q \in Outcomes(V) /\ Steady(f, b, q.db)
MirrorsSteady(V, f, g, hd, o) ==
    \E q, e : /\ SteadyCall(V, f, hd.p, q) /\ FromPrimary(hd, q, e)
              /\ \/ ~e.ok /\ o = e
                 \/ ~hd.dual /\ Follows(e, Ok(e.db, 0), o)
                 \/ hd.dual /\ \E r, k, d : /\ SteadyCall(V, g, e.db.s, r) /\ FromSecondary(e.db, r, k)
                                            /\ Mirror(e.db, k, d) /\ Follows(e, d, o)

LEMMA MirroredSteady ==
  ASSUME NEW V, NEW hd \in HandlesOf(V), NEW f, NEW g, NEW o, MirrorsSteady(V, f, g, hd, o)
  PROVE  SteadyBoth(f, g, hd, o.db)
  <1>1. PICK q, e : /\ SteadyCall(V, f, hd.p, q) /\ FromPrimary(hd, q, e)
                    /\ \/ ~e.ok /\ o = e
                       \/ ~hd.dual /\ Follows(e, Ok(e.db, 0), o)
                       \/ hd.dual /\ \E r, k, d :
                            /\ SteadyCall(V, g, e.db.s, r) /\ FromSecondary(e.db, r, k)
                            /\ Mirror(e.db, k, d) /\ Follows(e, d, o)
    BY Zenon DEF MirrorsSteady
  <1>2. q \in Outcomes(V) /\ Steady(f, hd.p, q.db)
    BY <1>1, HandleHolds DEF SteadyCall
  <1>3. /\ e \in Results(V) /\ e.db \in HandlesOf(V)
        /\ e.db.p = q.db /\ e.db.s = hd.s /\ e.db.dual = hd.dual
    BY <1>1, <1>2, PrimaryTaken
  <1>4. SteadyBoth(f, g, hd, e.db)
    BY <1>2, <1>3 DEF SteadyBoth, Steady
  <1>5. CASE Follows(e, Ok(e.db, 0), o)
    <2>1. Ok(e.db, 0) \in Results(V) /\ Ok(e.db, 0).db = e.db
      BY <1>3 DEF Ok, Results
    <2>2. o.db = e.db
      BY <1>3, <1>5, <2>1, FollowsIs
    <2>3. QED  BY <1>4, <2>2
  <1>6. CASE hd.dual /\ \E r, k, d : /\ SteadyCall(V, g, e.db.s, r) /\ FromSecondary(e.db, r, k)
                                     /\ Mirror(e.db, k, d) /\ Follows(e, d, o)
    <2>1. /\ e.db.dual
          /\ \E r, k, d : /\ SteadyCall(V, g, e.db.s, r) /\ FromSecondary(e.db, r, k)
                          /\ Mirror(e.db, k, d) /\ Follows(e, d, o)
      BY <1>3, <1>6
    <2>2. PICK r, k, d : /\ SteadyCall(V, g, e.db.s, r) /\ FromSecondary(e.db, r, k)
                         /\ Mirror(e.db, k, d) /\ Follows(e, d, o)
      BY <2>1
    <2>3. r \in Outcomes(V) /\ Steady(g, e.db.s, r.db)
      BY <1>3, <2>2, HandleHolds DEF SteadyCall
    <2>4. /\ k \in Results(V) /\ k.db \in HandlesOf(V) /\ k.ok = r.ok /\ k.faults = r.faults
          /\ k.db.p = e.db.p /\ k.db.s = r.db /\ k.db.dual = e.db.dual
      BY <1>3, <2>1, <2>2, <2>3, SecondaryTaken, Zenon
    <2>5. SteadyBoth(f, g, e.db, k.db)
      BY <2>3, <2>4 DEF SteadyBoth, Steady
    <2> DEFINE m == OutOfSync(k.db)
               x == ~e.db.active
    <2>6. Holds(V, k.db, k.db.p, k.db.s, m) /\ x \in BOOLEAN
      BY <2>4, OutOfSyncIs
    <2>7. d = k \/ d = [k EXCEPT !.db = m, !.ok = x]
      BY <2>2 DEF Mirror
    <2> HIDE DEF m, x
    <2>8. d \in Results(V) /\ (d.db = k.db \/ d.db = m)
      BY <2>4, <2>6, <2>7, Zenon DEF Results, Holds
    <2>9. SteadyBoth(f, g, k.db, m)
      BY <2>6, SteadySame DEF Holds
    <2>10. SteadyBoth(f, g, e.db, d.db)
      BY <2>5, <2>8, <2>9, SteadyBothOn
    <2>11. o.db = d.db
      BY <1>3, <2>2, <2>8, FollowsIs
    <2>12. QED  BY <1>4, <2>10, <2>11, SteadyBothOn
  <1>7. QED  BY <1>1, <1>4, <1>5, <1>6

LEMMA WritesSteady ==
  ASSUME NEW V, NEW hd \in HandlesOf(V), NEW t \in V, NEW f, NEW g, NEW o \in Writes(hd, t)
  PROVE  SteadyBoth(f, g, hd, o.db)
  <1> DEFINE F(b) == upsert(b, t)
             Second(k) == {IF q.ok THEN q
                           ELSE [q EXCEPT !.db = OutOfSync(q.db), !.ok = ~k.active]
                           : q \in OnSecondary(k, F)}
             N(k) == IF hd.dual THEN Second(k) ELSE {Ok(k, 0)}
  <1>1. o \in Then(OnPrimary(hd, F), N)
    BY Zenon DEF Writes, Mirrored
  <1>2. \A x, b : \A q \in F(b) : SteadyCall(V, x, b, q)
    BY Upserts, UpsertSteady DEF SteadyCall
  <1> HIDE DEF F
  <1>3. \A e \in OnPrimary(hd, F) : \E q : SteadyCall(V, f, hd.p, q) /\ FromPrimary(hd, q, e)
    BY <1>2, Zenon DEF OnPrimary, FromPrimary
  <1>4. \A k : \A d \in N(k) : \/ ~hd.dual /\ d = Ok(k, 0)
                               \/ hd.dual /\ \E r, q : /\ SteadyCall(V, g, k.s, r) /\ FromSecondary(k, r, q)
                                                       /\ Mirror(k, q, d)
    BY <1>2, Zenon DEF OnSecondary, FromSecondary, Mirror
  <1> HIDE DEF N
  <1>5. PICK e \in OnPrimary(hd, F) : (~e.ok /\ o = e) \/ \E d \in N(e.db) : Follows(e, d, o)
    BY <1>1, Zenon DEF Then, Follows
  <1>6. MirrorsSteady(V, f, g, hd, o)
    BY <1>3, <1>4, <1>5, Zenon DEF MirrorsSteady
  <1>7. QED  BY <1>6, MirroredSteady

\* A verification, whatever it finds.
LEMMA LooksSteady ==
  ASSUME NEW V, NEW f, NEW b, NEW q, Looks(b, q)
  PROVE  SteadyCall(V, f, b, q)
  <1> SUFFICES ASSUME b \in SafeSessions(V)
               PROVE  q \in Outcomes(V) /\ Steady(f, b, q.db)
    BY DEF SteadyCall
  <1>1. q \in Outcomes(V)
    BY LooksIs DEF Safely
  <1>2. PICK x \in fetch(b) : q = x \/ q = Err(x.db, x.faults)
    BY DEF Looks
  <1>3. Steady(f, b, x.db)
    BY <1>2, FetchSteady DEF SafeSessions
  <1>4. Err(x.db, x.faults).db = x.db
    BY DEF Err
  <1>5. QED  BY <1>1, <1>2, <1>3, <1>4

LEMMA ChecksSteady ==
  ASSUME NEW V, NEW hd \in HandlesOf(V), NEW f, NEW g, NEW o, Checks(hd, o)
  PROVE  SteadyBoth(f, g, hd, o.db)
  <1>1. PICK q, e : /\ SteadyCall(V, f, hd.p, q) /\ FromPrimary(hd, q, e)
                    /\ \/ o = e \/ Follows(e, Ok(e.db, 0), o)
                       \/ e.db.dual /\ \E r, k : /\ SteadyCall(V, g, e.db.s, r)
                                                 /\ FromSecondary(e.db, r, k) /\ Follows(e, k, o)
    BY LooksSteady, Zenon DEF Checks
  <1>2. q \in Outcomes(V) /\ Steady(f, hd.p, q.db)
    BY <1>1, HandleHolds DEF SteadyCall
  <1>3. /\ e \in Results(V) /\ e.db \in HandlesOf(V)
        /\ e.db.p = q.db /\ e.db.s = hd.s /\ e.db.dual = hd.dual
    BY <1>1, <1>2, PrimaryTaken
  <1>4. SteadyBoth(f, g, hd, e.db)
    BY <1>2, <1>3 DEF SteadyBoth, Steady
  <1>5. CASE Follows(e, Ok(e.db, 0), o)
    <2>1. Ok(e.db, 0) \in Results(V) /\ Ok(e.db, 0).db = e.db
      BY <1>3 DEF Ok, Results
    <2>2. o.db = e.db
      BY <1>3, <1>5, <2>1, FollowsIs
    <2>3. QED  BY <1>4, <2>2
  <1>6. CASE e.db.dual /\ \E r, k : /\ SteadyCall(V, g, e.db.s, r)
                                    /\ FromSecondary(e.db, r, k) /\ Follows(e, k, o)
    <2>1. /\ e.db.dual
          /\ \E r, k : SteadyCall(V, g, e.db.s, r) /\ FromSecondary(e.db, r, k) /\ Follows(e, k, o)
      BY <1>6
    <2>2. PICK r, k : SteadyCall(V, g, e.db.s, r) /\ FromSecondary(e.db, r, k) /\ Follows(e, k, o)
      BY <2>1
    <2>3. r \in Outcomes(V) /\ Steady(g, e.db.s, r.db)
      BY <1>3, <2>2, HandleHolds DEF SteadyCall
    <2>4. /\ k \in Results(V) /\ k.db \in HandlesOf(V) /\ k.ok = r.ok /\ k.faults = r.faults
          /\ k.db.p = e.db.p /\ k.db.s = r.db /\ k.db.dual = e.db.dual
      BY <1>3, <2>1, <2>2, <2>3, SecondaryTaken, Zenon
    <2>5. SteadyBoth(f, g, e.db, k.db)
      BY <2>3, <2>4 DEF SteadyBoth, Steady
    <2>6. o.db = k.db
      BY <1>3, <2>2, <2>4, FollowsIs
    <2>7. QED  BY <1>4, <2>5, <2>6, SteadyBothOn
  <1>7. QED  BY <1>1, <1>4, <1>5, <1>6

LEMMA RowWrittenSteady ==
  ASSUME NEW V, NEW hd \in HandlesOf(V), NEW t, NEW f, NEW g, NEW o \in RowWritten(V, hd, t)
  PROVE  SteadyBoth(f, g, hd, o.db)
  <1> DEFINE N(k) == Writes(k, t)
  <1>1. o \in Then(Verified(V, hd, t), N)
    BY Zenon DEF RowWritten
  <1>2. \A k \in HandlesOf(V \cup {t}) :
          \A q \in N(k) : q \in Results(V \cup {t}) /\ SteadyBoth(f, g, k, q.db)
    BY WritesIs, WritesSteady
  <1> HIDE DEF N
  <1>3. PICK e \in Verified(V, hd, t) : (~e.ok /\ o = e) \/ \E q \in N(e.db) : Follows(e, q, o)
    BY <1>1, Zenon DEF Then, Follows
  <1>4. e \in Results(V) /\ SteadyBoth(f, g, hd, e.db) /\ (e.ok => e \in Results(V \cup {t}))
    <2>1. CASE t \in V
      <3>1. e = Ok(hd, 0)
        BY <1>3, <2>1, Zenon DEF Verified
      <3>2. V = V \cup {t}
        BY <2>1
      <3>3. Ok(hd, 0) \in Results(V) /\ Ok(hd, 0).db = hd
        BY DEF Ok, Results
      <3>4. QED  BY <3>1, <3>2, <3>3, SteadySame
    <2>2. CASE t \notin V
      <3>1. e \in RowCheck(hd, t)
        BY <1>3, <2>2 DEF Verified
      <3>2. Checks(hd, e)
        BY <3>1, RowChecks
      <3>3. QED  BY <3>1, <3>2, RowCheckIs, ChecksSteady
    <2>3. QED  BY <2>1, <2>2
  <1>5. CASE \E q \in N(e.db) : Follows(e, q, o)
    <2>1. PICK q \in N(e.db) : Follows(e, q, o)
      BY <1>5
    <2>2. e \in Results(V \cup {t}) /\ e.db \in HandlesOf(V \cup {t})
      BY <1>4, <2>1, ResultHolds DEF Follows
    <2>3. q \in Results(V \cup {t}) /\ SteadyBoth(f, g, e.db, q.db)
      BY <1>2, <2>1, <2>2
    <2>4. o.db = q.db
      BY <2>1, <2>2, <2>3, FollowsIs
    <2>5. QED  BY <1>4, <2>3, <2>4, SteadyBothOn
  <1>6. QED  BY <1>3, <1>4, <1>5

\* A commit of both.
LEMMA CommitSteady ==
  ASSUME NEW V, NEW hd \in HandlesOf(V), NEW f, NEW g, NEW o \in Commit(hd)
  PROVE  SteadyBoth(f, g, hd, o.db)
  <1> DEFINE Second(k) ==
               {Ok([e.db EXCEPT !.active = FALSE, !.sync = @ /\ e.ok], e.faults)
                : e \in OnSecondary(k, commit)}
             Next2(k) == IF hd.dual THEN Second(k) ELSE {Ok(k, 0)}
  <1>1. \E e \in OnPrimary(hd, commit) :
          (~e.ok /\ o = e) \/ \E q \in Next2(e.db) : Follows(e, q, o)
    <2>1. o \in Then(OnPrimary(hd, commit), Next2)
      BY Zenon DEF Commit
    <2> HIDE DEF Next2
    <2>2. QED  BY <2>1, Zenon DEF Then, Follows
  <1>2. ASSUME NEW e \in OnPrimary(hd, commit)
        PROVE  /\ e \in Results(V) /\ e.db \in HandlesOf(V) /\ e.db.dual = hd.dual
               /\ SteadyBoth(f, g, hd, e.db)
    <2>1. PICK q \in commit(hd.p) : FromPrimary(hd, q, e)
      BY <1>2, Zenon DEF OnPrimary, FromPrimary
    <2>2. q \in Outcomes(V) /\ Moved(hd.p, q.db)
      BY <2>1, HandleHolds, Commits, CommitMoves
    <2>3. Steady(f, hd.p, q.db)
      BY <2>2, MovedSteady
    <2>4. /\ e \in Results(V) /\ e.db \in HandlesOf(V)
          /\ e.db.p = q.db /\ e.db.s = hd.s /\ e.db.dual = hd.dual
      BY <2>1, <2>2, PrimaryTaken
    <2>5. QED  BY <2>3, <2>4 DEF SteadyBoth, Steady
  <1>3. ASSUME NEW k \in HandlesOf(V), k.dual, NEW e \in Second(k)
        PROVE  e \in Results(V) /\ SteadyBoth(f, g, k, e.db)
    <2>1. PICK d \in OnSecondary(k, commit) :
            e = Ok([d.db EXCEPT !.active = FALSE, !.sync = @ /\ d.ok], d.faults)
      BY <1>3, Zenon
    <2>2. PICK q \in commit(k.s) : FromSecondary(k, q, d)
      BY <2>1, Zenon DEF OnSecondary, FromSecondary
    <2> HIDE DEF Second
    <2>3. q \in Outcomes(V) /\ Moved(k.s, q.db) /\ k.dual
      BY <1>3, <2>2, HandleHolds, Commits, CommitMoves
    <2>4. /\ d \in Results(V) /\ d.db \in HandlesOf(V) /\ d.ok = q.ok /\ d.faults = q.faults
          /\ d.db.p = k.p /\ d.db.s = q.db /\ d.db.dual = k.dual
      BY <2>2, <2>3, SecondaryTaken, Zenon
    <2>5. SteadyBoth(f, g, k, d.db)
      <3>1. Steady(g, k.s, q.db)
        BY <2>3, MovedSteady
      <3>2. QED  BY <2>4, <3>1 DEF SteadyBoth, Steady
    <2>6. d.ok \in BOOLEAN /\ d.faults \in Nat
      BY <2>4, ResultHolds
    <2> DEFINE m == [d.db EXCEPT !.active = FALSE, !.sync = @ /\ d.ok]
    <2>7. m \in HandlesOf(V)
      BY <2>4, <2>6, NotedIs, Zenon
    <2>8. m.p = d.db.p /\ m.s = d.db.s /\ m.dual = d.db.dual
      BY <2>4, <2>6, NotedSpares, Zenon
    <2>9. e = Ok(m, d.faults)
      BY <2>1
    <2> HIDE DEF m
    <2>10. e \in Results(V) /\ e.db = m
      BY <2>6, <2>7, <2>9 DEF Ok, Results
    <2>11. QED  BY <2>5, <2>8, <2>10, SteadySame, SteadyBothOn
  <1> HIDE DEF Second
  <1>4. PICK e \in OnPrimary(hd, commit) :
          (~e.ok /\ o = e) \/ \E q \in Next2(e.db) : Follows(e, q, o)
    BY <1>1
  <1>5. /\ e \in Results(V) /\ e.db \in HandlesOf(V) /\ e.db.dual = hd.dual
        /\ SteadyBoth(f, g, hd, e.db)
    BY <1>2, <1>4
  <1>6. CASE \E q \in Next2(e.db) : Follows(e, q, o)
    <2>1. PICK q \in Next2(e.db) : Follows(e, q, o)
      BY <1>6
    <2>2. q \in Results(V) /\ SteadyBoth(f, g, e.db, q.db)
      <3>1. CASE q \in Second(e.db) /\ hd.dual
        <4>1. q \in Second(e.db) /\ e.db.dual
          BY <1>5, <3>1
        <4>2. QED  BY <1>3, <1>5, <4>1
      <3>2. CASE q = Ok(e.db, 0)
        <4>1. q \in Results(V) /\ q.db = e.db
          BY <1>5, <3>2 DEF Ok, Results
        <4>2. QED  BY <4>1, SteadySame
      <3>3. QED  BY <2>1, <3>1, <3>2
    <2>3. o.db = q.db
      BY <1>5, <2>1, <2>2, FollowsIs
    <2>4. QED  BY <1>5, <2>2, <2>3, SteadyBothOn
  <1>7. QED  BY <1>4, <1>5, <1>6

-----------------------------------------------------------------------------
\* From the sessions to the invariant.

\* A call that is steady on both databases, seen from what they had before it.
LEMMA SteadyKeeps ==
  ASSUME NEW hd, Even(hd.p), Even(hd.s), NEW k,
         SteadyBoth(hd.p.store.cat, hd.s.store.cat, hd, k)
  PROVE  /\ Even(k.p) /\ Even(k.s)
         /\ \A t \in Tables : /\ Kind(k, t) = Kind(hd, t) /\ Decides(k, t) = Decides(hd, t)
                              /\ Fit(hd, t) => Fit(k, t)
  <1>1. ASSUME NEW b, Even(b)
        PROVE  Held(b.store.cat, b)
    BY <1>1 DEF Held, Within, Even, Finer
  <1>2. Held(hd.p.store.cat, k.p) /\ Held(hd.s.store.cat, k.s) /\ k.dual = hd.dual
        /\ (k.p.open => hd.p.open) /\ (k.s.open => hd.s.open)
    BY <1>1 DEF SteadyBoth, Steady
  <1>3. ASSUME NEW t \in Tables
        PROVE  Finer(hd.p.store.cat[t], k.p.store.cat[t]) /\ Finer(hd.s.store.cat[t], k.s.store.cat[t])
    BY <1>2 DEF Held, Within
  <1>4. ASSUME NEW t \in Tables
        PROVE  /\ Kind(k, t) = Kind(hd, t)
               /\ k.p.store.cat[t].there = hd.p.store.cat[t].there
    BY <1>3 DEF Finer, Kind
  <1>5. ASSUME NEW t \in Tables, Fit(hd, t)
        PROVE  Fit(k, t)
    <2> DEFINE later == Kind(hd, t) \in ORDERED_MASTER
    <2> SUFFICES ASSUME k.p.store.cat[t].there, NEW b \in OpenTargets(k)
                 PROVE  verify_table_schema(b.store.cat[t], later, later)
      BY <1>4 DEF Fit
    <2>1. ASSUME NEW c \in OpenTargets(hd)
          PROVE  verify_table_schema(c.store.cat[t], later, later)
      BY <1>4, <1>5, <2>1 DEF Fit
    <2> HIDE DEF later
    <2>2. CASE b = k.p
      <3>1. hd.p \in OpenTargets(hd)
        BY <1>2, <2>2 DEF OpenTargets, Targets
      <3>2. QED  BY <1>3, <2>1, <2>2, <3>1, FinerFits
    <2>3. CASE k.dual /\ b = k.s
      <3>1. hd.s \in OpenTargets(hd)
        BY <1>2, <2>3 DEF OpenTargets, Targets
      <3>2. QED  BY <1>3, <2>1, <2>3, <3>1, FinerFits
    <2>4. QED  BY <2>2, <2>3 DEF OpenTargets, Targets
  <1>6. QED  BY <1>2, <1>4, <1>5 DEF Held, Decides

\* A table the preparation decided on.
LEMMA DecidedFits ==
  ASSUME NEW k, Even(k.p), Even(k.s), NEW t \in Tables, NEW later,
         later = (Kind(k, t) \in ORDERED_MASTER), Decided(t, later, k)
  PROVE  Fit(k, t)
  <1> SUFFICES ASSUME k.p.store.cat[t].there, NEW b \in OpenTargets(k)
               PROVE  verify_table_schema(b.store.cat[t], later, later)
    BY DEF Fit
  <1>1. k.p.seen.cat[t].there
    BY DEF Even, Finer
  <1>2. Found(t, later, b) /\ b.open /\ Even(b)
    BY <1>1 DEF Decided, OpenTargets, Targets
  <1>3. verify_table_schema(b.seen.cat[t], later, later) /\ Finer(b.seen.cat[t], b.store.cat[t])
    BY <1>2 DEF Found, Even
  <1>4. QED  BY <1>3, FinerFits

\* Sessions at rest: what a process begins with, and what it leaves.
Rested(hd) == Even(hd.p) /\ Even(hd.s) /\ ~hd.p.broken /\ ~hd.p.failed

LEMMA SameEven ==
  ASSUME NEW b, b.seen = b.store
  PROVE  Even(b)
  BY DEF Even, Finer

LEMMA EndedRested ==
  ASSUME NEW V, NEW hd \in HandlesOf(V)
  PROVE  Rested(Ended(hd))
  <1> DEFINE p == Closed(hd.p)
             s == Closed(hd.s)
             k == [hd EXCEPT !.p = p, !.s = s, !.active = FALSE, !.invalid = FALSE]
  <1>1. hd.p \in SessionShapes /\ hd.s \in SessionShapes
    BY HandleHolds DEF SafeSessions
  <1>2. p.seen = p.store /\ s.seen = s.store /\ ~p.broken /\ ~p.failed
    BY <1>1, Zenon DEF SessionShapes, Closed, Fresh
  <1>3. Ended(hd) = k
    BY DEF Ended
  <1> HIDE DEF p, s
  <1>4. k.p = p /\ k.s = s
    BY Zenon DEF HandlesOf, HandleShapes
  <1> HIDE DEF k
  <1>5. QED  BY <1>2, <1>3, <1>4, SameEven DEF Rested

\* A new connection.
LEMMA ConnectRested ==
  ASSUME NEW b \in SessionShapes, NEW o \in connect(b)
  PROVE  /\ o.ok => Even(o.db) /\ ~o.db.broken /\ ~o.db.failed
         /\ ~o.ok => o.db = b
  <1> DEFINE c == [Fresh(b) EXCEPT !.open = TRUE, !.broken = FALSE]
  <1>1. c.seen = c.store /\ ~c.failed /\ ~c.broken
    BY Zenon DEF SessionShapes, Fresh
  <1>2. o = Ok(c, 0) \/ o = Err(b, 1)
    BY Zenon DEF connect
  <1> HIDE DEF c
  <1>3. QED  BY <1>1, <1>2, SameEven DEF Ok, Err

LEMMA ConnectsRested ==
  ASSUME NEW hd \in HandlesOf({}), Even(hd.s), NEW o \in Connect(hd), o.ok
  PROVE  Rested(o.db)
  <1> DEFINE a == [hd EXCEPT !.active = FALSE, !.invalid = FALSE]
             Second(g) ==
               {IF e.ok THEN e ELSE Ok(OutOfSync(e.db), e.faults) : e \in OnSecondary(g, connect)}
             Next2(g) == IF hd.dual THEN Second(g) ELSE {Ok(g, 0)}
  <1>1. a \in HandlesOf({}) /\ a.dual = hd.dual /\ a.s = hd.s
    BY FlaggedIs, Zenon
  <1>2. \E e \in OnPrimary(a, connect) :
          (~e.ok /\ o = e) \/ \E q \in Next2(e.db) : Follows(e, q, o)
    <2>1. o \in Then(OnPrimary(a, connect), Next2)
      BY Zenon DEF Connect, Second
    <2> HIDE DEF Next2, a
    <2>2. QED  BY <2>1, Zenon DEF Then, Follows
  <1> HIDE DEF a
  <1>3. PICK e \in OnPrimary(a, connect) :
          (~e.ok /\ o = e) \/ \E q \in Next2(e.db) : Follows(e, q, o)
    BY <1>2
  <1>4. PICK q \in Next2(e.db) : Follows(e, q, o)
    BY <1>3
  <1>5. /\ e \in Results({}) /\ e.ok /\ e.db \in HandlesOf({}) /\ e.db.dual = hd.dual
        /\ e.db.s = hd.s /\ Even(e.db.p) /\ ~e.db.p.broken /\ ~e.db.p.failed
    <2>1. PICK r \in connect(a.p) : FromPrimary(a, r, e)
      BY Zenon DEF OnPrimary, FromPrimary
    <2>2. a.p \in SafeSessions({}) /\ a.p \in SessionShapes
      BY <1>1, HandleHolds DEF SafeSessions
    <2>3. /\ r \in Outcomes({})
          /\ r.ok => Even(r.db) /\ ~r.db.broken /\ ~r.db.failed
      BY <2>1, <2>2, Connects, ConnectRested
    <2>4. /\ e \in Results({}) /\ e.db \in HandlesOf({}) /\ e.ok = r.ok
          /\ e.db.p = r.db /\ e.db.s = a.s /\ e.db.dual = a.dual
      BY <1>1, <2>1, <2>3, PrimaryTaken
    <2>5. e.ok
      BY <1>4 DEF Follows
    <2>6. QED  BY <1>1, <2>3, <2>4, <2>5
  <1>6. q \in Results({}) /\ q.db.p = e.db.p /\ Even(q.db.s)
    <2>1. CASE q = Ok(e.db, 0)
      BY <1>5, <2>1 DEF Ok, Results
    <2>2. CASE hd.dual /\ q \in Second(e.db)
      <3>1. PICK d \in OnSecondary(e.db, connect) :
              q = IF d.ok THEN d ELSE Ok(OutOfSync(d.db), d.faults)
        BY <2>2, Zenon
      <3>2. PICK r \in connect(e.db.s) : FromSecondary(e.db, r, d)
        BY <3>1, Zenon DEF OnSecondary, FromSecondary
      <3>3. e.db.s \in SafeSessions({}) /\ e.db.s \in SessionShapes /\ e.db.dual
        BY <1>5, <2>2, HandleHolds DEF SafeSessions
      <3>4. r \in Outcomes({}) /\ Even(r.db)
        BY <1>5, <3>2, <3>3, Connects, ConnectRested
      <3>5. /\ d \in Results({}) /\ d.ok = r.ok /\ Holds({}, e.db, e.db.p, r.db, d.db)
            /\ d.db \in HandlesOf({}) /\ d.faults \in Nat
        BY <1>5, <3>2, <3>3, <3>4, OnSecondaryIs, ResultHolds
      <3> DEFINE k == OutOfSync(d.db)
      <3>6. Holds({}, d.db, d.db.p, d.db.s, k)
        BY <3>5, OutOfSyncIs
      <3>7. (d.ok /\ q = d) \/ (~d.ok /\ q = Ok(k, d.faults))
        BY <3>1
      <3> HIDE DEF k, Second
      <3>8. CASE q = Ok(k, d.faults)
        <4>1. q \in Results({}) /\ q.db = k
          BY <3>5, <3>6, <3>8 DEF Ok, Results, Holds
        <4>2. QED  BY <3>4, <3>5, <3>6, <4>1 DEF Holds
      <3>9. CASE d.ok /\ q = d
        BY <3>4, <3>5, <3>9 DEF Holds
      <3>10. QED  BY <3>7, <3>8, <3>9
    <2>3. QED  BY <2>1, <2>2
  <1>7. o.db = q.db
    BY <1>4, <1>5, <1>6, FollowsIs
  <1>8. QED  BY <1>5, <1>6, <1>7 DEF Rested

LEMMA SituationRested ==
  ASSUME NEW c \in Cases
  PROVE  Rested(Situation(c))
  <1> DEFINE rows(cat) == [cat |-> cat, row |-> [t \in Tables |-> "none"], own |-> FALSE]
             a == rows(c.pcat)
             d == rows(c.scat)
             h == Handle(c.dual, c.p, c.s, a)
             f == Backend(c.s, d)
             g == IF c.dual THEN [h EXCEPT !.s = f] ELSE h
             x == c.dual /\ c.sopen
             p == [g.p EXCEPT !.open = TRUE]
             s == [g.s EXCEPT !.open = x]
             k == [g EXCEPT !.p = p, !.s = s]
  <1>1. g = [dual |-> c.dual, p |-> Backend(c.p, a), s |-> IF c.dual THEN f ELSE Backend(c.s, a),
             active |-> FALSE, gen |-> 0, sync |-> TRUE, invalid |-> FALSE]
    BY DEF Handle
  <1>2. Situation(c) = k
    BY <1>1, Zenon DEF Situation
  <1> HIDE DEF a, d
  <1>3. g.p = Backend(c.p, a) /\ \E r : g.s = Backend(c.s, r)
    BY <1>1 DEF f
  <1>4. k.p = p /\ k.s = s
    BY <1>1
  <1>5. ASSUME NEW w, NEW r, NEW y
        PROVE  LET b == [Backend(w, r) EXCEPT !.open = y] IN
               Even(b) /\ ~b.broken /\ ~b.failed
    <2> DEFINE b == [Backend(w, r) EXCEPT !.open = y]
    <2>1. b.seen = b.store /\ ~b.broken /\ ~b.failed
      BY Zenon DEF Backend
    <2> HIDE DEF b
    <2>2. Even(b) /\ ~b.broken /\ ~b.failed
      BY <2>1, SameEven
    <2>3. QED  BY <2>2 DEF b
  <1> HIDE DEF x, g
  <1>6. Even(p) /\ ~p.broken /\ ~p.failed /\ Even(s)
    BY <1>3, <1>5
  <1> HIDE DEF p, s, k
  <1>7. QED  BY <1>2, <1>4, <1>6 DEF Rested

\* Where a step of two sequences, one after the other, comes from.
LEMMA JoinedFrom ==
  ASSUME NEW T, NEW q \in Seq(T), NEW r \in Seq(T), NEW i \in DOMAIN (q \o r)
  PROVE  \/ i \in DOMAIN q /\ (q \o r)[i] = q[i]
         \/ \E k \in DOMAIN r : i = Len(q) + k /\ (q \o r)[i] = r[k]
  <1> DEFINE s == q \o r
             n == Len(q)
             m == Len(r)
  <1>1. /\ n \in Nat /\ m \in Nat /\ DOMAIN s = 1..(n + m) /\ DOMAIN q = 1..n /\ DOMAIN r = 1..m
        /\ \A j \in 1..n : s[j] = q[j]
        /\ \A j \in 1..m : s[n + j] = r[j]
    BY JoinedIs
  <1>2. i \in 1..(n + m)
    BY <1>1
  <1> HIDE DEF s, n, m
  <1>3. CASE i <= n
    BY <1>1, <1>2, <1>3 DEF s
  <1>4. CASE i > n
    <2>1. i - n \in 1..m /\ i = n + (i - n)
      BY <1>1, <1>2, <1>4
    <2>2. s[n + (i - n)] = r[i - n]
      BY <1>1, <2>1
    <2>3. QED  BY <1>1, <2>1, <2>2 DEF s, n
  <1>5. QED  BY <1>1, <1>2, <1>3, <1>4

LEMMA JoinedLeft ==
  ASSUME NEW T, NEW q \in Seq(T), NEW r \in Seq(T)
  PROVE  Left(q) \subseteq Left(q \o r) /\ Left(r) \subseteq Left(q \o r)
  <1>1. /\ Len(q) \in Nat /\ Len(r) \in Nat /\ DOMAIN (q \o r) = 1..(Len(q) + Len(r))
        /\ DOMAIN q = 1..Len(q) /\ DOMAIN r = 1..Len(r)
        /\ \A i \in 1..Len(q) : (q \o r)[i] = q[i]
        /\ \A i \in 1..Len(r) : (q \o r)[Len(q) + i] = r[i]
    BY JoinedIs
  <1>2. ASSUME NEW i \in DOMAIN q
        PROVE  i \in DOMAIN (q \o r) /\ (q \o r)[i] = q[i]
    BY <1>1
  <1>3. ASSUME NEW i \in DOMAIN r
        PROVE  Len(q) + i \in DOMAIN (q \o r) /\ (q \o r)[Len(q) + i] = r[i]
    BY <1>1
  <1>4. QED  BY <1>2, <1>3 DEF Left

\* The steps before ready.
Prepares(q) == \A i \in DOMAIN q : q[i].do \in {"enter", "check", "close", "upgrade"}

LEMMA PreparesOn ==
  ASSUME NEW T, NEW q \in Seq(T), Prepares(q), NEW r \in Seq(T), NEW do, Uses(r, do),
         do \in {"enter", "check", "close", "upgrade"}
  PROVE  Prepares(q \o r)
  <1>1. ASSUME NEW i \in DOMAIN (q \o r)
        PROVE  (q \o r)[i].do \in {"enter", "check", "close", "upgrade"}
    <2>1. CASE i \in DOMAIN q /\ (q \o r)[i] = q[i]
      BY <2>1 DEF Prepares
    <2>2. CASE \E k \in DOMAIN r : i = Len(q) + k /\ (q \o r)[i] = r[k]
      BY <2>2 DEF Uses
    <2>3. QED  BY <1>1, <2>1, <2>2, JoinedFrom
  <1>2. QED  BY <1>1 DEF Prepares

LEMMA ReadyOrders ==
  ASSUME NEW T, NEW q \in Seq(T), Prepares(q), NEW r \in Seq(T), Len(r) = 1, r[1].do = "ready"
  PROVE  InOrderOf(q \o r)
  <1> DEFINE s == q \o r
             n == Len(q)
  <1>1. /\ n \in Nat /\ DOMAIN s = 1..(n + 1) /\ DOMAIN q = 1..n
        /\ \A j \in 1..n : s[j] = q[j]
        /\ \A j \in 1..1 : s[n + j] = r[j]
    <2>1. /\ Len(q) \in Nat /\ DOMAIN (q \o r) = 1..(Len(q) + Len(r)) /\ DOMAIN q = 1..Len(q)
          /\ \A i \in 1..Len(q) : (q \o r)[i] = q[i]
          /\ \A i \in 1..Len(r) : (q \o r)[Len(q) + i] = r[i]
      <3> HIDE DEF s, n
      <3>1. QED  BY ONLY q \in Seq(T), r \in Seq(T), JoinedIs
    <2>2. QED  BY <2>1
  <1> HIDE DEF s, n
  <1>2. n + 1 \in DOMAIN s /\ s[n + 1].do = "ready"
    BY <1>1
  <1>3. ASSUME NEW i \in DOMAIN s
        PROVE  /\ i < n + 1 => s[i].do \in {"enter", "check", "close", "upgrade"}
               /\ ~(i > n + 1)
    BY <1>1 DEF Prepares
  <1>4. InOrderOf(s)
    BY <1>2, <1>3 DEF InOrderOf
  <1>5. QED  BY <1>4 DEF s

LEMMA OrderedOn ==
  ASSUME NEW T, NEW q \in Seq(T), InOrderOf(q), NEW r \in Seq(T), NEW do, Uses(r, do),
         do \in {"row", "commit"}
  PROVE  InOrderOf(q \o r)
  <1> DEFINE s == q \o r
             n == Len(q)
  <1>1. PICK k \in DOMAIN q :
          /\ q[k].do = "ready"
          /\ \A i \in DOMAIN q : /\ i < k => q[i].do \in {"enter", "check", "close", "upgrade"}
                                 /\ i > k => q[i].do \in {"row", "commit"}
    BY DEF InOrderOf
  <1>2. n \in Nat /\ DOMAIN q = 1..n /\ k \in DOMAIN s /\ s[k] = q[k]
    <2>1. /\ Len(q) \in Nat /\ Len(r) \in Nat /\ DOMAIN (q \o r) = 1..(Len(q) + Len(r))
          /\ DOMAIN q = 1..Len(q) /\ \A i \in 1..Len(q) : (q \o r)[i] = q[i]
      BY JoinedIs
    <2>2. QED  BY <2>1
  <1>3. ASSUME NEW i \in DOMAIN s
        PROVE  \/ i \in DOMAIN q /\ s[i] = q[i]
               \/ \E j \in DOMAIN r : j \in Nat /\ j >= 1 /\ i = n + j /\ s[i] = r[j]
    <2>1. \A j \in DOMAIN r : j \in Nat /\ j >= 1
      OBVIOUS
    <2>2. \/ i \in DOMAIN q /\ (q \o r)[i] = q[i]
          \/ \E j \in DOMAIN r : i = Len(q) + j /\ (q \o r)[i] = r[j]
      <3>1. i \in DOMAIN (q \o r)
        BY <1>3
      <3> HIDE DEF s, n
      <3>2. QED  BY <3>1, JoinedFrom
    <2>3. CASE i \in DOMAIN q /\ (q \o r)[i] = q[i]
      BY <2>3
    <2>4. CASE \E j \in DOMAIN r : i = Len(q) + j /\ (q \o r)[i] = r[j]
      <3>1. PICK j \in DOMAIN r : i = Len(q) + j /\ (q \o r)[i] = r[j]
        BY <2>4
      <3>2. j \in Nat /\ j >= 1
        BY <2>1
      <3>3. i = n + j /\ s[i] = r[j]
        BY <3>1
      <3> HIDE DEF s, n
      <3>4. QED  BY <3>2, <3>3
    <2>5. QED  BY <2>2, <2>3, <2>4
  <1> HIDE DEF s, n
  <1>4. ASSUME NEW i \in DOMAIN s
        PROVE  /\ i < k => s[i].do \in {"enter", "check", "close", "upgrade"}
               /\ i > k => s[i].do \in {"row", "commit"}
    <2>1. CASE i \in DOMAIN q /\ s[i] = q[i]
      BY <1>1, <2>1
    <2>2. CASE \E j \in DOMAIN r : j \in Nat /\ j >= 1 /\ i = n + j /\ s[i] = r[j]
      <3>1. PICK j \in DOMAIN r : j \in Nat /\ j >= 1 /\ i = n + j /\ s[i] = r[j]
        BY <2>2
      <3>2. s[i].do \in {"row", "commit"}
        BY <3>1 DEF Uses
      <3>3. ~(i < k)
        BY <1>2, <3>1
      <3>4. QED  BY <3>2, <3>3
    <2>3. QED  BY <1>3, <2>1, <2>2
  <1>5. InOrderOf(s)
    BY <1>1, <1>2, <1>4 DEF InOrderOf
  <1>6. QED  BY <1>5 DEF s

\* Each table has its step.
LEMMA ForLeft ==
  ASSUME NEW do, NEW t \in Tables
  PROVE  Step(do, t) \in Left(For(do))
  <1>1. PICK i \in DOMAIN Order : t = Order[i]
    BY DEF Tables
  <1>2. DOMAIN For(do) = DOMAIN Order /\ For(do)[i] = Step(do, t)
    BY <1>1 DEF For
  <1>3. QED  BY <1>1, <1>2 DEF Left

\* The import that commits for itself and was not prepared before.
LEMMA ScriptOrdered ==
  /\ InOrderOf(ImportScript(TRUE, FALSE))
  /\ \A h : \A t \in Tables : Decides(h, t) \in Left(ImportScript(TRUE, FALSE))
  <1> DEFINE T == Steps({"enter", "check", "close", "upgrade", "ready", "row", "commit"})
             a == Once("enter")
             b == a \o For("check")
             c == b \o Once("close")
             d == c \o For("upgrade")
             e == d \o Once("close")
             f == e \o Once("ready")
             g == f \o For("row")
             s == g \o Once("commit")
  <1>1. /\ \A do \in {"enter", "close", "ready", "commit"} :
               Once(do) \in Seq(T) /\ Uses(Once(do), do) /\ Len(Once(do)) = 1
        /\ \A do \in {"check", "upgrade", "row"} : For(do) \in Seq(T) /\ Uses(For(do), do)
    BY OnceIs, ForIs
  <1>2. Preparation = f /\ f \in Seq(T)
    <2>1. Preparation = f
      BY Zenon DEF Preparation
    <2> HIDE DEF T
    <2>2. QED  BY <1>1, <2>1, ConcatProperties
  <1>3. ImportScript(TRUE, FALSE) = s
    <2>1. ImportScript(TRUE, FALSE) = ((<<>> \o Preparation) \o For("row")) \o Once("commit")
      BY DEF ImportScript
    <2> HIDE DEF f
    <2>2. <<>> \o f = f
      BY <1>2, ConcatEmptySeq
    <2>3. QED  BY <1>2, <2>1, <2>2
  <1> HIDE DEF T
  <1>4. a \in Seq(T) /\ Prepares(a)
    BY <1>1 DEF Prepares, Uses
  <1> HIDE DEF a
  <1>5. b \in Seq(T) /\ Prepares(b) /\ Left(For("check")) \subseteq Left(b)
    BY <1>1, <1>4, PreparesOn, JoinedLeft, ConcatProperties
  <1> HIDE DEF b
  <1>6. c \in Seq(T) /\ Prepares(c) /\ Left(b) \subseteq Left(c)
    BY <1>1, <1>5, PreparesOn, JoinedLeft, ConcatProperties
  <1> HIDE DEF c
  <1>7. d \in Seq(T) /\ Prepares(d) /\ Left(c) \subseteq Left(d) /\ Left(For("upgrade")) \subseteq Left(d)
    BY <1>1, <1>6, PreparesOn, JoinedLeft, ConcatProperties
  <1> HIDE DEF d
  <1>8. e \in Seq(T) /\ Prepares(e) /\ Left(d) \subseteq Left(e)
    BY <1>1, <1>7, PreparesOn, JoinedLeft, ConcatProperties
  <1> HIDE DEF e
  <1>9. f \in Seq(T) /\ InOrderOf(f) /\ Left(e) \subseteq Left(f)
    <2>1. Once("ready") \in Seq(T) /\ Len(Once("ready")) = 1 /\ Once("ready")[1].do = "ready"
      BY <1>1 DEF Uses
    <2>2. QED  BY <1>8, <2>1, ReadyOrders, JoinedLeft, ConcatProperties
  <1> HIDE DEF f
  <1>10. g \in Seq(T) /\ InOrderOf(g) /\ Left(f) \subseteq Left(g)
    BY <1>1, <1>9, OrderedOn, JoinedLeft, ConcatProperties
  <1> HIDE DEF g
  <1>11. InOrderOf(s) /\ Left(g) \subseteq Left(s)
    BY <1>1, <1>10, OrderedOn, JoinedLeft
  <1> HIDE DEF s
  <1>12. ASSUME NEW h, NEW t \in Tables
         PROVE  Decides(h, t) \in Left(s)
    <2>1. Step("check", t) \in Left(s) /\ Step("upgrade", t) \in Left(s)
      BY <1>5, <1>6, <1>7, <1>8, <1>9, <1>10, <1>11, ForLeft
    <2>2. QED  BY <2>1 DEF Decides
  <1>13. QED  BY <1>3, <1>11, <1>12

\* What is left once the first step is done.
LEMMA OrderedTail ==
  ASSUME NEW T, NEW q \in Seq(T), q # <<>>, InOrderOf(q)
  PROVE  /\ Head(q).do \in {"enter", "check", "close", "upgrade", "ready"}
         /\ Head(q).do # "ready" => InOrderOf(Tail(q))
         /\ Head(q).do = "ready" => WritesOnly(Tail(q)) /\ \A s \in Left(q) : s.do \in {"ready", "row", "commit"}
  <1> DEFINE r == Tail(q)
  <1>1. /\ Head(q) = q[1] /\ 1 \in DOMAIN q
        /\ \A i \in DOMAIN r : i \in Nat /\ i >= 1 /\ i + 1 \in DOMAIN q /\ r[i] = q[i + 1]
    BY TailOf
  <1>2. \A k \in DOMAIN q : k \in Nat /\ k >= 1 /\ (k > 1 => k - 1 \in DOMAIN r)
    BY TailOf, HeadTailProperties
  <1> HIDE DEF r
  <1>3. PICK k \in DOMAIN q :
          /\ q[k].do = "ready"
          /\ \A i \in DOMAIN q : /\ i < k => q[i].do \in {"enter", "check", "close", "upgrade"}
                                 /\ i > k => q[i].do \in {"row", "commit"}
    BY DEF InOrderOf
  <1>4. CASE k = 1
    <2>1. \A i \in DOMAIN q : i = 1 \/ q[i].do \in {"row", "commit"}
      BY <1>2, <1>3, <1>4
    <2>2. WritesOnly(r)
      BY <1>1, <2>1 DEF WritesOnly
    <2>3. QED  BY <1>1, <1>3, <1>4, <2>1, <2>2 DEF Left, r
  <1>5. CASE k > 1
    <2>1. q[1].do \in {"enter", "check", "close", "upgrade"}
      BY <1>1, <1>3, <1>5
    <2>2. k - 1 \in DOMAIN r /\ r[k - 1] = q[k]
      BY <1>1, <1>2, <1>5
    <2>3. ASSUME NEW i \in DOMAIN r
          PROVE  /\ i < k - 1 => r[i].do \in {"enter", "check", "close", "upgrade"}
                 /\ i > k - 1 => r[i].do \in {"row", "commit"}
      BY <1>1, <1>2, <1>3, <2>3
    <2>4. InOrderOf(r)
      BY <1>3, <2>2, <2>3 DEF InOrderOf
    <2>5. QED  BY <1>1, <2>1, <2>4 DEF r
  <1>6. QED  BY <1>2, <1>4, <1>5

LEMMA WritesTail ==
  ASSUME NEW T, NEW q \in Seq(T), q # <<>>, WritesOnly(q)
  PROVE  Head(q).do \in {"row", "commit"} /\ WritesOnly(Tail(q))
  <1>1. /\ Head(q) = q[1] /\ 1 \in DOMAIN q
        /\ \A i \in DOMAIN Tail(q) : i + 1 \in DOMAIN q /\ Tail(q)[i] = q[i + 1]
    BY TailOf
  <1>2. QED  BY <1>1 DEF WritesOnly

LEMMA LeftTail ==
  ASSUME NEW T, NEW q \in Seq(T), q # <<>>
  PROVE  Left(q) \subseteq {Head(q)} \cup Left(Tail(q))
  <1>1. \A k \in DOMAIN q : k = 1 \/ (k - 1 \in DOMAIN Tail(q) /\ Tail(q)[k - 1] = q[k])
    <2>1. DOMAIN q = 1..Len(q) /\ Len(q) \in Nat /\ DOMAIN Tail(q) = 1..(Len(q) - 1)
      BY HeadTailProperties, EmptySeq
    <2>2. \A i \in DOMAIN Tail(q) : Tail(q)[i] = q[i + 1]
      BY TailOf
    <2>3. \A k \in DOMAIN q : k = 1 \/ (k - 1 \in DOMAIN Tail(q) /\ (k - 1) + 1 = k)
      BY <2>1
    <2>4. QED  BY <2>2, <2>3
  <1>2. Head(q) = q[1]
    BY TailOf
  <1>3. QED  BY <1>1, <1>2 DEF Left

-----------------------------------------------------------------------------
(***************************************************************************)
(* The steps.  Before the importer remembers that its tables are ready, a  *)
(* step that a fault disturbed either raises or leaves it unsure; after,   *)
(* only rows and the commit are left, and they add no column.              *)
(***************************************************************************)

\* What a step of the import leaves of the record.
Walks(o) ==
    /\ job'.cmd = job.cmd /\ job'.at \in {"run", "raising"}
    /\ ~job'.unsure => ~job.unsure
    /\ job'.at = "run" => o.ok /\ job'.todo = Tail(job.todo) /\ (~job'.unsure => o.faults = 0)

\* Other commands know nothing of ready.
LEMMA OthersReady ==
  ASSUME job'.cmd = job.cmd, job.cmd # "import-auto", ~ready'
  PROVE  ReadyInv'
  BY DEF ReadyInv

\* What the import that commits for itself has under way.
LEMMA AutoDoes ==
  ASSUME KeepsInv, ReadyInv, job.cmd = "import-auto", NEW do, Doing(do)
  PROVE  LET q == job.todo IN
         /\ q \in Seq(Steps(StepsOf(job.cmd))) /\ q # <<>> /\ Head(q).do = do /\ job.at = "run"
         /\ ~ready => /\ InOrderOf(q) /\ do \in {"enter", "check", "close", "upgrade", "ready"}
                      /\ do # "ready" => InOrderOf(Tail(q))
                      /\ do = "ready" => /\ WritesOnly(Tail(q))
                                         /\ \A s \in Left(q) : s.do \in {"ready", "row", "commit"}
         /\ ready => do \in {"row", "commit"} /\ WritesOnly(Tail(q))
  <1> DEFINE q == job.todo
             T == Steps(StepsOf(job.cmd))
  <1>1. q \in Seq(T) /\ q # <<>> /\ Head(q).do = do /\ job.at = "run"
    BY StandardDoes DEF Standard
  <1>2. (ready => WritesOnly(q)) /\ (~ready => InOrderOf(q))
    BY <1>1 DEF ReadyInv
  <1> HIDE DEF q, T
  <1>3. ready => do \in {"row", "commit"} /\ WritesOnly(Tail(q))
    BY <1>1, <1>2, WritesTail
  <1>4. ~ready => /\ do \in {"enter", "check", "close", "upgrade", "ready"}
                  /\ do # "ready" => InOrderOf(Tail(q))
                  /\ do = "ready" => /\ WritesOnly(Tail(q))
                                     /\ \A s \in Left(q) : s.do \in {"ready", "row", "commit"}
    BY <1>1, <1>2, OrderedTail
  <1>5. QED  BY <1>1, <1>2, <1>3, <1>4 DEF q, T

\* A step of the preparation.
LEMMA PrepareReady ==
  ASSUME KeepsInv, ReadyInv, job.cmd = "import-auto", NEW do \in {"enter", "check", "close", "upgrade"},
         Doing(do), NEW o, Walks(o), db' = o.db, ready' = ready,
         CleanBoth(db.p.store.cat, db.s.store.cat, db, o),
         \A t \in Tables : Decides(db, t) = Head(job.todo) =>
             \E later : /\ later = (Kind(db, t) \in ORDERED_MASTER)
                        /\ Deciding(t, later, db, o)
  PROVE  ReadyInv'
  <1> DEFINE q == job.todo
             T == Steps(StepsOf(job.cmd))
  <1>1. q \in Seq(T) /\ q # <<>> /\ job.at = "run" /\ ~ready /\ InOrderOf(Tail(q))
    BY AutoDoes
  <1> HIDE DEF T
  <1>2. CASE job'.at = "raising"
    BY <1>1, <1>2 DEF ReadyInv, Walks
  <1>3. CASE job'.at = "run"
    <2>1. job'.todo = Tail(q) /\ o.ok
      BY <1>3 DEF Walks
    <2>2. ASSUME ~job'.unsure
          PROVE  /\ Even(db'.p) /\ Even(db'.s) /\ Well(db'.p)
                 /\ \A t \in Tables : Decides(db', t) \notin Left(Tail(q)) => Fit(db', t)
      <3>1. ~job.unsure /\ o.faults = 0
        BY <1>3, <2>2 DEF Walks
      <3>2. Even(db.p) /\ Even(db.s) /\ Well(db.p)
            /\ \A t \in Tables : Decides(db, t) \notin Left(q) => Fit(db, t)
        BY <1>1, <3>1 DEF ReadyInv
      <3>3. SteadyBoth(db.p.store.cat, db.s.store.cat, db, o.db) /\ Well(o.db.p)
        BY <2>1, <3>1, <3>2 DEF CleanBoth
      <3>4. /\ Even(o.db.p) /\ Even(o.db.s)
            /\ \A t \in Tables : /\ Kind(o.db, t) = Kind(db, t) /\ Decides(o.db, t) = Decides(db, t)
                                 /\ Fit(db, t) => Fit(o.db, t)
        BY <3>2, <3>3, SteadyKeeps
      <3>5. ASSUME NEW t \in Tables, Decides(o.db, t) \notin Left(Tail(q))
            PROVE  Fit(o.db, t)
        <4>1. CASE Decides(db, t) = Head(q)
          <5>1. PICK later : /\ later = (Kind(db, t) \in ORDERED_MASTER)
                             /\ Deciding(t, later, db, o)
            BY <4>1
          <5>2. Decided(t, later, o.db)
            BY <2>1, <3>1, <3>2, <5>1 DEF Deciding
          <5>3. later = (Kind(o.db, t) \in ORDERED_MASTER)
            BY <3>4, <5>1
          <5>4. QED  BY <3>4, <5>2, <5>3, DecidedFits
        <4>2. CASE Decides(db, t) # Head(q)
          <5>1. Decides(db, t) \notin Left(Tail(q))
            BY <3>4, <3>5
          <5>2. Decides(db, t) \notin Left(q)
            BY <1>1, <4>2, <5>1, LeftTail
          <5>3. QED  BY <3>2, <3>4, <5>2
        <4>3. QED  BY <4>1, <4>2
      <3>6. QED  BY <3>3, <3>4, <3>5
    <2>3. QED  BY <1>1, <1>3, <2>1, <2>2 DEF ReadyInv, Walks
  <1>4. QED  BY <1>2, <1>3 DEF Walks

\* A row, or the commit.
LEMMA WriteReady ==
  ASSUME KeepsInv, ReadyInv, job.cmd = "import-auto", NEW do \in {"row", "commit"},
         Doing(do), NEW o, Walks(o), db' = o.db, ready' = ready,
         SteadyBoth(db.p.store.cat, db.s.store.cat, db, o.db)
  PROVE  ReadyInv'
  <1>1. ready /\ WritesOnly(Tail(job.todo))
    BY AutoDoes
  <1>2. ASSUME ~job'.unsure
        PROVE  Even(db'.p) /\ Even(db'.s) /\ \A t \in Tables : Fit(db', t)
    <2>1. Even(db.p) /\ Even(db.s) /\ \A t \in Tables : Fit(db, t)
      BY <1>1, <1>2 DEF ReadyInv, Walks
    <2>2. QED  BY <2>1, SteadyKeeps
  <1>3. QED  BY <1>1, <1>2 DEF ReadyInv, Walks

\* Nothing of the databases changes, and the command has come to its end.
LEMMA EndsReady ==
  ASSUME ReadyInv, job'.cmd = job.cmd, job'.at \in {"done", "raised"}, job'.unsure = job.unsure,
         job.cmd = "import-auto" => db' = db, ready' = ready
  PROVE  ReadyInv'
  <1>1. CASE job.cmd = "import-auto"
    BY <1>1 DEF ReadyInv
  <1>2. CASE job.cmd # "import-auto"
    BY <1>2, OthersReady DEF ReadyInv
  <1>3. QED  BY <1>1, <1>2

LEMMA AdvanceWalks ==
  ASSUME JobKnown, KeepsInv, job.cmd = "import-auto", NEW do, Doing(do),
         NEW V, NEW o \in Results(V), Advance(o)
  PROVE  Walks(o)
  <1>1. Moves(o)
    BY AdvanceMoves, ResultHolds DEF Doing, Standard
  <1>2. QED  BY <1>1 DEF Moves, Walks

\* Whatever happens, the command stays the same, and only one that commits for
\* itself becomes ready.
LEMMA CommandStays ==
  ASSUME JobKnown, [Next]_vars
  PROVE  job'.cmd = job.cmd /\ (ready' => ready \/ job.cmd = "import-auto")
  <1>1. ASSUME NEW o, Advance(o), NEW do, Doing(do)
        PROVE  job'.cmd = job.cmd
    BY <1>1, AdvanceStays
  <1>2. ASSUME NEW S, Do(S), NEW do, Doing(do)
        PROVE  job'.cmd = job.cmd
    BY <1>1, <1>2 DEF Do
  <1>3. CASE CallerWrites
    <2>1. PICK o : job' = IF o.ok THEN [job EXCEPT !.own = TRUE] ELSE [job EXCEPT !.at = "raised"]
      BY <1>3, Zenon DEF CallerWrites
    <2>2. QED  BY <1>3, <2>1 DEF JobKnown, CallerWrites
  <1>4. CASE Start
    <2> DEFINE todo == Script(db, job.cmd, ready)
               clean == ~db.p.broken /\ ~db.s.broken
    <2>1. job' = [job EXCEPT !.at = "run", !.todo = todo, !.failed = FALSE, !.clean = clean]
      BY <1>4 DEF Start
    <2> HIDE DEF todo, clean
    <2>2. QED  BY <1>4, <2>1 DEF Start, JobKnown
  <1>5. CASE Preflight \/ Migrate \/ BeginImport \/ CheckStandard \/ UpgradeStandard
    <2>1. ready' = ready
      BY <1>5, Zenon DEF Preflight, Migrate, BeginImport, CheckStandard, UpgradeStandard
    <2>2. QED
      BY <1>2, <1>5, <2>1, Zenon DEF Preflight, Migrate, BeginImport, CheckStandard, UpgradeStandard
  <1>6. CASE Create \/ Coupled \/ Close \/ CommitImport
    <2>1. ready' = ready
      BY <1>6, Zenon DEF Create, Coupled, Close, CommitImport
    <2>2. QED  BY <1>2, <1>6, <2>1, Zenon DEF Create, Coupled, Close, CommitImport
  <1>7. CASE Report \/ Enter \/ Ready \/ Return \/ Finished
    <2>1. job'.cmd = job.cmd
      BY <1>7 DEF Report, Enter, Ready, Return, Finished, JobKnown
    <2>2. ready' = ready \/ ready' = (ready \/ job.cmd = "import-auto")
      BY <1>7, Zenon DEF Report, Enter, Ready, ReadyNow, Return, Finished
    <2>3. ASSUME NEW x, ready' = (ready \/ x)
          PROVE  ready' => ready \/ x
      BY <2>3, Zenon
    <2>4. ready' => ready \/ job.cmd = "import-auto"
      BY <2>2, <2>3, Zenon
    <2>5. QED  BY <2>1, <2>4
  <1>8. CASE WriteRow
    <2>1. (\E o : Advance(o)) /\ Doing("row") /\ ready' = ready
      BY <1>8, Zenon DEF WriteRow
    <2>2. QED  BY <1>1, <2>1
  <1>9. CASE Fail
    BY <1>9 DEF Fail, JobKnown
  <1>10. CASE CallerEnds
    <2>1. PICK o : job' = [job EXCEPT !.at = IF o.ok THEN "idle" ELSE "raised", !.own = FALSE]
      BY <1>10, Zenon DEF CallerEnds
    <2>2. QED  BY <1>10, <2>1 DEF JobKnown, CallerEnds
  <1>11. CASE Leave \/ Crash
    <2>1. job' = [Idle EXCEPT !.cmd = job.cmd] /\ ready' = FALSE
      BY <1>11, Zenon DEF Leave, Crash
    <2>2. QED  BY <2>1 DEF Idle
  <1>12. CASE Reconnect \/ UNCHANGED vars
    BY <1>12 DEF Reconnect, vars
  <1>13. QED
    BY <1>3, <1>4, <1>5, <1>6, <1>7, <1>8, <1>9, <1>10, <1>11, <1>12, Zenon DEF Next

\* The end of a process.
LEMMA LeftReady ==
  ASSUME NEW V, NEW k \in HandlesOf(V), db' = Ended(k), job' = [Idle EXCEPT !.cmd = job.cmd], ~ready'
  PROVE  ReadyInv'
  <1>1. Rested(db')
    BY EndedRested
  <1>2. job'.at = "idle"
    BY DEF Idle
  <1>3. QED  BY <1>1, <1>2 DEF ReadyInv, Rested

LEMMA StartReady ==
  ASSUME JobKnown, ReadyInv, job.cmd = "import-auto", Start
  PROVE  ReadyInv'
  <1> DEFINE q == ImportScript(TRUE, FALSE)
             todo == Script(db, job.cmd, ready)
             clean == ~db.p.broken /\ ~db.s.broken
  <1>1. /\ job' = [job EXCEPT !.at = "run", !.todo = todo, !.failed = FALSE, !.clean = clean]
        /\ db' = db /\ ready' = ready /\ job.at = "idle" /\ db.p.open
    BY DEF Start, is_connected
  <1>2. ~ready /\ Even(db.p) /\ Even(db.s) /\ Well(db.p)
    BY <1>1 DEF ReadyInv, Well
  <1>3. todo = ImportScript(TRUE, ready)
    BY DEF Script
  <1>4. ImportScript(TRUE, ready) = q
    BY <1>2 DEF ImportScript
  <1> HIDE DEF todo, clean
  <1>5. job'.cmd = job.cmd /\ job'.at = "run" /\ job'.todo = todo
    BY <1>1 DEF JobKnown
  <1> HIDE DEF q
  <1>6. InOrderOf(q) /\ \A t \in Tables : Decides(db, t) \in Left(q)
    BY ScriptOrdered DEF q
  <1>7. QED  BY <1>1, <1>2, <1>3, <1>4, <1>5, <1>6 DEF ReadyInv

LEMMA EnterReady ==
  ASSUME JobKnown, KeepsInv, ReadyInv, job.cmd = "import-auto", Enter
  PROVE  ReadyInv'
  <1> DEFINE n == Snapshot(db)
             r == Tail(job.todo)
             o == Ok(db, 0)
  <1>1. job' = [job EXCEPT !.snap = n, !.todo = r] /\ db' = db /\ Doing("enter") /\ ready' = ready
    BY DEF Enter
  <1>2. o.db = db /\ o.ok /\ o.faults = 0
    BY DEF Ok
  <1> HIDE DEF n, r, o
  <1>3. job'.cmd = job.cmd /\ job'.at = job.at /\ job'.todo = r /\ job'.unsure = job.unsure
    BY <1>1, Zenon DEF JobKnown
  <1>4. Walks(o)
    BY <1>1, <1>2, <1>3 DEF Walks, Doing, r
  <1>5. CleanBoth(db.p.store.cat, db.s.store.cat, db, o)
    BY <1>2, SteadySame DEF CleanBoth
  <1>6. Head(job.todo).do = "enter"
    BY <1>1 DEF Doing
  <1>7. \A t \in Tables : Decides(db, t) # Head(job.todo)
    BY <1>6 DEF Decides, Step
  <1>8. QED  BY <1>1, <1>2, <1>4, <1>5, <1>7, PrepareReady

LEMMA CheckReady ==
  ASSUME JobKnown, SoundHandle, KeepsInv, ReadyInv, job.cmd = "import-auto", CheckStandard
  PROVE  ReadyInv'
  <1> DEFINE S == StandardPreflight(db, This)
             f == db.p.store.cat
             g == db.s.store.cat
  <1>1. PICK o \in CloseAfter(S, job.snap) : db' = o.db /\ Advance(o) /\ Doing("check") /\ ready' = ready
    BY Zenon DEF CheckStandard, Do, Prepared, CloseAfter, Take
  <1>2. db \in HandlesOf(verified) /\ S \subseteq Results(verified)
    BY StandardPreflightIs DEF SoundHandle
  <1>3. \A e \in S : CleanBoth(f, g, db, e) /\ Deciding(This, TRUE, db, e)
    BY <1>2, PreflightDecides
  <1> HIDE DEF S
  <1>4. o \in Results(verified) /\ (o.ok => o \in S)
    BY <1>1, <1>2, CloseAfterIs, CloseAfterReturns
  <1>5. CleanBoth(f, g, db, o) /\ Deciding(This, TRUE, db, o)
    BY <1>3, <1>4 DEF CleanBoth, Deciding
  <1>6. Walks(o)
    BY <1>1, <1>4, AdvanceWalks
  <1>7. ASSUME NEW t \in Tables, Decides(db, t) = Head(job.todo)
        PROVE  \E later : later = (Kind(db, t) \in ORDERED_MASTER) /\ Deciding(t, later, db, o)
    <2>1. Head(job.todo).do = "check"
      BY <1>1 DEF Doing
    <2>2. Kind(db, t) \in ORDERED_MASTER /\ t = This
      BY <1>7, <2>1 DEF Decides, Step, This
    <2>3. TRUE = (Kind(db, t) \in ORDERED_MASTER) /\ Deciding(t, TRUE, db, o)
      BY <1>5, <2>2
    <2>4. QED  BY <2>3
  <1>8. QED  BY <1>1, <1>5, <1>6, <1>7, PrepareReady

LEMMA UpgradeReady ==
  ASSUME JobKnown, SoundHandle, KeepsInv, ReadyInv, job.cmd = "import-auto", UpgradeStandard
  PROVE  ReadyInv'
  <1> DEFINE S == StandardMigrate(db, This, TRUE)
             f == db.p.store.cat
             g == db.s.store.cat
             settled(e) == Kind(db, This) \notin ORDERED_MASTER => Deciding(This, FALSE, db, e)
  <1>1. PICK o \in CloseAfter(S, job.snap) :
          db' = o.db /\ Advance(o) /\ Doing("upgrade") /\ ready' = ready
    <2>1. (job.cmd = "import-auto") = TRUE
      OBVIOUS
    <2>2. UpgradeStandard => /\ Doing("upgrade") /\ ready' = ready
                             /\ \E o \in CloseAfter(StandardMigrate(db, This, job.cmd = "import-auto"), job.snap) :
                                    db' = o.db /\ Advance(o)
      BY Zenon DEF UpgradeStandard, Do, Prepared, CloseAfter, Take
    <2> HIDE DEF S
    <2>3. S = StandardMigrate(db, This, job.cmd = "import-auto")
      BY <2>1, Zenon DEF S
    <2>4. QED  BY <2>2, <2>3
  <1>2. db \in HandlesOf(verified) /\ S \subseteq Results(verified)
    BY StandardMigrateIs DEF SoundHandle
  <1>3. \A e \in S : CleanBoth(f, g, db, e) /\ settled(e)
    BY <1>2, MigrateDecides
  <1> HIDE DEF S
  <1>4. o \in Results(verified) /\ (o.ok => o \in S)
    BY <1>1, <1>2, CloseAfterIs, CloseAfterReturns
  <1>5. CleanBoth(f, g, db, o) /\ settled(o)
    BY <1>3, <1>4 DEF CleanBoth, Deciding
  <1>6. Walks(o)
    BY <1>1, <1>4, AdvanceWalks
  <1>7. ASSUME NEW t \in Tables, Decides(db, t) = Head(job.todo)
        PROVE  \E later : later = (Kind(db, t) \in ORDERED_MASTER) /\ Deciding(t, later, db, o)
    <2>1. Head(job.todo).do = "upgrade"
      BY <1>1 DEF Doing
    <2>2. Kind(db, t) \notin ORDERED_MASTER /\ t = This
      BY <1>7, <2>1 DEF Decides, Step, This
    <2>3. Deciding(This, FALSE, db, o)
      BY <1>5, <2>2
    <2>4. FALSE = (Kind(db, t) \in ORDERED_MASTER)
      BY <2>2
    <2>5. QED  BY <2>2, <2>3, <2>4, Zenon
  <1>8. QED  BY <1>1, <1>5, <1>6, <1>7, PrepareReady

LEMMA CloseReady ==
  ASSUME JobKnown, SoundHandle, KeepsInv, ReadyInv, job.cmd = "import-auto", Close
  PROVE  ReadyInv'
  <1>1. PICK o \in CloseCreated(db, job.snap) :
          db' = o.db /\ Advance(o) /\ Doing("close") /\ ready' = ready
    BY Zenon DEF Close, Do, Take
  <1>2. o \in Results(verified) /\ db \in HandlesOf(verified)
    BY CloseCreatedIs DEF SoundHandle
  <1>3. CleanBoth(db.p.store.cat, db.s.store.cat, db, o)
    BY <1>2, CloseCreatedClean
  <1>4. Walks(o)
    BY <1>1, <1>2, AdvanceWalks
  <1>5. Head(job.todo).do = "close"
    BY <1>1 DEF Doing
  <1>6. \A t \in Tables : Decides(db, t) # Head(job.todo)
    BY <1>5 DEF Decides, Step
  <1>7. QED  BY <1>1, <1>3, <1>4, <1>6, PrepareReady

\* The memory itself: every table was decided on.
LEMMA FlagReady ==
  ASSUME JobKnown, KeepsInv, ReadyInv, job.cmd = "import-auto", Ready
  PROVE  ReadyInv'
  <1> DEFINE q == job.todo
             r == Tail(q)
  <1>1. job' = [job EXCEPT !.todo = r] /\ db' = db /\ Doing("ready") /\ ready'
    BY DEF Ready, ReadyNow
  <1>2. ~ready /\ job.at = "run" /\ WritesOnly(r) /\ \A s \in Left(q) : s.do \in {"ready", "row", "commit"}
    BY <1>1, AutoDoes
  <1> HIDE DEF r
  <1>3. job'.cmd = job.cmd /\ job'.at = job.at /\ job'.todo = r /\ job'.unsure = job.unsure
    BY <1>1 DEF JobKnown
  <1>4. \A t \in Tables : Decides(db, t) \notin Left(q)
    BY <1>2 DEF Decides, Step
  <1>5. ~job.unsure => Even(db.p) /\ Even(db.s) /\ \A t \in Tables : Fit(db, t)
    BY <1>2, <1>4 DEF ReadyInv
  <1>6. \A t \in Tables : Fit(db, t) => Fit(db', t)
    BY <1>1
  <1>7. QED  BY <1>1, <1>2, <1>3, <1>5, <1>6 DEF ReadyInv

LEMMA RowReady ==
  ASSUME JobKnown, SoundHandle, KeepsInv, ReadyInv, job.cmd = "import-auto", WriteRow
  PROVE  ReadyInv'
  <1>1. PICK o \in RowWritten(verified, db, This) :
          db' = o.db /\ Advance(o) /\ Doing("row") /\ ready' = ready
    BY Zenon DEF WriteRow, RowWritten, Verified, RowCheck, Writes, Take
  <1>2. db \in HandlesOf(verified) /\ o \in Results(verified)
    BY <1>1, RowWrittenIs DEF SoundHandle
  <1>3. SteadyBoth(db.p.store.cat, db.s.store.cat, db, o.db)
    BY <1>2, RowWrittenSteady
  <1>4. Walks(o)
    BY <1>1, <1>2, AdvanceWalks
  <1>5. QED  BY <1>1, <1>3, <1>4, WriteReady

LEMMA CommitReady ==
  ASSUME JobKnown, SoundHandle, KeepsInv, ReadyInv, job.cmd = "import-auto", CommitImport
  PROVE  ReadyInv'
  <1>1. PICK o \in Commit(db) : db' = o.db /\ Advance(o) /\ Doing("commit") /\ ready' = ready
    BY Zenon DEF CommitImport, Do, Take
  <1>2. o \in Results(verified) /\ db \in HandlesOf(verified)
    BY CommitIs DEF SoundHandle
  <1>3. SteadyBoth(db.p.store.cat, db.s.store.cat, db, o.db)
    BY <1>2, CommitSteady
  <1>4. Walks(o)
    BY <1>1, <1>2, AdvanceWalks
  <1>5. QED  BY <1>1, <1>3, <1>4, WriteReady

LEMMA ReconnectReady ==
  ASSUME JobKnown, SoundHandle, ReadyInv, job.cmd = "import-auto", Reconnect
  PROVE  ReadyInv'
  <1>1. PICK o \in Connect(db) : o.ok /\ db' = o.db
    BY DEF Reconnect, Take
  <1>2. job.at = "idle" /\ ~db.p.open /\ job' = job /\ ready' = ready
    BY DEF Reconnect, is_connected
  <1>3. db \in HandlesOf({}) /\ Even(db.s) /\ ~ready
    BY <1>2 DEF SoundHandle, ReadyInv
  <1>4. Rested(db')
    BY <1>1, <1>3, ConnectsRested
  <1>5. QED  BY <1>2, <1>3, <1>4 DEF ReadyInv, Rested

\* What the import that commits for itself does not do.
LEMMA AutoAvoids ==
  ASSUME KeepsInv, ReadyInv, job.cmd = "import-auto",
         NEW do \in {"preflight", "migrate", "create", "coupled", "report", "begin", "return"}
  PROVE  ~Doing(do)
  BY StandardDoes DEF StepsOf, Standard

LEMMA NextReady == JobKnown /\ SoundHandle /\ KeepsInv /\ ReadyInv /\ [Next]_vars => ReadyInv'
  <1> SUFFICES ASSUME JobKnown, SoundHandle, KeepsInv, ReadyInv, [Next]_vars  PROVE ReadyInv'
    OBVIOUS
  <1> DEFINE auto == job.cmd = "import-auto"
  <1>1. CASE ~auto
    <2>1. job'.cmd = job.cmd /\ ~ready'
      BY <1>1, CommandStays DEF ReadyInv
    <2>2. QED  BY <1>1, <2>1, OthersReady
  <1>2. CASE auto /\ (Preflight \/ Migrate \/ Create \/ Coupled \/ Report \/ BeginImport \/ Return)
    <2>1. \E do \in {"preflight", "migrate", "create", "coupled", "report", "begin", "return"} : Doing(do)
      BY <1>2 DEF Preflight, Migrate, Create, Coupled, Report, BeginImport, Return
    <2>2. QED  BY <1>2, <2>1, AutoAvoids
  <1>3. CASE auto /\ (CallerWrites \/ CallerEnds)
    BY <1>3 DEF CallerWrites, CallerEnds, KeepsInv, OwnInv
  <1>4. CASE auto /\ Start
    BY <1>4, StartReady
  <1>5. CASE auto /\ Enter
    BY <1>5, EnterReady
  <1>6. CASE auto /\ CheckStandard
    BY <1>6, CheckReady
  <1>7. CASE auto /\ UpgradeStandard
    BY <1>7, UpgradeReady
  <1>8. CASE auto /\ Close
    BY <1>8, CloseReady
  <1>9. CASE auto /\ Ready
    BY <1>9, FlagReady
  <1>10. CASE auto /\ WriteRow
    BY <1>10, RowReady
  <1>11. CASE auto /\ CommitImport
    BY <1>11, CommitReady
  <1>12. CASE auto /\ (Finished \/ Fail)
    <2>1. \E at \in {"done", "raised"} : job' = [job EXCEPT !.at = at]
      BY <1>12 DEF Finished, Fail
    <2>2. job'.cmd = job.cmd /\ job'.at \in {"done", "raised"} /\ job'.unsure = job.unsure
      BY <2>1 DEF JobKnown
    <2>3. db' = db /\ ready' = ready
      BY <1>12 DEF Finished, Fail, Take, Ok
    <2>4. QED  BY <2>2, <2>3, EndsReady
  <1>13. CASE auto /\ Leave
    <2>1. PICK o \in ContextExit(db, job.at = "raised") : db' = Ended(o.db)
      BY <1>13 DEF Leave
    <2>2. o.db \in HandlesOf(verified) /\ job' = [Idle EXCEPT !.cmd = job.cmd] /\ ~ready'
      BY <1>13, ContextExitIs, ResultHolds DEF Leave, SoundHandle
    <2> DEFINE k == o.db
    <2> HIDE DEF k
    <2>3. k \in HandlesOf(verified) /\ db' = Ended(k)
      BY <2>1, <2>2 DEF k
    <2>4. QED  BY <2>2, <2>3, LeftReady
  <1>14. CASE auto /\ Crash
    BY <1>14, LeftReady DEF Crash, SoundHandle
  <1>15. CASE auto /\ Reconnect
    BY <1>15, ReconnectReady
  <1>16. CASE UNCHANGED vars
    BY <1>16 DEF vars, ReadyInv
  <1>17. QED
    BY <1>1, <1>2, <1>3, <1>4, <1>5, <1>6, <1>7, <1>8, <1>9, <1>10, <1>11, <1>12, <1>13, <1>14,
       <1>15, <1>16, Zenon DEF Next

LEMMA InitReady == Init => ReadyInv
  <1> SUFFICES ASSUME Init  PROVE ReadyInv
    OBVIOUS
  <1>1. PICK c \in Cases :
          db = Situation(c) /\ job = [Idle EXCEPT !.cmd = c.cmd] /\ ready = FALSE
    BY DEF Init
  <1>2. Rested(db) /\ job.at = "idle"
    BY <1>1, SituationRested DEF Idle
  <1>3. QED  BY <1>1, <1>2 DEF ReadyInv, Rested

\* An importer that remembers that its tables are ready has them, durably, on
\* every database it is connected to: the migration commits what it adds before
\* the table is verified, and neither a row nor the end of what the preparation
\* opened takes a column away (_prepare_jravan_tables, _jravan_tables_ready).
THEOREM ReadyHolds == Spec => []ReadyFlagDurable
  <1>1. Init => SoundHandle /\ JobKnown /\ KeepsInv /\ ReadyInv
    BY InitIsSound, InitKeeps, InitReady
  <1>2. SoundHandle /\ JobKnown /\ KeepsInv /\ ReadyInv /\ [Next]_vars
        => (SoundHandle /\ JobKnown /\ KeepsInv /\ ReadyInv)'
    BY NextIsSound, JobStays, NextKeeps, NextReady
  <1>3. ReadyInv => ReadyFlagDurable
    <2> SUFFICES ASSUME ReadyInv, ready, ~job.unsure, NEW t \in Tables, NEW b \in OpenTargets(db),
                        db.p.store.cat[t].there, NEW later, later = (Kind(db, t) \in ORDERED_MASTER)
                 PROVE  verify_table_schema(b.store.cat[t], later, later)
      BY DEF ReadyFlagDurable
    <2>1. Fit(db, t)
      BY DEF ReadyInv
    <2>2. QED  BY <2>1 DEF Fit
  <1>4. QED  BY <1>1, <1>2, <1>3, PTL DEF Spec
=============================================================================
