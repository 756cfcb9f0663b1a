-------------------------- MODULE StorageContract --------------------------
(***************************************************************************)
(* What a stored table must look like before a record may be written to    *)
(* it: the generic verification of src/database/migration.py and the       *)
(* verifications src/importer/importer.py keeps per record type.  All of   *)
(* them are read-only predicates of the catalog of one database.           *)
(***************************************************************************)
EXTENDS Naturals, FiniteSets

Type(kind, n, s) == [kind |-> kind, n |-> n, s |-> s]
Plain(kind) == Type(kind, 0, 0)

(***************************************************************************)
(* A table of the catalog.                                                 *)
(*   kind: the record type it stores ("RA": one without a verification)    *)
(*   there: it exists;  rows: it holds rows                                *)
(*   want, type: declared and actual type of its data column; fixed: the   *)
(*     column holds codes of exactly want.n characters                     *)
(*   flaws: how it differs from its schema otherwise                       *)
(***************************************************************************)
Flaws == {"missing",     \* a nullable column is not there
          "marker",      \* the layout column of HS is not there
          "delimiter",   \* nor the column of its delimiter
          "extra",       \* a column of no schema
          "generated",   \* a generated, identity or hidden column
          "capture",     \* a capture table keyed by CollectedAt
          "key",         \* another primary key
          "keyType",     \* a key column of another type family
          "nullKey",     \* a key column that admits NULL
          "unique",      \* a further UNIQUE or exclusion index
          "deferred",    \* a deferrable primary key
          "check",       \* a CHECK or FOREIGN KEY of no schema
          "old",         \* rows without the current layout
          "orphan",      \* a child without its foreign key
          "alias"}       \* only a table of its former name is there

Has(t, flaws) == t.flaws \cap flaws # {}

\* The record types with a storage of their own, and the catalogs there may be:
\* codes of a fixed width are texts, a layout is HS's and a parent CK's or WF's.
RecordKinds == {"RA", "BT", "SE", "WE", "AV", "HR", "HS", "HC", "HN", "SK", "TC", "CC", "JC",
                "UM", "H1", "H6", "O1", "CS", "JG", "WC", "RC", "HY", "YS", "WF", "CK"}
Types == [kind : STRING, n : Nat, s : Nat]
TableStates ==
    {t \in [kind : RecordKinds, there : BOOLEAN, rows : BOOLEAN, want : Types,
            fixed : BOOLEAN, type : Types, flaws : SUBSET Flaws] :
        /\ t.fixed => t.want.kind \in {"text", "varchar", "char"}
        /\ "old" \in t.flaws => t.kind = "HS"
        /\ "orphan" \in t.flaws => t.kind \in {"CK", "WF"}}

\* What the additive migration can add.
Addable == {"missing", "marker", "delimiter"}

----------------------------------------------------------------------------
\* Types

_is_lossless_text_type(a) == a.kind \in {"text", "varchar", "char"}
Bounded(a) == a.kind \in {"varchar", "char"}

integral_rank == [smallint |-> 1, integer |-> 2, bigint |-> 3]
IsIntegral(a) == a.kind \in DOMAIN integral_rank

\* _fixed_width_text_type_is_lossless
FixedWidthHolds(actual, width) ==
    \/ actual.kind = "text"
    \/ actual.kind = "varchar" /\ actual.n >= width
    \/ actual.kind = "char" /\ actual.n = width

\* Mutant: the scale of a wider number is not compared.
MutantCompatible(actual, want) ==
    \/ actual = want
    \/ /\ want.kind \in {"varchar", "char"}
       /\ \/ actual.kind = "text"
          \/ actual.kind = "varchar" /\ actual.n >= want.n
    \/ /\ IsIntegral(actual) /\ IsIntegral(want)
       /\ integral_rank[actual.kind] >= integral_rank[want.kind]
    \/ /\ actual.kind = "numeric" /\ want.kind = "numeric"
       /\ actual.n >= want.n

\* _strict_storage_type_is_compatible: a wider type of the same family; a
\* wider CHAR pads what is read and is not one.
Compatible(actual, want) ==
    \/ actual = want
    \/ /\ want.kind \in {"varchar", "char"}
       /\ \/ actual.kind = "text"
          \/ actual.kind = "varchar" /\ actual.n >= want.n
    \/ /\ IsIntegral(actual) /\ IsIntegral(want)
       /\ integral_rank[actual.kind] >= integral_rank[want.kind]
    \/ /\ actual.kind = "numeric" /\ want.kind = "numeric"
       /\ actual.s >= want.s
       /\ actual.n + want.s >= want.n + actual.s

----------------------------------------------------------------------------
\* The checks the verifications are made of

\* Numeric columns are not looked at, extra columns are accepted.
verify_table_schema(t, allow_missing, allow_key) ==
    /\ t.there
    /\ ~Has(t, {"capture"})
    /\ allow_missing \/ ~Has(t, Addable)
    /\ allow_key \/ ~Has(t, {"key"})
    /\ _is_lossless_text_type(t.want) =>
         /\ _is_lossless_text_type(t.type)
         /\ Bounded(t.want) /\ Bounded(t.type) => t.type.n >= t.want.n

\* _verify_strict_storage_column_contract
Columns(t, allow_missing) ==
    /\ allow_missing \/ ~Has(t, Addable)
    /\ ~Has(t, {"generated", "keyType", "nullKey"})
    /\ Compatible(t.type, t.want)

\* The same with lossless_text_widths: an exact CHAR keeps a fixed-width code.
FixedColumns(t, allow_missing) ==
    /\ allow_missing \/ ~Has(t, Addable)
    /\ ~Has(t, {"generated", "keyType", "nullKey"})
    /\ \/ Compatible(t.type, t.want)
       \/ t.fixed /\ FixedWidthHolds(t.type, t.want.n)

Keys(t) == ~Has(t, {"keyType", "nullKey"})
ReplacementKey(t) == ~Has(t, {"unique", "deferred"})
ApprovedOnly(t) == ~Has(t, {"check"})

\* The column census, the key and the constraints of a table replaced whole.
ExactTable(t) ==
    /\ verify_table_schema(t, FALSE, FALSE) /\ FixedColumns(t, FALSE)
    /\ ~Has(t, {"extra"})
    /\ ApprovedOnly(t) /\ ReplacementKey(t)

----------------------------------------------------------------------------
\* One verification per record type; m: the additive migration is still to
\* come, so columns it adds may be missing.

bt_storage(t, m) == verify_table_schema(t, FALSE, FALSE)

se_storage(t, m) ==
    verify_table_schema(t, m, FALSE) /\ Columns(t, m) /\ Keys(t) /\ ReplacementKey(t)

we_storage(t, m) ==
    /\ verify_table_schema(t, FALSE, FALSE) /\ FixedColumns(t, FALSE)
    /\ Keys(t) /\ ReplacementKey(t)

av_storage(t, m) ==
    verify_table_schema(t, m, FALSE) /\ FixedColumns(t, m) /\ Keys(t) /\ ReplacementKey(t)

hr_storage(t, m) ==
    /\ verify_table_schema(t, FALSE, FALSE) /\ FixedColumns(t, FALSE)
    /\ Keys(t) /\ ReplacementKey(t)

\* Mutant: the two layout columns are missing together or not at all.
MutantHsLayout(t, m) ==
    /\ ~Has(t, {"extra", "missing", "old"})
    /\ Has(t, {"marker", "delimiter"}) =>
         m /\ ~t.rows /\ {"marker", "delimiter"} \subseteq t.flaws

\* Only the two layout columns may be missing, and only without rows.
hs_layout(t, m) ==
    /\ ~Has(t, {"extra", "missing", "old"})
    /\ Has(t, {"marker", "delimiter"}) => m /\ ~t.rows

hs_storage(t, m) ==
    /\ hs_layout(t, m)
    /\ verify_table_schema(t, m, FALSE) /\ FixedColumns(t, m)
    /\ ApprovedOnly(t) /\ ReplacementKey(t)

hc_storage(t, m) == ExactTable(t)
hn_storage(t, m) == ExactTable(t)
sk_storage(t, m) == ExactTable(t)
tc_storage(t, m) == ExactTable(t)
cc_storage(t, m) == ExactTable(t)
um_storage(t, m) == ExactTable(t)

jc_storage(t, m) ==
    /\ verify_table_schema(t, FALSE, FALSE) /\ FixedColumns(t, FALSE)
    /\ Keys(t) /\ ReplacementKey(t)

\* Snapshots of votes and odds: no CHAR in place of an unpadded code.
SnapshotTable(t) ==
    /\ verify_table_schema(t, FALSE, FALSE) /\ Columns(t, FALSE)
    /\ ~Has(t, {"extra"}) /\ ApprovedOnly(t) /\ ReplacementKey(t)

h1_storage(t, m) == SnapshotTable(t)
h6_storage(t, m) == SnapshotTable(t)
odds_storage(t, m) == SnapshotTable(t)

\* A CS course is also refused when its distance is no integer.
cs_storage(t, m) ==
    verify_table_schema(t, FALSE, FALSE) /\ ~Has(t, {"keyType"}) /\ ReplacementKey(t)

jg_storage(t, m) == verify_table_schema(t, FALSE, FALSE) /\ ReplacementKey(t)
wc_storage(t, m) == verify_table_schema(t, FALSE, FALSE) /\ ReplacementKey(t)
rc_storage(t, m) == verify_table_schema(t, FALSE, FALSE) /\ ReplacementKey(t)
hy_storage(t, m) == verify_table_schema(t, FALSE, FALSE)
ys_storage(t, m) == verify_table_schema(t, FALSE, FALSE)

\* Every column of the declared type itself.
wf_storage(t, m) ==
    /\ verify_table_schema(t, FALSE, FALSE)
    /\ ~Has(t, {"keyType", "orphan"}) /\ t.type = t.want
    /\ ReplacementKey(t)

\* A child of the CK header: never migrated, compared with its schema whole.
ck_storage(t, m) ==
    /\ verify_table_schema(t, FALSE, FALSE) /\ t.type = t.want
    /\ ~Has(t, {"extra", "keyType", "nullKey", "check", "unique", "orphan"})

\* The verification of the storage of a record type; "RA" has none.
verify_storage(t, m) ==
    LET kind == t.kind IN
    CASE kind = "BT" -> bt_storage(t, m)    [] kind = "SE" -> se_storage(t, m)
      [] kind = "WE" -> we_storage(t, m)    [] kind = "AV" -> av_storage(t, m)
      [] kind = "HR" -> hr_storage(t, m)    [] kind = "HS" -> hs_storage(t, m)
      [] kind = "HC" -> hc_storage(t, m)    [] kind = "HN" -> hn_storage(t, m)
      [] kind = "SK" -> sk_storage(t, m)    [] kind = "TC" -> tc_storage(t, m)
      [] kind = "CC" -> cc_storage(t, m)    [] kind = "JC" -> jc_storage(t, m)
      [] kind = "UM" -> um_storage(t, m)    [] kind = "H1" -> h1_storage(t, m)
      [] kind = "H6" -> h6_storage(t, m)    [] kind = "O1" -> odds_storage(t, m)
      [] kind = "CS" -> cs_storage(t, m)    [] kind = "JG" -> jg_storage(t, m)
      [] kind = "WC" -> wc_storage(t, m)    [] kind = "RC" -> rc_storage(t, m)
      [] kind = "HY" -> hy_storage(t, m)    [] kind = "YS" -> ys_storage(t, m)
      [] kind = "WF" -> wf_storage(t, m)    [] kind = "CK" -> ck_storage(t, m)
      [] OTHER -> TRUE

=============================================================================
