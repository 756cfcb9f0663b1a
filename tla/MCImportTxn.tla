---------------------------- MODULE MCImportTxn ----------------------------
(***************************************************************************)
(* Two tables, two keys.  "good" erases and rewrites a row whose first     *)
(* version is still buffered, with a row of another table in between;      *)
(* "bad" ends with records the importer counts as failed; "odd" replaces a *)
(* snapshot and is then refused.  Batches of two, intervals of two.        *)
(***************************************************************************)
EXTENDS ImportTxn, TLC

R(kind, table, write) == [kind |-> kind, table |-> table, write |-> write]
Row(t, k, v) == R("row", t, <<t, k>> :> v)
Nothing == [l \in {} |-> "none"]

MCStream ==
    [good |-> <<Row("RA", "k1", "1"),
                Row("SE", "k1", "1"),
                R("direct", "RA", <<"RA", "k1">> :> "none"),
                Row("RA", "k2", "1"),
                Row("RA", "k1", "2")>>,
     bad  |-> <<Row("RA", "k1", "3"),
                R("nokey", "SE", Nothing),
                Row("RA", "k2", "3"),
                R("unknown", "SE", Nothing)>>,
     odd  |-> <<Row("SE", "k2", "4"),
                R("direct", "SE", <<"SE", "k1">> :> "none" @@ <<"SE", "k2">> :> "5"),
                R("follower", "SE", Nothing),
                R("invalid", "RA", Nothing)>>,
     none |-> <<>>]

=============================================================================
