-------------------------- MODULE MCStorageUpgrade --------------------------
(* The instance of StorageUpgrade that TLC checks: one table that is only    *)
(* upgraded and one whose contract decides.                                  *)
EXTENDS StorageUpgrade

MCOrder == <<"A", "B">>

Word == Type("varchar", 4, 0)
Number == Type("numeric", 4, 1)
Whole == Plain("integer")

Table(kind, there, rows, want, fixed, type, flaws) ==
    [kind |-> kind, there |-> there, rows |-> rows, want |-> want, fixed |-> fixed,
     type |-> type, flaws |-> flaws]

\* The table every upgrade extends: a plain one that lacks a column.
Upgraded == Table("RA", TRUE, TRUE, Word, FALSE, Word, {"missing"})
Absent(kind) == Table(kind, FALSE, FALSE, Word, FALSE, Word, {})

Kinds == {"RA", "BT", "SE", "WE", "AV", "HR", "HS", "HC", "HN", "SK", "TC", "CC", "JC",
          "UM", "H1", "H6", "O1", "CS", "JG", "WC", "RC", "HY", "YS", "WF", "CK"}

\* One deviation each: a flaw, or another type of the data column.
FlawsOf(kind) == (Flaws \ {"marker", "delimiter", "old", "orphan", "alias", "capture"})
                 \cup (IF kind = "HS" THEN {"marker", "delimiter", "old"} ELSE {})
                 \cup (IF kind = "RA" THEN {"capture"} ELSE {})
                 \cup (IF kind \in {"CK", "WF"} THEN {"orphan"} ELSE {})

OtherTypes == {<<Word, Plain("text")>>, <<Word, Type("varchar", 3, 0)>>,
               <<Word, Type("varchar", 5, 0)>>, <<Word, Type("char", 5, 0)>>,
               <<Word, Whole>>, <<Whole, Plain("smallint")>>, <<Whole, Plain("bigint")>>,
               <<Whole, Plain("text")>>, <<Number, Type("numeric", 5, 1)>>,
               <<Number, Type("numeric", 5, 0)>>, <<Number, Type("numeric", 5, 2)>>,
               <<Number, Plain("text")>>}

Deviating(kind) ==
    {Table(kind, TRUE, r, Word, FALSE, Word, {f}) : r \in {TRUE, FALSE}, f \in FlawsOf(kind)}
    \cup {Table(kind, FALSE, FALSE, Word, FALSE, Word, {"alias"})}
    \cup {Table(kind, TRUE, TRUE, w[1], FALSE, w[2], {}) : w \in OtherTypes}
    \cup {Table(kind, TRUE, TRUE, Word, TRUE, Type("char", 4, 0), {})}

Cat(a, b) == [t \in {"A", "B"} |-> IF t = "A" THEN a ELSE b]

Case(cmd, dual, p, s, sopen, pcat, scat, n) ==
    [cmd |-> cmd, dual |-> dual, p |-> p, s |-> s, sopen |-> sopen, pcat |-> pcat,
     scat |-> scat, faults |-> n]

Commands == {"fetch", "manager", "create-tables", "import", "import-auto"}

\* Every contract and deviation, without faults.
Breadth ==
    {Case(cmd, FALSE, p, "sqlite", FALSE, Cat(Upgraded, b), Cat(Upgraded, b), 0)
     : cmd \in Commands, p \in {"sqlite", "psycopg"}, b \in UNION {Deviating(k) : k \in Kinds}}

\* A few contracts on every handle, with a fault.
Few == {Table("HS", TRUE, FALSE, Word, FALSE, Word, {"marker", "delimiter"}),
        Table("SE", TRUE, TRUE, Word, FALSE, Word, {"missing"}),
        Table("HR", TRUE, TRUE, Word, FALSE, Word, {"missing"}),
        Absent("HR")}
Depth ==
    {Case(cmd, h[1], h[2], h[3], TRUE, Cat(Upgraded, b), Cat(Upgraded, b), 1)
     : cmd \in Commands, b \in Few,
       h \in {<<FALSE, "sqlite", "sqlite">>, <<FALSE, "psycopg", "sqlite">>,
              <<FALSE, "pg8000", "sqlite">>, <<TRUE, "sqlite", "psycopg">>,
              <<TRUE, "sqlite", "pg8000">>}}

\* Imports with a second fault: one in a caller's transaction, one after it.
Twice ==
    {Case(cmd, h[1], h[2], h[3], TRUE, Cat(Upgraded, b), Cat(Upgraded, b), 2)
     : cmd \in {"import", "import-auto"}, b \in Few,
       h \in {<<FALSE, "sqlite", "sqlite">>, <<FALSE, "psycopg", "sqlite">>,
              <<TRUE, "sqlite", "psycopg">>, <<TRUE, "psycopg", "sqlite">>}}

\* The two databases disagree, or the secondary is down.
Split ==
    {Case(cmd, TRUE, "sqlite", "psycopg", open, Cat(Upgraded, Absent("SE")), Cat(Upgraded, b), 0)
     : cmd \in Commands, open \in BOOLEAN, b \in Deviating("SE")}
    \cup
    {Case(cmd, TRUE, "sqlite", "psycopg", open,
          Cat(Upgraded, Table("AV", TRUE, TRUE, Word, FALSE, Word, {})), Cat(Upgraded, b), 0)
     : cmd \in Commands, open \in BOOLEAN, b \in Deviating("AV")}

MCCases == Breadth \cup Depth \cup Twice \cup Split

=============================================================================
