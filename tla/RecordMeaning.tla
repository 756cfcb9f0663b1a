---------------------------- MODULE RecordMeaning ---------------------------
(***************************************************************************)
(* What docs/record_contracts.md says that a record means for the rows of  *)
(* its kind, whichever way it goes and whatever it is handed over with;    *)
(* and, apart from that, for which rows the code does not keep it.         *)
(***************************************************************************)
EXTENDS RecordRows, Sequences, Naturals

\* A status of "0" takes the record away.  Of four master types and of the
\* horse weights the document does not say so: an import keeps a row with it.
Tombstone(k, t) == k.route \in Imports /\ t \in {"BN", "BR", "CH", "CS", "WH"}
Removes(k, p) == Erase(p) /\ ~ Tombstone(k, p.type)

\* One physical record of these types is all there is to say of its race: it
\* replaces every row of it.  Odds by announced time are kept side by side,
\* and the standard schema has a race's mining in one wide row.
SnapshotTypes(k) ==
    IF k.route = "standard" THEN SplitTypes
    ELSE MiningTypes \cup VoteTypes \cup (IF k.ts THEN {} ELSE OddsTypes)
Supersedes(k, p) == p.wire /\ p.type \in SnapshotTypes(k)

Meaning(k, p, b) ==
    CASE Removes(k, p) -> Without(k, p, b)
      [] ~ Removes(k, p) /\ Supersedes(k, p) -> Without(k, p, b) \cup Filed(k, p)
      [] OTHER -> Upsert(b, Filed(k, p))

---------------------------------------------------------------------------
(* What the code does not keep of it.                                      *)

\* Types of which rows of an earlier snapshot may stay between those of a
\* later one: votes outside the standard schema, and odds that are taken row
\* by row, beside an erase, mining or WIN5 records of their batch.
Rowwise(k, q) ==
    \/ k.route = "rows"
    \/ k.route = "batch" /\ \E i \in DOMAIN q : Erase(q[i]) \/ q[i].type \in MiningTypes \cup {"WF"}
Overlaid(k, q) ==
    (IF k.route = "standard" THEN {} ELSE VoteTypes) \cup (IF Rowwise(k, q) THEN OddsTypes ELSE {})

\* Races whose rows may be older ones: of a batch that hands over a caller's
\* row of odds before a snapshot of its race, and horse weights that come
\* again after their erase in the standard schema.
Race(r) == <<r.type, r.id>>
Overtaken(k, q) ==
    {Race(q[j]) : j \in {j \in DOMAIN q : /\ k.route = "batch" /\ q[j].type \in OddsTypes /\ q[j].wire
                                          /\ \E i \in 1..(j - 1) : Race(q[i]) = Race(q[j]) /\ ~ q[i].wire}}
Forgotten(k, q, b) ==
    {Race(q[j]) : j \in {j \in DOMAIN q : /\ k.route = "standard" /\ q[j].type = "WH"
                                          /\ \E r \in b : Race(r) = Race(q[j]) /\ r.is = "erased"}}
Unsettled(k, q, b) == Overtaken(k, q) \cup Forgotten(k, q, b)

=============================================================================
