------------------------------ MODULE RecordRows ----------------------------
(***************************************************************************)
(* Where the rows of a record are stored, and what is in them: the tables  *)
(* of the realtime and the accumulated schema, the header and child tables *)
(* of the standard schema, and its wide rows.                              *)
(*                                                                         *)
(* A kind is [type, route, ts]: the record type that is stored, the way it *)
(* takes and whether odds are kept per announced time.                     *)
(***************************************************************************)
EXTENDS RecordContracts

Imports == {"native", "standard"}
Live == {"list", "rows", "batch"}
SplitTypes == OddsTypes \cup VoteTypes
WideTypes == MiningTypes \cup {"WH"}

\* The rows a record becomes: in the standard schema the totals of the odds
\* and votes are part of the race's header row, and the horses of a mining or
\* weight record columns of one wide row.
Places(k, p) ==
    CASE k.route = "standard" /\ p.type \in SplitTypes -> (Incoming(p) \ {"total"}) \cup {"header"}
      [] k.route = "standard" /\ p.type \in WideTypes -> {"wide"}
      [] OTHER -> Incoming(p)

RECORD_TYPE_TABLE ==
    {"RA", "SE", "HR", "WE", "AV", "JC", "TC", "CC", "WF", "RC"} \cup SplitTypes \cup WideTypes

\* Odds that are kept by their announced time.
Timed(k, p) == k.ts /\ p.type \in OddsTypes

\* Whether there is a table whose key columns the record fills.  RT_RC wants
\* columns that the parser does not give.
NamesKey(k, p) ==
    /\ p.id # "blank"
    /\ Timed(k, p) => p.time # 0
    /\ k.route \in Live => p.type \in RECORD_TYPE_TABLE \ {"RC"}
_has_complete_primary_key(k, p, slot) == NamesKey(k, p) /\ slot # "head"

Holds(k, p) == IF Erase(p) THEN "erased" ELSE IF InContract(p) THEN p.n ELSE "odd"
_prepare_data_for_db(k, p, slot) ==
    [type |-> p.type, id |-> p.id, slot |-> slot,
     time |-> IF Timed(k, p) THEN p.time ELSE 0, is |-> Holds(k, p)]

Filed(k, p) == {_prepare_data_for_db(k, p, slot) :
                    slot \in {s \in Places(k, p) : _has_complete_primary_key(k, p, s)}}

SamePlace(r, s) == <<r.type, r.id, r.slot, r.time>> = <<s.type, s.id, s.slot, s.time>>
Upsert(b, rows) == {r \in b : \A s \in rows : ~ SamePlace(r, s)} \cup rows

\* The rows an erase or a snapshot speaks for: those of its key, and at one
\* time where the time is part of the key.
Named(k, p, r) == r.type = p.type /\ r.id = p.id /\ (Timed(k, p) => r.time = p.time)
Without(k, p, b) == {r \in b : ~ Named(k, p, r)}

=============================================================================
