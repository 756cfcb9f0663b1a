-------------------------- MODULE MCRecordLifecycle -------------------------
(***************************************************************************)
(* Two versions of a record of one race, one of another race, an erase,    *)
(* and everything that can be wrong with a record, for every record type   *)
(* and every way it can take.                                              *)
(***************************************************************************)
EXTENDS RecordLifecycle

Usual(t) == CASE t \in VoteTypes -> "2" [] t = "WF" -> "3" [] OTHER -> "1"
Later(t) == CASE t \in VoteTypes -> "4"
              [] OTHER -> IF "2" \in CURRENT_ACCUMULATED_DATA_KUBUN(t) THEN "2" ELSE "1"
Seen(t, slots) == IF t \in ExpandedTypes THEN slots ELSE {}

First(t) == [type |-> t, kubun |-> Usual(t), made |-> "new", id |-> "r1", body |-> "official",
             slots |-> Seen(t, {"s1", "s2"}), time |-> 1, n |-> "v1", wire |-> TRUE]
Second(t) == [First(t) EXCEPT !.kubun = Later(t), !.slots = Seen(t, {"s2"}), !.time = 2, !.n = "v2"]
Other(t) == [First(t) EXCEPT !.id = "r2", !.slots = Seen(t, {"s1"})]
Erased(t) == [First(t) EXCEPT !.kubun = "0", !.slots = {},
                 !.made = IF "0" \in CURRENT_ACCUMULATED_DATA_KUBUN(t) THEN "new" ELSE "old",
                 !.body = IF t \in {"KS", "TK"} THEN "official" ELSE "blank"]

Built(p) == [p EXCEPT !.wire = FALSE]
Wrong(t) ==
    {[First(t) EXCEPT !.body = "odd"], [First(t) EXCEPT !.body = "raw"],
     [First(t) EXCEPT !.id = "odd"], [First(t) EXCEPT !.id = "blank"],
     [First(t) EXCEPT !.time = 0], [First(t) EXCEPT !.kubun = "?"],
     [Second(t) EXCEPT !.kubun = "9", !.body = "blank"],
     [Second(t) EXCEPT !.kubun = "9", !.body = "blank", !.made = "old"],
     [Second(t) EXCEPT !.kubun = "7"], [Second(t) EXCEPT !.kubun = "2", !.made = "old"],
     [Erased(t) EXCEPT !.body = "raw"], [Erased(t) EXCEPT !.body = "official"],
     [Erased(t) EXCEPT !.id = "blank"], [Erased(t) EXCEPT !.time = 0],
     [Erased(t) EXCEPT !.slots = Seen(t, {"s1"})]}
Unused(t) == t \in {"BN", "BR", "BT", "CH", "CK", "HY", "KS", "TK", "YS"}
ByHand(t) == IF Unused(t) THEN {} ELSE
    {Built(First(t)), Built([First(t) EXCEPT !.body = "odd"]), Built([First(t) EXCEPT !.id = "odd"]),
     Built([First(t) EXCEPT !.kubun = "7"]), Built(Erased(t))}

MCRecords == [t \in RecordTypes |-> {First(t), Second(t), Other(t), Erased(t)} \cup Wrong(t) \cup ByHand(t)]

Pairs(t) == {<<First(t), Second(t)>>, <<Second(t), Other(t)>>, <<First(t), Erased(t)>>,
             <<Erased(t), First(t)>>, <<First(t), Built(First(t))>>,
             <<First(t), [Other(t) EXCEPT !.id = "blank"]>>, <<Other(t), [First(t) EXCEPT !.kubun = "7"]>>,
             <<Built([First(t) EXCEPT !.body = "odd"])>>}
\* A caller's row behind the snapshot of its race, before it, and before that
\* of another race.
Around(t) == IF t \notin OddsTypes THEN {} ELSE
    {<<First(t), Built(Second(t))>>, <<Built(First(t)), Second(t)>>, <<Built(Other(t)), Second(t)>>}
Mixed == {<<First("O1"), First("RA")>>, <<Second("O1"), Erased("RA")>>,
          <<First("WF"), First("O1"), Second("O1")>>,
          <<First("DM"), First("O1"), Second("O1"), First("SE")>>, <<Second("DM"), Erased("SE")>>,
          <<First("RA"), First("HS")>>, <<First("WF"), First("RC")>>}
MCBatches ==
    [t \in RecordTypes |->
        (IF Unused(t) THEN {} ELSE Pairs(t) \cup Around(t)) \cup {q \in Mixed : q[1].type = t}]

=============================================================================
