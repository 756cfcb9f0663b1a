--------------------------- MODULE MCCoupledWrite ---------------------------
(* The instance of CoupledWrite that TLC checks: two keys, one stream per writer. *)
EXTENDS CoupledWrite

MCKeys == {"A", "B"}
MCFullRows == <<1, 2>>

Record(key, ver, kubun, rows) ==
    [key |-> key, ver |-> ver, kubun |-> kubun, count |-> Len(rows), rows |-> rows]

\* A record is put, another one, the first is replaced and then erased; a type
\* with a layout to check ends with a malformed one.
Layout == <<Record("A", 1, "1", <<1, 2>>), Record("B", 2, "1", <<1, 2>>),
            Record("A", 3, "1", <<1, 2>>)>>
Erase == <<Record("A", 4, "0", <<>>)>>

MCStream ==
    [k \in AllKinds |->
        CASE k \in {"rows", "wfnative", "ordered"} -> Layout \o Erase
          [] k = "ch" -> <<Record("A", 1, "1", <<1, 2>>), Record("B", 2, "1", <<1, 2>>),
                           Record("A", 3, "0", <<1, 2>>), Record("B", 4, "1", <<1>>)>>
          [] k \in {"tk", "odds", "vote", "snapshot"} ->
               <<Record("A", 1, "1", <<1, 2>>), Record("B", 2, "1", <<1>>),
                 Record("A", 3, "1", <<1>>)>>
                 \o Erase \o <<Record("B", 5, "9", IF k = "odds" THEN <<NoKey>>
                                                  ELSE <<NoBet, NoBet>>)>>
          [] OTHER -> Layout \o Erase \o <<Record("B", 5, "9", <<2>>)>>]

MCHandles == {<<FALSE, "sqlite", "sqlite">>, <<FALSE, "psycopg", "sqlite">>,
              <<FALSE, "pg8000", "sqlite">>, <<TRUE, "sqlite", "psycopg">>,
              <<TRUE, "sqlite", "pg8000">>}

=============================================================================
