----------------------------- MODULE MCNlCache ------------------------------
(***************************************************************************)
(* Three dates.  A race of the first day is corrected on the second, with  *)
(* one of the second day, and on the third; and a record without a date.   *)
(***************************************************************************)
EXTENDS NlCache

R(day, date, key) == [day |-> day, date |-> date, key |-> key]

MCProvider ==
    <<R(1, 1, "a"), R(2, 1, "a"), R(2, 2, "b"), R(3, 1, "a"), R(3, Undated, "c")>>

=============================================================================
