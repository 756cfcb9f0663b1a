--------------------------- MODULE MCFetchWindows ---------------------------
(* Three specs: one of every update, asked for by week; one that is a setup *)
(* of its own; one that no update fetches.  Days of two ticks; the week    *)
(* reaches one day back.                                                    *)
EXTENDS FetchWindows, TLC

CONSTANTS q1, q2
MCSymmetry == Permutations(Quickstarts)

MCItems ==
    {[spec |-> "RACE", at |-> 1, event |-> 0], [spec |-> "RACE", at |-> 1, event |-> 2],
     [spec |-> "RACE", at |-> 2, event |-> 1],
     [spec |-> "DIFN", at |-> 0, event |-> 0],
     [spec |-> "BLDN", at |-> 1, event |-> 0]}

\* A setup from the beginning up to today, in both databases; the command
\* line may also ask for an update of any period, or end before today.
MCWindows ==
    {[mode |-> "standard", back |-> 2, ahead |-> 0, db |-> "db1"],
     [mode |-> "simple", back |-> 1, ahead |-> 0, db |-> "db2"],
     [mode |-> "update", back |-> 0, ahead |-> -1, db |-> "db1"]}

=============================================================================
