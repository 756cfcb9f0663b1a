------------------------------ MODULE ImportLog -----------------------------
(***************************************************************************)
(* What BatchProcessor.process_date_range promises of the database,        *)
(* without batches, transactions or failures: the rows of a data spec      *)
(* appear as if its records had been applied one by one in the provider's  *)
(* order, and only whole commit groups of them: the whole spec, or every   *)
(* Interval records when the setup is split (option 4).  Success means all *)
(* of them; no group with a rejected record ever appears.                  *)
(***************************************************************************)
EXTENDS Naturals, Sequences

CONSTANTS
    Specs,      \* data specs
    Stream,     \* Stream[s]: records of spec s, [kind, table, write]
    Locs,       \* <<table, key>>: one stored row
    Interval    \* SETUP_COMMIT_INTERVAL

VARIABLES db, base, durable, spec, split, status

absVars == <<db, base, durable, spec, split, status>>

Writers(s, S, l) == {i \in S : l \in DOMAIN Stream[s][i].write}

Last(S) == CHOOSE i \in S : \A j \in S : j <= i

\* The rows after the records S of spec s, in provider order, on top of rows b:
\* of the records that write (or erase) a row the last one decides.
Content(b, s, S) ==
    [l \in Locs |-> IF Writers(s, S, l) = {} THEN b[l]
                    ELSE Stream[s][Last(Writers(s, S, l))].write[l]]

\* Records importers refuse, at once or when their batch is written.
Rejects(s, S) == {i \in S : Stream[s][i].kind \in {"invalid", "unknown", "nokey"}}

\* Where a commit may fall: after the whole spec, or after a whole interval.
WholeIntervals(n) == \E k \in 0..n : n = k * Interval
CommitPoints(s, p) ==
    {n \in 0..Len(Stream[s]) : n = Len(Stream[s]) \/ (p /\ WholeIntervals(n))}

AbsInit ==
    /\ db \in [Locs -> {"none"}] /\ base = db
    /\ durable = 0
    /\ spec \in Specs /\ split \in BOOLEAN
    /\ status = "idle"

Begin(s, p) ==
    /\ status # "running"
    /\ status' = "running"
    /\ spec' = s /\ split' = p
    /\ base' = db /\ durable' = 0
    /\ UNCHANGED db

\* One more commit group, or several, is stored; the last one ends the run
\* unless its confirmation is lost.
Commit(n) ==
    /\ status = "running"
    /\ n >= durable /\ n \in CommitPoints(spec, split)
    /\ Rejects(spec, 1..n) = {}
    /\ durable' = n
    /\ db' = Content(base, spec, 1..n)
    /\ status' \in IF n = Len(Stream[spec]) THEN {"running", "done"} ELSE {"running"}
    /\ UNCHANGED <<base, spec, split>>

Fail ==
    /\ status = "running"
    /\ status' = "failed"
    /\ UNCHANGED <<db, base, durable, spec, split>>

AbsNext ==
    \/ \E s \in Specs, p \in BOOLEAN : Begin(s, p)
    \/ \E n \in 0..Len(Stream[spec]) : Commit(n)
    \/ Fail

AbsSpec == AbsInit /\ [][AbsNext]_absVars

=============================================================================
