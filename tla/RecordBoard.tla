----------------------------- MODULE RecordBoard ----------------------------
(***************************************************************************)
(* What storing records promises.  Every record that is handed over is     *)
(* either taken - then it means the same whichever way it went, how often  *)
(* it was buffered, grouped or deduplicated, and in the order it came - or *)
(* refused, and then its caller is told; and the stored rows are those of  *)
(* some moment at which a transaction ended with nothing refused, or at    *)
(* which a record settled itself.                                          *)
(*                                                                         *)
(* Less is promised for named types and races only: older rows of a type   *)
(* that is overlaid may stay, and of a race that is unsettled the rows may *)
(* be any of the older and the newer ones.                                 *)
(***************************************************************************)
EXTENDS Sequences, Naturals

CONSTANTS Kinds,    \* what may be stored, by which way
          Records,  \* the records of each type that may come
          Batches,  \* sequences that are handed over together, by the first's type
          Meaning(_, _, _),    \* the rows after a record of a kind
          Filed(_, _),         \* the rows that a record of a kind brings
          Overlaid(_, _),      \* types whose older rows may stay, for a kind and what is handed over
          Unsettled(_, _, _)   \* races, <<type, id>>, for which nothing is settled

VARIABLES kind,     \* what is stored, by which way
          kept,     \* the rows as of the last commit
          work,     \* the rows as the open transaction sees them
          taken,    \* how many times something was handed over
          last,     \* what was taken last
          ok        \* whether the caller may commit

boardVars == <<kind, kept, work, taken, last, ok>>

\* The rows after a sequence, record by record.
MeaningOfAll(k, q, b) ==
    LET after[i \in 0..Len(q)] == IF i = 0 THEN b ELSE Meaning(k, q[i], after[i - 1])
    IN  after[Len(q)]

\* After q the rows b became c.
Says(k, q, b, c) ==
    LET means == MeaningOfAll(k, q, b)
        Settled(r) == <<r.type, r.id>> \notin Unsettled(k, q, b)
    IN  /\ c \subseteq b \cup UNION {Filed(k, q[i]) : i \in DOMAIN q}
        /\ \A r \in means : Settled(r) => r \in c
        /\ \A r \in c : Settled(r) /\ r.type \notin Overlaid(k, q) => r \in means

BoardInit == kind \in Kinds /\ kept = {} /\ work = {} /\ taken = 0 /\ last = <<>> /\ ok = TRUE

Handed(q) == taken' = taken + 1 /\ last' = q /\ UNCHANGED kind

Take(q) == Handed(q) /\ Says(kind, q, work, work') /\ kept' \in {kept, work'} /\ (ok' => ok)
Refuse == Handed(<<>>) /\ work' \in {work, kept} /\ ~ ok' /\ UNCHANGED kept

Between == last' = <<>> /\ UNCHANGED <<kind, taken>>

Complain == Between /\ ~ ok' /\ work' \in {work, kept} /\ UNCHANGED kept
Commit == Between /\ ok /\ kept' = work /\ UNCHANGED <<work, ok>>
Abort == Between /\ work' = kept /\ ok' /\ UNCHANGED kept
Pause == Between /\ UNCHANGED <<kept, work, ok>>

BoardNext == \/ kind.route # "batch" /\ \E p \in Records[kind.type] : Take(<<p>>)
             \/ kind.route = "batch" /\ \E q \in Batches[kind.type] : Take(q)
             \/ Refuse
             \/ Complain
             \/ Commit
             \/ Abort
             \/ Pause

BoardSpec == BoardInit /\ [][BoardNext]_boardVars

=============================================================================
