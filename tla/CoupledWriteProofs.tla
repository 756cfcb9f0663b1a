------------------------- MODULE CoupledWriteProofs -------------------------
(***************************************************************************)
(* Proofs about CoupledWrite for any keys, streams, handles (one database  *)
(* or two, of any drivers), batches, calls and faults: an import waits for *)
(* the commit of its caller, what is durable of a coupled record is whole, *)
(* a secondary in sync holds the rows of the primary, and the counts of a  *)
(* committed import tell what is durable.                                  *)
(*                                                                         *)
(* Three layers: what one call does to a session (Backends), to a handle   *)
(* of one or two of them (DualDatabase), and the invariants of the writers.*)
(***************************************************************************)
EXTENDS CoupledWrite, SequenceTheorems, WellFoundedInduction, TLAPS

(***************************************************************************)
(* Calls on one database.                                                  *)
(***************************************************************************)

\* What is seen and not durable is held by the transaction of an open,
\* working connection.
Holding(b) == b.open /\ ~b.broken /\ (IF b.driver = "pg8000" THEN b.active ELSE b.dirty)

Settled(b) ==
  /\ b.seen # b.store => Holding(b)
  /\ b.failed => b.open
  /\ b.driver = "sqlite" => ~b.failed /\ ~b.broken
  /\ b.driver = "pg8000" =>
       /\ b.failed => b.active
       /\ b.active => b.open

SessionRecords(C) ==
  [driver : Drivers, store : C, seen : C, open : BOOLEAN, active : BOOLEAN, dirty : BOOLEAN,
   failed : BOOLEAN, broken : BOOLEAN, lost : BOOLEAN]
Sessions(C) == {b \in SessionRecords(C) : Settled(b)}

Outcomes(C) == [db : Sessions(C), ok : BOOLEAN, faults : Nat]

\* A statement waits for a commit.
InTransaction(b) == b.driver # "pg8000" \/ b.active

\* The session c is on the database of b, as durable as it was.
Durable(b, c) == c.driver = b.driver /\ c.store = b.store /\ c.lost = b.lost

\* What a call makes of the session b: the session c, and whether it returned.
BeginsTo(b, c, ok) ==
  /\ Durable(b, c) /\ c.open = b.open
  /\ ok => /\ c.active /\ c.seen = b.seen /\ c.failed = b.failed /\ c.dirty = b.dirty
           /\ c.broken = b.broken
  /\ ~ok => /\ c.seen \in {b.seen, b.store} /\ c.active = b.active /\ b.driver # "sqlite"
            /\ c.seen # b.seen => c.broken

RollsBackTo(b, c, ok) ==
  /\ Durable(b, c) /\ c.seen \in {b.seen, b.store} /\ (c.open => b.open)
  /\ ok => c.seen = b.store /\ b.open /\ c.open /\ ~has_pending_transaction(c)
  /\ ~ok /\ c.seen # c.store => c = b
  /\ b.driver = "pg8000" => ~c.active

ClosesTo(b, c, ok) ==
  /\ Durable(b, c)
  /\ ok => ~c.open /\ ~c.active /\ c.seen = c.store /\ ~has_pending_transaction(c)
  /\ ~ok => c = b /\ b.open

CommitsTo(b, c, ok) ==
  /\ c.driver = b.driver /\ c.open = b.open /\ (b.lost => c.lost)
  /\ ok => /\ b.open /\ c.lost = b.lost /\ ~has_pending_transaction(c)
           /\ ~c.failed /\ ~c.broken
           /\ c.store = (IF b.failed THEN b.store ELSE b.seen) /\ c.seen = c.store
  /\ ~ok => /\ c.store \in {b.store, b.seen} /\ c.seen \in {b.seen, c.store}
            /\ c.active = b.active
            /\ ~c.lost => c.store = b.store
            /\ InTransaction(b) \/ ~b.open \/ b.broken
  /\ c.seen # c.store => c = b

ExecutesTo(b, s, c, ok) ==
  LET after == Apply(b.driver, b.seen, s)
  IN /\ c.driver = b.driver /\ (c.open => b.open) /\ (b.lost => c.lost)
     /\ ok => /\ b.open /\ c.open /\ c.seen = after /\ c.active = b.active
              /\ ~b.failed /\ ~c.failed /\ ~b.broken /\ ~c.broken
     /\ InTransaction(b) =>
          /\ InTransaction(c) /\ c.store = b.store /\ c.lost = b.lost
          /\ ~ok => c.seen \in {b.seen, b.store}
     /\ ~InTransaction(b) =>
          /\ c.store \in {b.store, after} /\ c.seen = c.store /\ ~c.active
          /\ ok => c.store = after
          /\ ~ok /\ (~c.lost \/ ~b.open) => c.store = b.store

-----------------------------------------------------------------------------
\* The updates of a session that a call may make, field by field.
LEMMA FreshIs ==
  ASSUME NEW C, NEW b \in SessionRecords(C)
  PROVE  LET c == Fresh(b) IN
         /\ c \in SessionRecords(C) /\ c.driver = b.driver /\ c.store = b.store
         /\ c.seen = b.store /\ c.open = b.open /\ c.active = FALSE /\ c.dirty = FALSE
         /\ c.failed = FALSE /\ c.broken = b.broken /\ c.lost = b.lost
  BY Zenon DEF SessionRecords, Fresh

\* A lost connection.
LEMMA GoneIs ==
  ASSUME NEW C, NEW b \in SessionRecords(C)
  PROVE  LET c == Gone(b) IN
         /\ c \in SessionRecords(C) /\ c.driver = b.driver /\ c.store = b.store
         /\ c.seen = b.store /\ c.open = b.open /\ c.active = b.active /\ c.dirty = b.dirty
         /\ c.failed = b.failed /\ c.broken = TRUE /\ c.lost = b.lost
  BY Zenon DEF SessionRecords, Gone

\* A closed one.
LEMMA ClosedIs ==
  ASSUME NEW C, NEW b \in SessionRecords(C)
  PROVE  LET c == Closed(b) IN
         /\ c \in SessionRecords(C) /\ c.driver = b.driver /\ c.store = b.store
         /\ c.seen = b.store /\ c.open = FALSE /\ c.active = FALSE /\ c.dirty = FALSE
         /\ c.failed = FALSE /\ c.broken = FALSE /\ c.lost = b.lost
  BY Zenon DEF SessionRecords, Closed, Fresh

\* One that was rebuilt, and one that was opened.
LEMMA RebuiltIs ==
  ASSUME NEW C, NEW b \in SessionRecords(C)
  PROVE  LET c == [Fresh(b) EXCEPT !.broken = FALSE] IN
         /\ c \in SessionRecords(C) /\ c.driver = b.driver /\ c.store = b.store
         /\ c.seen = b.store /\ c.open = b.open /\ c.active = FALSE /\ c.dirty = FALSE
         /\ c.failed = FALSE /\ c.broken = FALSE /\ c.lost = b.lost
  BY Zenon DEF SessionRecords, Fresh

LEMMA OpenedIs ==
  ASSUME NEW C, NEW b \in SessionRecords(C)
  PROVE  LET c == [Fresh(b) EXCEPT !.open = TRUE, !.broken = FALSE] IN
         /\ c \in SessionRecords(C) /\ c.driver = b.driver /\ c.store = b.store
         /\ c.seen = b.store /\ c.open = TRUE /\ c.active = FALSE /\ c.dirty = FALSE
         /\ c.failed = FALSE /\ c.broken = FALSE /\ c.lost = b.lost
  BY Zenon DEF SessionRecords, Fresh

\* A transaction that was begun.
LEMMA BegunIs ==
  ASSUME NEW C, NEW b \in SessionRecords(C)
  PROVE  LET c == [b EXCEPT !.active = TRUE] IN
         /\ c \in SessionRecords(C) /\ c.driver = b.driver /\ c.store = b.store
         /\ c.seen = b.seen /\ c.open = b.open /\ c.active = TRUE /\ c.dirty = b.dirty
         /\ c.failed = b.failed /\ c.broken = b.broken /\ c.lost = b.lost
  BY Zenon DEF SessionRecords

\* What was seen made durable, whether or not the answer was lost.
LEMMA SavedIs ==
  ASSUME NEW C, NEW b \in SessionRecords(C)
  PROVE  LET c == [b EXCEPT !.store = b.seen] IN
         /\ c \in SessionRecords(C) /\ c.driver = b.driver /\ c.store = b.seen
         /\ c.seen = b.seen /\ c.open = b.open /\ c.active = b.active /\ c.dirty = b.dirty
         /\ c.failed = b.failed /\ c.broken = b.broken /\ c.lost = b.lost
  BY Zenon DEF SessionRecords

\* Statements that took effect, and one whose answer was lost.
LEMMA DoneIs ==
  ASSUME NEW C, NEW b \in SessionRecords(C), NEW s, Apply(b.driver, b.seen, s) \in C
  PROVE  LET c == Done(b, s) IN
         /\ c \in SessionRecords(C) /\ c.driver = b.driver
         /\ c.seen = Apply(b.driver, b.seen, s)
         /\ c.store = IF InTransaction(b) THEN b.store ELSE c.seen
         /\ c.open = b.open /\ c.active = b.active
         /\ c.dirty = (b.dirty \/ InTransaction(b))
         /\ c.failed = b.failed /\ c.broken = b.broken /\ c.lost = b.lost
  <1> DEFINE r == Apply(b.driver, b.seen, s)
             x == [b EXCEPT !.seen = r, !.store = r]
             y == [b EXCEPT !.seen = r, !.dirty = TRUE]
  <1>1. r \in C
    OBVIOUS
  <1>2. Done(b, s) = IF InTransaction(b) THEN y ELSE x
    BY Zenon DEF Done, InTransaction
  <1> HIDE DEF r
  <1>3. /\ x \in SessionRecords(C) /\ x.driver = b.driver /\ x.seen = r /\ x.store = r
        /\ x.open = b.open /\ x.active = b.active /\ x.dirty = b.dirty
        /\ x.failed = b.failed /\ x.broken = b.broken /\ x.lost = b.lost
    BY <1>1, Zenon DEF SessionRecords
  <1>4. /\ y \in SessionRecords(C) /\ y.driver = b.driver /\ y.seen = r /\ y.store = b.store
        /\ y.open = b.open /\ y.active = b.active /\ y.dirty = TRUE
        /\ y.failed = b.failed /\ y.broken = b.broken /\ y.lost = b.lost
    BY <1>1, Zenon DEF SessionRecords
  <1>5. b.dirty \in BOOLEAN
    BY DEF SessionRecords
  <1> HIDE DEF x, y
  <1>6. CASE InTransaction(b)
    BY <1>2, <1>4, <1>6 DEF r
  <1>7. CASE ~InTransaction(b)
    BY <1>2, <1>3, <1>5, <1>7 DEF r
  <1>8. QED  BY <1>6, <1>7

LEMMA SummedIs ==
  ASSUME NEW C, NEW p \in Outcomes(C), NEW n \in Nat, NEW o, o = [p EXCEPT !.faults = @ + n]
  PROVE  o \in Outcomes(C) /\ o.db = p.db /\ o.ok = p.ok
  <1> DEFINE m == p.faults + n
  <1>1. m \in Nat
    BY DEF Outcomes
  <1>2. o = [p EXCEPT !.faults = m]
    OBVIOUS
  <1> HIDE DEF m
  <1>3. QED  BY <1>1, <1>2, Zenon DEF Outcomes

-----------------------------------------------------------------------------
\* A new connection sees what is durable.
LEMMA Connects ==
  ASSUME NEW C, NEW b \in Sessions(C), NEW o \in connect(b)
  PROVE  /\ o \in Outcomes(C) /\ Durable(b, o.db)
         /\ o.ok => o.db.seen = b.store /\ ~o.db.active /\ o.db.open /\ ~o.db.failed
         /\ ~o.ok => o.db = b
  <1> DEFINE c == [Fresh(b) EXCEPT !.open = TRUE, !.broken = FALSE]
  <1>1. o = Ok(c, 0) \/ o = Err(b, 1)
    BY Zenon DEF connect
  <1>2. b \in SessionRecords(C)
    BY DEF Sessions
  <1>3. /\ c \in SessionRecords(C) /\ c.driver = b.driver /\ c.store = b.store
        /\ c.seen = b.store /\ c.open = TRUE /\ c.active = FALSE /\ c.failed = FALSE
        /\ c.broken = FALSE /\ c.lost = b.lost
    BY <1>2, OpenedIs
  <1> HIDE DEF c
  <1>4. c \in Sessions(C)
    BY <1>3 DEF Sessions, Settled
  <1>5. CASE o = Ok(c, 0)
    BY <1>3, <1>4, <1>5 DEF Ok, Outcomes, Durable
  <1>6. CASE o = Err(b, 1)
    BY <1>6 DEF Err, Outcomes, Durable
  <1>7. QED  BY <1>1, <1>5, <1>6

\* Beginning a transaction changes no rows.
LEMMA Begins ==
  ASSUME NEW C, NEW b \in Sessions(C), NEW o \in begin_transaction(b)
  PROVE  o \in Outcomes(C) /\ BeginsTo(b, o.db, o.ok)
  <1> DEFINE c == [b EXCEPT !.active = TRUE]
             g == Gone(b)
  <1>1. b \in SessionRecords(C) /\ Settled(b)
    BY DEF Sessions
  <1>2. /\ c \in SessionRecords(C) /\ c.driver = b.driver /\ c.store = b.store
        /\ c.seen = b.seen /\ c.open = b.open /\ c.active = TRUE /\ c.dirty = b.dirty
        /\ c.failed = b.failed /\ c.broken = b.broken /\ c.lost = b.lost
    BY <1>1, BegunIs
  <1>3. /\ g \in SessionRecords(C) /\ g.driver = b.driver /\ g.store = b.store
        /\ g.seen = b.store /\ g.open = b.open /\ g.active = b.active
        /\ g.failed = b.failed /\ g.broken = TRUE /\ g.lost = b.lost
    BY <1>1, GoneIs
  <1>4. \/ o = Ok(c, 0) /\ (b.driver # "sqlite" => b.open)
        \/ o = Err(b, 0) /\ b.driver # "sqlite"
        \/ o = Err(g, 1) /\ b.driver # "sqlite"
        \/ o = Ok(b, 0) /\ b.active
    BY Zenon DEF begin_transaction
  <1> HIDE DEF c, g
  <1>5. (b.driver # "sqlite" => b.open) => c \in Sessions(C)
    BY <1>1, <1>2 DEF Sessions, Settled, Holding
  <1>6. b.driver # "sqlite" => g \in Sessions(C)
    BY <1>1, <1>3 DEF Sessions, Settled
  <1>7. CASE o = Ok(c, 0) /\ (b.driver # "sqlite" => b.open)
    BY <1>2, <1>5, <1>7 DEF Ok, Outcomes, Durable, BeginsTo
  <1>8. CASE o = Err(b, 0) /\ b.driver # "sqlite"
    BY <1>8 DEF Err, Outcomes, Durable, BeginsTo
  <1>9. CASE o = Err(g, 1) /\ b.driver # "sqlite"
    BY <1>3, <1>6, <1>9 DEF Err, Outcomes, Durable, BeginsTo
  <1>10. CASE o = Ok(b, 0) /\ b.active
    BY <1>10 DEF Ok, Outcomes, Durable, BeginsTo
  <1>11. QED  BY <1>4, <1>7, <1>8, <1>9, <1>10

\* A rollback does not touch what is durable; when it returns, the rest is
\* forgotten, and when it raises the session may be as it was.
LEMMA RollsBack ==
  ASSUME NEW C, NEW b \in Sessions(C), NEW o \in rollback(b)
  PROVE  o \in Outcomes(C) /\ RollsBackTo(b, o.db, o.ok)
  <1> DEFINE f == Fresh(b)
             g == Gone(b)
             c == Closed(b)
             r == [Fresh(b) EXCEPT !.broken = FALSE]
  <1>1. b \in SessionRecords(C) /\ Settled(b) /\ b.driver \in Drivers
    BY DEF Sessions, SessionRecords
  <1>2. /\ f \in SessionRecords(C) /\ f.driver = b.driver /\ f.store = b.store
        /\ f.seen = b.store /\ f.open = b.open /\ f.active = FALSE /\ f.dirty = FALSE
        /\ f.failed = FALSE /\ f.broken = b.broken /\ f.lost = b.lost
    BY <1>1, FreshIs
  <1>3. /\ g \in SessionRecords(C) /\ g.driver = b.driver /\ g.store = b.store
        /\ g.seen = b.store /\ g.open = b.open /\ g.active = b.active
        /\ g.failed = b.failed /\ g.broken = TRUE /\ g.lost = b.lost
    BY <1>1, GoneIs
  <1>4. /\ c \in SessionRecords(C) /\ c.driver = b.driver /\ c.store = b.store
        /\ c.seen = b.store /\ c.open = FALSE /\ c.active = FALSE
        /\ c.failed = FALSE /\ c.broken = FALSE /\ c.lost = b.lost
    BY <1>1, ClosedIs
  <1>5. /\ r \in SessionRecords(C) /\ r.driver = b.driver /\ r.store = b.store
        /\ r.seen = b.store /\ r.open = b.open /\ r.active = FALSE /\ r.dirty = FALSE
        /\ r.failed = FALSE /\ r.broken = FALSE /\ r.lost = b.lost
    BY <1>1, RebuiltIs
  <1>6. \/ o = Ok(f, 0) /\ b.open /\ (b.driver = "psycopg" => ~b.broken)
        \/ o = Ok(r, 0) /\ b.open
        \/ o = Err(g, 1) /\ b.driver = "psycopg"
        \/ o = Err(c, 1)
        \/ o = Err(b, 0) /\ (b.driver = "pg8000" => ~b.open)
        \/ o = Err(b, 1) /\ b.driver = "sqlite"
        \/ o = Ok(b, 0) /\ ~InTransaction(b) /\ b.open
    <2>1. CASE b.driver = "sqlite"
      BY <2>1, Zenon DEF rollback, IsServer, sqlite_rollback
    <2>2. CASE b.driver = "psycopg"
      BY <2>2, Zenon DEF rollback, IsServer, postgresql_rollback
    <2>3. CASE b.driver = "pg8000"
      BY <2>3, Zenon DEF rollback, IsServer, postgresql_rollback, _reconnect, InTransaction
    <2>4. QED  BY <1>1, <2>1, <2>2, <2>3 DEF Drivers
  <1> HIDE DEF f, g, c, r
  <1>7. CASE o = Ok(f, 0) /\ b.open /\ (b.driver = "psycopg" => ~b.broken)
    <2>1. f \in Sessions(C)
      BY <1>1, <1>2 DEF Sessions, Settled
    <2>2. ~has_pending_transaction(f)
      BY <1>2, <1>7 DEF has_pending_transaction
    <2>3. QED  BY <1>2, <1>7, <2>1, <2>2 DEF Ok, Outcomes, Durable, RollsBackTo
  <1>8. CASE o = Ok(r, 0) /\ b.open
    <2>1. r \in Sessions(C)
      BY <1>1, <1>5 DEF Sessions, Settled
    <2>2. ~has_pending_transaction(r)
      BY <1>5 DEF has_pending_transaction
    <2>3. QED  BY <1>5, <1>8, <2>1, <2>2 DEF Ok, Outcomes, Durable, RollsBackTo
  <1>9. CASE o = Ok(b, 0) /\ ~InTransaction(b) /\ b.open
    <2>1. b.seen = b.store /\ ~has_pending_transaction(b)
      BY <1>1, <1>9 DEF Settled, Holding, InTransaction, has_pending_transaction
    <2>2. QED  BY <1>9, <2>1 DEF Ok, Outcomes, Durable, RollsBackTo, InTransaction
  <1>10. CASE o = Err(g, 1) /\ b.driver = "psycopg"
    <2>1. g \in Sessions(C)
      BY <1>1, <1>3, <1>10 DEF Sessions, Settled
    <2>2. QED  BY <1>3, <1>10, <2>1 DEF Err, Outcomes, Durable, RollsBackTo
  <1>11. CASE o = Err(c, 1)
    <2>1. c \in Sessions(C)
      BY <1>4 DEF Sessions, Settled
    <2>2. QED  BY <1>4, <1>11, <2>1 DEF Err, Outcomes, Durable, RollsBackTo
  <1>12. CASE o = Err(b, 0) /\ (b.driver = "pg8000" => ~b.open)
    BY <1>1, <1>12 DEF Err, Outcomes, Durable, RollsBackTo, Settled
  <1>13. CASE o = Err(b, 1) /\ b.driver = "sqlite"
    BY <1>13 DEF Err, Outcomes, Durable, RollsBackTo
  <1>14. QED  BY <1>6, <1>7, <1>8, <1>9, <1>10, <1>11, <1>12, <1>13

\* Closing a connection forgets what was not durable.
LEMMA Disconnects ==
  ASSUME NEW C, NEW b \in Sessions(C), NEW o \in disconnect(b)
  PROVE  o \in Outcomes(C) /\ ClosesTo(b, o.db, o.ok)
  <1> DEFINE c == Closed(b)
  <1>1. b \in SessionRecords(C)
    BY DEF Sessions
  <1>2. /\ c \in SessionRecords(C) /\ c.driver = b.driver /\ c.store = b.store
        /\ c.seen = b.store /\ c.open = FALSE /\ c.active = FALSE
        /\ c.failed = FALSE /\ c.broken = FALSE /\ c.lost = b.lost
    BY <1>1, ClosedIs
  <1>3. o = Ok(c, 0) \/ (o = Err(b, 1) /\ b.open)
    BY Zenon DEF disconnect
  <1> HIDE DEF c
  <1>4. c \in Sessions(C)
    BY <1>2 DEF Sessions, Settled
  <1>5. CASE o = Ok(c, 0)
    BY <1>2, <1>4, <1>5 DEF Ok, Outcomes, Durable, ClosesTo, has_pending_transaction
  <1>6. CASE o = Err(b, 1) /\ b.open
    BY <1>6 DEF Err, Outcomes, Durable, ClosesTo
  <1>7. QED  BY <1>3, <1>5, <1>6

\* What a commit that returned has made durable is what its connection saw; one
\* that raised has changed nothing, or the answer was lost.
LEMMA Commits ==
  ASSUME NEW C, NEW b \in Sessions(C), NEW o \in commit(b)
  PROVE  o \in Outcomes(C) /\ CommitsTo(b, o.db, o.ok)
  <1> DEFINE f == Fresh(b)
             g == Gone(b)
             c == [b EXCEPT !.store = b.seen]
             k == Fresh(c)
             l == b.lost \/ b.store # b.seen
             u == [b EXCEPT !.store = b.seen, !.lost = l]
             v == Gone(u)
  <1>1. b \in SessionRecords(C) /\ Settled(b) /\ b.driver \in Drivers /\ l \in BOOLEAN
    BY DEF Sessions, SessionRecords
  <1>2. /\ f \in SessionRecords(C) /\ f.driver = b.driver /\ f.store = b.store
        /\ f.seen = b.store /\ f.open = b.open /\ f.active = FALSE /\ f.dirty = FALSE
        /\ f.failed = FALSE /\ f.broken = b.broken /\ f.lost = b.lost
    BY <1>1, FreshIs
  <1>3. /\ g \in SessionRecords(C) /\ g.driver = b.driver /\ g.store = b.store
        /\ g.seen = b.store /\ g.open = b.open /\ g.active = b.active
        /\ g.failed = b.failed /\ g.broken = TRUE /\ g.lost = b.lost
    BY <1>1, GoneIs
  <1>4. /\ c \in SessionRecords(C) /\ c.driver = b.driver /\ c.store = b.seen
        /\ c.open = b.open /\ c.broken = b.broken /\ c.lost = b.lost
    BY <1>1, SavedIs
  <1>5. /\ k \in SessionRecords(C) /\ k.driver = b.driver /\ k.store = b.seen
        /\ k.seen = b.seen /\ k.open = b.open /\ k.active = FALSE /\ k.dirty = FALSE
        /\ k.failed = FALSE /\ k.broken = b.broken /\ k.lost = b.lost
    BY <1>4, FreshIs
  <1> HIDE DEF l
  <1>6. /\ u \in SessionRecords(C) /\ u.driver = b.driver /\ u.store = b.seen
        /\ u.open = b.open /\ u.active = b.active
        /\ u.failed = b.failed /\ u.lost = l
    BY <1>1, Zenon DEF SessionRecords
  <1>7. /\ v \in SessionRecords(C) /\ v.driver = b.driver /\ v.store = b.seen
        /\ v.seen = b.seen /\ v.open = b.open /\ v.active = b.active
        /\ v.failed = b.failed /\ v.broken = TRUE /\ v.lost = l
    BY <1>6, GoneIs
  <1>8. Committed(b) = IF b.failed THEN f ELSE k
    BY Zenon DEF Committed
  <1>9. Unanswered(b) = {Err(g, 1), Err(v, 1)}
    BY Zenon DEF Unanswered, l
  <1> HIDE DEF f, g, c, k, u, v
  <1> DEFINE Waits == InTransaction(b) \/ ~b.open \/ b.broken
  <1>10. \/ (o = Err(b, 0) \/ o = Err(b, 1)) /\ Waits
         \/ o = Err(g, 1) /\ b.driver # "sqlite" /\ Waits
         \/ o = Err(v, 1) /\ b.driver # "sqlite" /\ Waits
         \/ o = Ok(f, 0) /\ b.failed /\ b.open /\ ~b.broken
         \/ o = Ok(k, 0) /\ ~b.failed /\ b.open /\ ~b.broken
         \/ o = Ok(b, 0) /\ ~InTransaction(b) /\ b.open /\ ~b.broken
    <2>1. CASE ~b.open \/ b.broken
      BY <2>1 DEF commit
    <2>2. CASE b.open /\ ~b.broken /\ b.driver = "sqlite"
      BY <1>8, <2>2 DEF commit, InTransaction
    <2>3. CASE b.open /\ ~b.broken /\ b.driver = "psycopg"
      BY <1>8, <1>9, <2>3 DEF commit, InTransaction
    <2>4. CASE b.open /\ ~b.broken /\ b.driver = "pg8000"
      BY <1>8, <1>9, <2>4 DEF commit, InTransaction
    <2>5. QED  BY <1>1, <2>1, <2>2, <2>3, <2>4 DEF Drivers
  <1>11. CASE o = Err(b, 0) /\ Waits
    BY <1>11 DEF Err, Outcomes, CommitsTo
  <1>12. CASE o = Err(b, 1) /\ Waits
    BY <1>12 DEF Err, Outcomes, CommitsTo
  <1>13. CASE o = Err(g, 1) /\ b.driver # "sqlite" /\ Waits
    <2>1. g \in Sessions(C)
      BY <1>1, <1>3, <1>13 DEF Sessions, Settled
    <2>2. QED  BY <1>3, <1>13, <2>1 DEF Err, Outcomes, CommitsTo
  <1>14. CASE o = Err(v, 1) /\ b.driver # "sqlite" /\ Waits
    <2>1. v \in Sessions(C)
      BY <1>1, <1>7, <1>14 DEF Sessions, Settled
    <2>2. b.lost => v.lost
      BY <1>7 DEF l
    <2>3. ~v.lost => v.store = b.store
      BY <1>7 DEF l
    <2>4. QED  BY <1>7, <1>14, <2>1, <2>2, <2>3 DEF Err, Outcomes, CommitsTo
  <1>15. CASE o = Ok(f, 0) /\ b.failed /\ b.open /\ ~b.broken
    <2>1. f \in Sessions(C)
      BY <1>1, <1>2 DEF Sessions, Settled
    <2>2. ~has_pending_transaction(f)
      BY <1>2, <1>15 DEF has_pending_transaction
    <2>3. QED  BY <1>2, <1>15, <2>1, <2>2 DEF Ok, Outcomes, CommitsTo
  <1>16. CASE o = Ok(k, 0) /\ ~b.failed /\ b.open /\ ~b.broken
    <2>1. k \in Sessions(C)
      BY <1>1, <1>5 DEF Sessions, Settled
    <2>2. ~has_pending_transaction(k)
      BY <1>5, <1>16 DEF has_pending_transaction
    <2>3. QED  BY <1>5, <1>16, <2>1, <2>2 DEF Ok, Outcomes, CommitsTo
  <1>17. CASE o = Ok(b, 0) /\ ~InTransaction(b) /\ b.open /\ ~b.broken
    <2>1. b.seen = b.store /\ ~has_pending_transaction(b) /\ ~b.failed
      BY <1>1, <1>17 DEF Settled, Holding, InTransaction, has_pending_transaction
    <2>2. QED  BY <1>17, <2>1 DEF Ok, Outcomes, CommitsTo
  <1>18. QED  BY <1>10, <1>11, <1>12, <1>13, <1>14, <1>15, <1>16, <1>17

\* What PostgreSQL's handler does after a statement failed on session x.
LEMMA UndoneIs ==
  ASSUME NEW C, NEW x \in Sessions(C), IsServer(x),
         NEW p \in (IF x.active THEN {Ok(x, 0)} ELSE postgresql_rollback(x))
  PROVE  /\ p \in Outcomes(C) /\ Durable(x, p.db) /\ p.db.seen \in {x.seen, x.store}
         /\ p.db.open => x.open
         /\ x.driver = "pg8000" => p.db.active = x.active
  <1>1. CASE x.active
    <2>1. p = Ok(x, 0)
      BY <1>1
    <2>2. QED  BY <2>1 DEF Durable, Ok, Outcomes
  <1>2. CASE ~x.active
    <2>1. p \in rollback(x)
      BY <1>2, Zenon DEF rollback
    <2>2. p \in Outcomes(C) /\ RollsBackTo(x, p.db, p.ok)
      BY <2>1, RollsBack
    <2>3. x.active = FALSE /\ p.db.active \in BOOLEAN
      BY <1>2, <2>2 DEF Sessions, SessionRecords, Outcomes
    <2>4. QED  BY <2>2, <2>3 DEF RollsBackTo, Durable
  <1>3. QED  BY <1>1, <1>2

\* Sessions a failing statement may leave, before the handler's own rollback.
FailsTo(C, b, s, x) ==
  LET after == Apply(b.driver, b.seen, s)
  IN /\ x \in Sessions(C) /\ x.driver = b.driver /\ x.open = b.open /\ x.active = b.active
     /\ b.lost => x.lost
     /\ InTransaction(b) => Durable(b, x) /\ x.seen \in {b.seen, b.store}
     /\ ~InTransaction(b) =>
          /\ x.store \in {b.store, after} /\ x.seen = x.store
          /\ ~x.lost => x.store = b.store

\* The statements of the handlers, whatever they raise and roll back.
LEMMA Executes ==
  ASSUME NEW C, NEW b \in Sessions(C), NEW s, Apply(b.driver, b.seen, s) \in C,
         NEW o \in execute(b, s)
  PROVE  o \in Outcomes(C) /\ ExecutesTo(b, s, o.db, o.ok)
  <1> DEFINE W == Apply(b.driver, b.seen, s)
             d == Done(b, s)
             Undo(x) == IF x.active THEN {Ok(x, 0)} ELSE postgresql_rollback(x)
             y == b.active \/ b.driver = "psycopg"
             r == [b EXCEPT !.failed = y]
             g == Gone(b)
             l == d.lost \/ d.store # b.store
             u == [d EXCEPT !.lost = l]
             v == Gone(u)
  <1>1. b \in SessionRecords(C) /\ Settled(b) /\ b.driver \in Drivers /\ y \in BOOLEAN
    BY DEF Sessions, SessionRecords
  <1>2. /\ d \in SessionRecords(C) /\ d.driver = b.driver
        /\ d.seen = W
        /\ d.store = IF InTransaction(b) THEN b.store ELSE d.seen
        /\ d.open = b.open /\ d.active = b.active
        /\ d.dirty = (b.dirty \/ InTransaction(b))
        /\ d.failed = b.failed /\ d.broken = b.broken /\ d.lost = b.lost
    BY <1>1, DoneIs
  <1>3. l \in BOOLEAN
    BY <1>2 DEF SessionRecords
  <1> HIDE DEF y, W, d
  <1>4. /\ r \in SessionRecords(C) /\ r.driver = b.driver /\ r.store = b.store
        /\ r.seen = b.seen /\ r.open = b.open /\ r.active = b.active /\ r.dirty = b.dirty
        /\ r.failed = y /\ r.broken = b.broken /\ r.lost = b.lost
    BY <1>1, Zenon DEF SessionRecords
  <1>5. /\ g \in SessionRecords(C) /\ g.driver = b.driver /\ g.store = b.store
        /\ g.seen = b.store /\ g.open = b.open /\ g.active = b.active
        /\ g.failed = b.failed /\ g.broken = TRUE /\ g.lost = b.lost
    BY <1>1, GoneIs
  <1> HIDE DEF l
  <1>6. /\ u \in SessionRecords(C) /\ u.driver = b.driver /\ u.store = d.store
        /\ u.open = b.open /\ u.active = b.active /\ u.failed = b.failed /\ u.lost = l
    BY <1>2, <1>3, Zenon DEF SessionRecords
  <1>7. /\ v \in SessionRecords(C) /\ v.driver = b.driver /\ v.store = d.store
        /\ v.seen = d.store /\ v.open = b.open /\ v.active = b.active
        /\ v.failed = b.failed /\ v.broken = TRUE /\ v.lost = l
    BY <1>6, GoneIs
  <1> HIDE DEF r, g, u, v
  <1>8. FailsTo(C, b, s, b)
    <2>1. ~InTransaction(b) => b.seen = b.store
      BY <1>1 DEF Settled, Holding, InTransaction
    <2>2. QED  BY <2>1 DEF FailsTo, Durable
  <1>9. b.driver # "sqlite" /\ b.open => FailsTo(C, b, s, r)
    <2>1. ~InTransaction(b) => b.seen = b.store
      BY <1>1 DEF Settled, Holding, InTransaction
    <2>2. b.driver # "sqlite" /\ b.open => r \in Sessions(C)
      BY <1>1, <1>4 DEF Sessions, Settled, Holding, y
    <2>3. QED  BY <1>4, <2>1, <2>2 DEF FailsTo, Durable
  <1>10. b.driver # "sqlite" => FailsTo(C, b, s, g)
    <2>1. b.driver # "sqlite" => g \in Sessions(C)
      BY <1>1, <1>5 DEF Sessions, Settled
    <2>2. QED  BY <1>5, <2>1 DEF FailsTo, Durable
  <1>11. b.driver # "sqlite" => FailsTo(C, b, s, v)
    <2>1. b.driver # "sqlite" => v \in Sessions(C)
      BY <1>1, <1>7 DEF Sessions, Settled
    <2>2. InTransaction(b) => d.store = b.store /\ l = b.lost
      BY <1>1, <1>2, <1>3 DEF l, SessionRecords
    <2>3. (b.lost => l) /\ (~l => d.store = b.store)
      BY <1>2 DEF l
    <2>4. ~InTransaction(b) => d.store = W
      BY <1>2
    <2>5. QED  BY <1>7, <2>1, <2>2, <2>3, <2>4 DEF FailsTo, Durable, W
  <1>12. CASE o = Ok(d, 0) /\ b.open /\ ~b.failed /\ ~b.broken
    <2>1. d \in Sessions(C)
      BY <1>1, <1>2, <1>12 DEF Sessions, Settled, Holding, InTransaction, SessionRecords
    <2>2. o.db = d /\ o.ok = TRUE /\ o \in Outcomes(C)
      BY <1>12, <2>1 DEF Ok, Outcomes
    <2>3. InTransaction(d) <=> InTransaction(b)
      BY <1>2 DEF InTransaction
    <2>4. ~InTransaction(b) => ~d.active
      BY <1>2 DEF InTransaction
    <2>5. QED  BY <1>2, <1>12, <2>2, <2>3, <2>4 DEF ExecutesTo, W
  <1>13. CASE o = Err(b, 0) /\ ~b.open
    <2>1. o.db = b /\ o.ok = FALSE /\ o \in Outcomes(C)
      BY <1>13 DEF Err, Outcomes
    <2>2. ~InTransaction(b) => ~b.active
      BY DEF InTransaction
    <2>3. b.seen = b.store
      BY <1>1, <1>13 DEF Settled, Holding
    <2>4. QED  BY <2>1, <2>2, <2>3 DEF ExecutesTo
  <1>14. CASE \E p \in sqlite_rollback(b) : b.driver = "sqlite" /\ o = Err(p.db, 1 + p.faults)
    <2>1. PICK p \in rollback(b) : b.driver = "sqlite" /\ o = Err(p.db, 1 + p.faults)
      BY <1>14 DEF rollback, IsServer
    <2>2. p \in Outcomes(C) /\ RollsBackTo(b, p.db, p.ok)
      BY <2>1, RollsBack
    <2>3. o \in Outcomes(C) /\ o.db = p.db /\ o.ok = FALSE
      BY <2>1, <2>2 DEF Err, Outcomes
    <2>4. InTransaction(b) /\ InTransaction(p.db)
      BY <2>1, <2>2 DEF RollsBackTo, Durable, InTransaction
    <2>5. QED  BY <2>2, <2>3, <2>4 DEF RollsBackTo, Durable, ExecutesTo
  <1>15. ASSUME NEW x, FailsTo(C, b, s, x), b.driver # "sqlite", b.open \/ x = b,
                NEW n \in Nat, NEW p \in Undo(x), o = Err(p.db, n + p.faults)
         PROVE  o \in Outcomes(C) /\ ExecutesTo(b, s, o.db, o.ok)
    <2>1. x \in Sessions(C) /\ IsServer(x)
      BY <1>15 DEF IsServer, FailsTo
    <2>2. /\ p \in Outcomes(C) /\ Durable(x, p.db) /\ p.db.seen \in {x.seen, x.store}
          /\ p.db.open => x.open
          /\ x.driver = "pg8000" => p.db.active = x.active
      BY <1>15, <2>1, UndoneIs
    <2>3. o \in Outcomes(C) /\ o.db = p.db /\ o.ok = FALSE
      BY <1>15, <2>2 DEF Err, Outcomes
    <2>4. /\ InTransaction(b) => InTransaction(p.db)
          /\ ~InTransaction(b) => ~p.db.active
      BY <1>15, <2>2 DEF FailsTo, InTransaction, Durable
    <2> HIDE DEF Undo
    <2>5. ~b.open => p.db.store = b.store
      BY <1>15, <2>2 DEF Durable
    <2>6. QED  BY <1>15, <2>2, <2>3, <2>4, <2>5 DEF FailsTo, Durable, ExecutesTo
  <1>16. CASE b.driver = "sqlite"
    <2>1. execute(b, s) = sqlite_execute(b, s) /\ ~IsServer(b)
      BY <1>16 DEF execute, IsServer
    <2>2. CASE ~b.open
      BY <1>13, <2>1, <2>2 DEF sqlite_execute
    <2>3. CASE b.open
      <3>1. o \in {Ok(d, 0)} \cup Handling({Err(b, 1)}, sqlite_rollback)
        BY <2>1, <2>3, Zenon DEF sqlite_execute, d
      <3>2. CASE o \in Handling({Err(b, 1)}, sqlite_rollback)
        <4>1. Err(b, 1).ok = FALSE /\ Err(b, 1).db = b /\ Err(b, 1).faults = 1
          BY DEF Err
        <4>2. o \in {Err(p.db, 1 + p.faults) : p \in sqlite_rollback(b)}
          BY <3>2, <4>1, Zenon DEF Handling
        <4>3. QED  BY <1>14, <1>16, <4>2
      <3>3. ~b.failed /\ ~b.broken
        BY <1>1, <1>16 DEF Settled
      <3>4. QED  BY <1>12, <2>3, <3>1, <3>2, <3>3
    <2>4. QED  BY <2>2, <2>3
  <1>17. CASE b.driver # "sqlite"
    <2>1. execute(b, s) = postgresql_execute(b, s) /\ IsServer(b)
      BY <1>17 DEF execute, IsServer
    <2>2. CASE ~b.open
      BY <1>13, <2>1, <2>2, Zenon DEF postgresql_execute
    <2>3. CASE b.open /\ (b.broken \/ b.failed)
      <3>1. o \in Handling({Err(b, 0)}, Undo)
        BY <2>1, <2>3, Zenon DEF postgresql_execute
      <3>2. Err(b, 0).ok = FALSE /\ Err(b, 0).db = b /\ Err(b, 0).faults = 0
        BY DEF Err
      <3>3. PICK p \in Undo(b) : o = Err(p.db, 0 + p.faults)
        BY <3>1, <3>2, Zenon DEF Handling
      <3> HIDE DEF Undo
      <3>4. QED  BY <1>8, <1>15, <1>17, <3>3
    <2>4. CASE b.open /\ ~(b.broken \/ b.failed)
      <3>1. o \in {Ok(d, 0)} \cup Handling({Err(r, 1), Err(g, 1), Err(v, 1)}, Undo)
        BY <2>1, <2>4, Zenon DEF postgresql_execute, d, r, g, u, v, l, y
      <3>2. CASE o \in Handling({Err(r, 1), Err(g, 1), Err(v, 1)}, Undo)
        <4>1. /\ Err(r, 1).ok = FALSE /\ Err(r, 1).db = r /\ Err(r, 1).faults = 1
              /\ Err(g, 1).ok = FALSE /\ Err(g, 1).db = g /\ Err(g, 1).faults = 1
              /\ Err(v, 1).ok = FALSE /\ Err(v, 1).db = v /\ Err(v, 1).faults = 1
          BY DEF Err
        <4> HIDE DEF Undo
        <4>2. PICK e \in {Err(r, 1), Err(g, 1), Err(v, 1)} :
                o \in IF e.ok THEN {e} ELSE {Err(p.db, e.faults + p.faults) : p \in Undo(e.db)}
          BY <3>2, Zenon DEF Handling
        <4> DEFINE x == e.db
        <4>3. x \in {r, g, v} /\ e.ok = FALSE /\ e.faults = 1
          BY <4>1, <4>2, Zenon
        <4>4. PICK p \in Undo(x) : o = Err(p.db, 1 + p.faults)
          BY <4>2, <4>3, Zenon
        <4> HIDE DEF x
        <4>5. FailsTo(C, b, s, x)
          BY <1>9, <1>10, <1>11, <1>17, <2>4, <4>3
        <4>6. QED  BY <1>15, <1>17, <2>4, <4>4, <4>5
      <3>3. QED  BY <1>12, <2>4, <3>1, <3>2
    <2>5. QED  BY <2>2, <2>3, <2>4
  <1>18. QED  BY <1>16, <1>17

\* Rows of one call, whether or not the handler takes a transaction of its own.
LEMMA Inserts ==
  ASSUME NEW C, NEW b \in Sessions(C), NEW s, Apply(b.driver, b.seen, s) \in C,
         NEW o \in insert_many(b, s)
  PROVE  o \in Outcomes(C) /\ ExecutesTo(b, s, o.db, o.ok)
  <1> DEFINE Own == Then(Then(begin_transaction(b), LAMBDA x : execute(x, s)), commit)
             After(x) == IF has_pending_transaction(x) THEN rollback(x) ELSE {Ok(x, 0)}
             W == Apply(b.driver, b.seen, s)
             \* What the steps of the handler's own transaction leave.
             Leaves(x, ok) ==
               /\ x \in Sessions(C) /\ x.driver = b.driver /\ (x.open => b.open)
               /\ b.lost => x.lost
               /\ x.store \in {b.store, W} /\ (~x.lost \/ ~b.open => x.store = b.store \/ ok)
               /\ ok => /\ x.store = W /\ x.seen = W /\ b.open /\ x.open
                        /\ ~has_pending_transaction(x) /\ ~b.failed /\ ~b.broken
                        /\ ~x.failed /\ ~x.broken
  <1>1. CASE o \in execute(b, s)
    BY <1>1, Executes
  <1>2. CASE o \notin execute(b, s)
    <2>1. b.driver = "pg8000" /\ ~has_pending_transaction(b) /\ o \in Handling(Own, After)
      BY <1>2, Zenon DEF insert_many
    <2>2. b.active = FALSE /\ b.seen = b.store /\ Settled(b) /\ b.failed = FALSE
      BY <2>1 DEF has_pending_transaction, Sessions, SessionRecords, Settled, Holding
    <2>3. ~InTransaction(b)
      BY <2>1, <2>2 DEF InTransaction
    <2>4. ASSUME NEW e \in Own
          PROVE  e \in Outcomes(C) /\ Leaves(e.db, e.ok)
      <3> DEFINE First == Then(begin_transaction(b), LAMBDA x : execute(x, s))
      <3>1. ASSUME NEW q \in begin_transaction(b)
            PROVE  /\ q \in Outcomes(C) /\ BeginsTo(b, q.db, q.ok) /\ q.faults \in Nat
                   /\ q.ok \in BOOLEAN /\ q.db \in Sessions(C)
        BY <3>1, Begins DEF Outcomes
      <3>2. ASSUME NEW d \in First
            PROVE  /\ d \in Outcomes(C)
                   /\ ~d.ok => Leaves(d.db, FALSE)
                   /\ d.ok => /\ d.db.driver = b.driver /\ d.db.store = b.store /\ d.db.lost = b.lost
                              /\ d.db.seen = W /\ d.db.open /\ b.open
                              /\ ~b.failed /\ ~b.broken /\ ~d.db.failed /\ ~d.db.broken
        <4>1. \/ \E q \in begin_transaction(b) : ~q.ok /\ d = q
              \/ \E q \in begin_transaction(b) :
                   q.ok /\ \E p \in execute(q.db, s) : d = [p EXCEPT !.faults = @ + q.faults]
          BY <3>2, Zenon DEF Then
        <4>2. CASE \E q \in begin_transaction(b) : ~q.ok /\ d = q
          <5>1. d \in begin_transaction(b) /\ ~d.ok
            BY <4>2
          <5>2. d \in Outcomes(C) /\ BeginsTo(b, d.db, d.ok) /\ d.db \in Sessions(C)
            BY <3>1, <5>1
          <5>3. Leaves(d.db, FALSE)
            BY <5>1, <5>2 DEF BeginsTo, Durable
          <5>4. QED  BY <5>1, <5>2, <5>3
        <4>3. CASE \E q \in begin_transaction(b) :
                   q.ok /\ \E p \in execute(q.db, s) : d = [p EXCEPT !.faults = @ + q.faults]
          <5>1. PICK q \in begin_transaction(b) :
                   q.ok /\ \E p \in execute(q.db, s) : d = [p EXCEPT !.faults = @ + q.faults]
            BY <4>3
          <5>2. PICK p \in execute(q.db, s) : d = [p EXCEPT !.faults = @ + q.faults]
            BY <5>1
          <5>3. /\ q.db \in Sessions(C) /\ q.faults \in Nat /\ Durable(b, q.db)
                /\ q.db.seen = b.seen /\ q.db.active /\ q.db.open = b.open
                /\ q.db.failed = b.failed /\ q.db.broken = b.broken
            BY <3>1, <5>1 DEF BeginsTo
          <5>4. Apply(q.db.driver, q.db.seen, s) = W /\ InTransaction(q.db)
            BY <5>3 DEF Durable, InTransaction
          <5>5. p \in Outcomes(C) /\ ExecutesTo(q.db, s, p.db, p.ok)
            BY <5>2, <5>3, <5>4, Executes
          <5>6. d \in Outcomes(C) /\ d.db = p.db /\ d.ok = p.ok
            BY <5>2, <5>3, <5>5, SummedIs
          <5>7. d.db \in Sessions(C)
            BY <5>6 DEF Outcomes
          <5> HIDE DEF W
          <5>8. ~d.ok => Leaves(d.db, FALSE)
            BY <5>3, <5>4, <5>5, <5>6, <5>7 DEF ExecutesTo, Durable
          <5>9. d.ok => /\ d.db.driver = b.driver /\ d.db.store = b.store /\ d.db.lost = b.lost
                        /\ d.db.seen = W /\ d.db.open /\ b.open
                        /\ ~b.failed /\ ~b.broken /\ ~d.db.failed /\ ~d.db.broken
            BY <5>3, <5>4, <5>5, <5>6 DEF ExecutesTo, Durable
          <5>10. QED  BY <5>6, <5>8, <5>9
        <4>4. QED  BY <4>1, <4>2, <4>3
      <3> HIDE DEF First
      <3>3. \/ \E d \in First : ~d.ok /\ e = d
            \/ \E d \in First :
                 d.ok /\ \E p \in commit(d.db) : e = [p EXCEPT !.faults = @ + d.faults]
        BY <2>4, Zenon DEF Then, First
      <3>4. CASE \E d \in First : ~d.ok /\ e = d
        <4>1. e \in First /\ ~e.ok
          BY <3>4
        <4>2. e \in Outcomes(C) /\ Leaves(e.db, FALSE) /\ e.ok = FALSE
          BY <3>2, <4>1 DEF Outcomes
        <4>3. QED  BY <4>2
      <3>5. CASE \E d \in First :
                 d.ok /\ \E p \in commit(d.db) : e = [p EXCEPT !.faults = @ + d.faults]
        <4>1. PICK d \in First :
                 d.ok /\ \E p \in commit(d.db) : e = [p EXCEPT !.faults = @ + d.faults]
          BY <3>5
        <4>2. PICK p \in commit(d.db) : e = [p EXCEPT !.faults = @ + d.faults]
          BY <4>1
        <4>3. /\ d \in Outcomes(C) /\ d.db \in Sessions(C) /\ d.faults \in Nat
              /\ d.db.driver = b.driver /\ d.db.store = b.store /\ d.db.lost = b.lost
              /\ d.db.seen = W /\ d.db.open /\ b.open
              /\ ~b.failed /\ ~b.broken /\ ~d.db.failed /\ ~d.db.broken
          BY <3>2, <4>1 DEF Outcomes
        <4>4. p \in Outcomes(C) /\ CommitsTo(d.db, p.db, p.ok)
          BY <4>2, <4>3, Commits
        <4>5. e \in Outcomes(C) /\ e.db = p.db /\ e.ok = p.ok
          BY <4>2, <4>3, <4>4, SummedIs
        <4>6. p.db \in Sessions(C) /\ p.ok \in BOOLEAN
          BY <4>4 DEF Outcomes
        <4>7. p.ok => ~p.db.failed /\ ~p.db.broken
          BY <4>4 DEF CommitsTo
        <4> HIDE DEF W
        <4>8. Leaves(p.db, p.ok)
          BY <4>3, <4>4, <4>6, <4>7 DEF CommitsTo
        <4>9. QED  BY <4>5, <4>8
      <3>6. QED  BY <3>3, <3>4, <3>5
    <2> HIDE DEF Own
    <2>5. \/ \E e \in Own : e.ok /\ o = e
          \/ \E e \in Own : ~e.ok /\ \E p \in After(e.db) : o = Err(p.db, e.faults + p.faults)
      BY <2>1, Zenon DEF Handling
    <2>6. CASE \E e \in Own : e.ok /\ o = e
      <3>1. o \in Own /\ o.ok
        BY <2>6
      <3>2. o \in Outcomes(C) /\ Leaves(o.db, TRUE) /\ o.ok = TRUE
        BY <2>4, <3>1 DEF Outcomes
      <3> HIDE DEF W
      <3>3. o.db.active = FALSE
        BY <3>2 DEF has_pending_transaction, Sessions, SessionRecords
      <3>4. QED  BY <2>2, <2>3, <3>2, <3>3 DEF ExecutesTo, W
    <2>7. CASE \E e \in Own : ~e.ok /\ \E p \in After(e.db) : o = Err(p.db, e.faults + p.faults)
      <3>1. PICK e \in Own : ~e.ok /\ \E p \in After(e.db) : o = Err(p.db, e.faults + p.faults)
        BY <2>7
      <3>2. PICK p \in After(e.db) : o = Err(p.db, e.faults + p.faults)
        BY <3>1
      <3>3. e \in Outcomes(C) /\ Leaves(e.db, FALSE) /\ e.ok = FALSE
        BY <2>4, <3>1 DEF Outcomes
      <3> DEFINE x == e.db
      <3>4. x \in Sessions(C) /\ e.faults \in Nat /\ x.driver = "pg8000"
        BY <2>1, <3>3 DEF Outcomes
      <3>5. p \in Outcomes(C) /\ Durable(x, p.db) /\ (p.db.open => x.open) /\ ~p.db.active
        <4>1. CASE has_pending_transaction(x)
          <5>1. p \in rollback(x)
            BY <3>2, <4>1
          <5>2. p \in Outcomes(C) /\ RollsBackTo(x, p.db, p.ok)
            BY <3>4, <5>1, RollsBack
          <5>3. QED  BY <3>4, <5>2 DEF RollsBackTo
        <4>2. CASE ~has_pending_transaction(x)
          <5>1. p = Ok(x, 0)
            BY <3>2, <4>2
          <5>2. ~x.active
            BY <4>2 DEF has_pending_transaction
          <5> HIDE DEF x
          <5>3. QED  BY <3>4, <5>1, <5>2 DEF Ok, Outcomes, Durable
        <4>3. QED  BY <4>1, <4>2
      <3>6. o \in Outcomes(C) /\ o.db = p.db /\ o.ok = FALSE
        <4>1. p.faults \in Nat /\ p.db \in Sessions(C)
          BY <3>5 DEF Outcomes
        <4>2. e.faults + p.faults \in Nat
          BY <3>4, <4>1
        <4>3. QED  BY <3>2, <4>1, <4>2 DEF Err, Outcomes
      <3>7. p.db.seen = p.db.store /\ p.db.driver = "pg8000"
        <4>1. Settled(p.db) /\ p.db.driver = "pg8000"
          BY <3>4, <3>5 DEF Outcomes, Sessions, Durable
        <4>2. QED  BY <3>5, <4>1 DEF Settled, Holding
      <3> HIDE DEF W
      <3>8. QED  BY <2>2, <2>3, <3>3, <3>5, <3>6, <3>7 DEF ExecutesTo, Durable, W
    <2>8. QED  BY <2>5, <2>6, <2>7
  <1>3. QED  BY <1>1, <1>2

-----------------------------------------------------------------------------
(***************************************************************************)
(* Calls of the handle, in terms of the calls of its databases.            *)
(***************************************************************************)
HandlesOf(C) ==
  [dual : BOOLEAN, p : Sessions(C), s : Sessions(C), active : BOOLEAN, gen : Nat,
   sync : BOOLEAN, invalid : BOOLEAN]

Results(C) == [db : HandlesOf(C), ok : BOOLEAN, faults : Nat]

\* The handle k stands for the same databases; its secondary, its flags as before.
Kept(hd, k) == k.dual = hd.dual /\ k.s = hd.s /\ k.active = hd.active /\ k.sync = hd.sync

BeginsHandle(C, hd, k, ok) ==
  /\ k.dual = hd.dual
  /\ is_transaction_active(hd) => k = hd /\ ok
  /\ ~is_transaction_active(hd) =>
       \/ /\ ok /\ BeginsTo(hd.p, k.p, TRUE) /\ k.active = hd.dual /\ k.sync = hd.sync
          /\ IF hd.dual THEN BeginsTo(hd.s, k.s, TRUE) ELSE k.s = hd.s
       \/ ~ok /\ BeginsTo(hd.p, k.p, FALSE) /\ Kept(hd, k)
       \/ /\ ~ok /\ hd.dual /\ BeginsTo(hd.s, k.s, FALSE)
          /\ k.active = hd.active /\ ~k.sync
          /\ \E x \in Sessions(C), q \in BOOLEAN :
               BeginsTo(hd.p, x, TRUE) /\ RollsBackTo(x, k.p, q)

ExecutesHandle(hd, s, k, ok) ==
  /\ k.dual = hd.dual /\ k.active = hd.active
  /\ \/ ~ok /\ ExecutesTo(hd.p, s, k.p, FALSE) /\ Kept(hd, k)
     \/ ok /\ ~hd.dual /\ ExecutesTo(hd.p, s, k.p, TRUE) /\ Kept(hd, k)
     \/ /\ ok /\ hd.dual /\ ExecutesTo(hd.p, s, k.p, TRUE) /\ ExecutesTo(hd.s, s, k.s, TRUE)
        /\ k.sync = hd.sync
     \/ /\ hd.dual /\ ExecutesTo(hd.p, s, k.p, TRUE) /\ ExecutesTo(hd.s, s, k.s, FALSE)
        /\ ok = ~hd.active /\ ~k.sync

CommitsHandle(hd, k, ok) ==
  /\ k.dual = hd.dual
  /\ \/ ~ok /\ CommitsTo(hd.p, k.p, FALSE) /\ Kept(hd, k)
     \/ ok /\ ~hd.dual /\ CommitsTo(hd.p, k.p, TRUE) /\ Kept(hd, k)
     \/ /\ ok /\ hd.dual /\ CommitsTo(hd.p, k.p, TRUE) /\ ~k.active
        /\ \E q \in BOOLEAN : CommitsTo(hd.s, k.s, q) /\ k.sync = (hd.sync /\ q)

RollsBackHandle(hd, k, ok) ==
  /\ k.dual = hd.dual
  /\ \/ ~hd.dual /\ RollsBackTo(hd.p, k.p, ok) /\ Kept(hd, k)
     \/ /\ hd.dual /\ ~k.active
        /\ \E q, r \in BOOLEAN :
             /\ RollsBackTo(hd.p, k.p, q) /\ RollsBackTo(hd.s, k.s, r)
             /\ ok = (q /\ r) /\ k.sync = (hd.sync /\ r)

ClosesHandle(hd, k, ok) ==
  /\ k.dual = hd.dual /\ k.sync = hd.sync /\ ClosesTo(hd.p, k.p, ok)
  /\ \/ ~hd.dual /\ Kept(hd, k)
     \/ /\ hd.dual /\ k.active = (hd.active /\ ~ok)
        /\ \E q \in BOOLEAN : ClosesTo(hd.s, k.s, q)

\* An outcome of the handle from an outcome of its primary, of its secondary.
FromPrimary(hd, q, o) == o = [q EXCEPT !.db = [hd EXCEPT !.p = q.db]]
FromSecondary(hd, q, o) == o = [q EXCEPT !.db = [hd EXCEPT !.s = q.db]]

LEMMA OnPrimaryIs ==
  ASSUME NEW C, NEW hd \in HandlesOf(C), NEW q \in Outcomes(C),
         NEW o, FromPrimary(hd, q, o)
  PROVE  /\ o \in Results(C) /\ o.ok = q.ok /\ o.db.p = q.db /\ Kept(hd, o.db)
  <1> DEFINE k == [hd EXCEPT !.p = q.db]
  <1>1. q.db \in Sessions(C) /\ q.ok \in BOOLEAN /\ q.faults \in Nat
    BY DEF Outcomes
  <1>2. k \in HandlesOf(C) /\ k.p = q.db /\ Kept(hd, k)
    BY <1>1, Zenon DEF HandlesOf, Kept
  <1> HIDE DEF k
  <1>3. o \in Results(C) /\ o.ok = q.ok /\ o.db = k
    <2>1. o = [q EXCEPT !.db = k]
      BY Zenon DEF k, FromPrimary
    <2>2. QED  BY <1>1, <1>2, <2>1, Zenon DEF Outcomes, Results
  <1>4. QED  BY <1>2, <1>3

LEMMA OnSecondaryIs ==
  ASSUME NEW C, NEW hd \in HandlesOf(C), NEW q \in Outcomes(C),
         NEW o, FromSecondary(hd, q, o)
  PROVE  /\ o \in Results(C) /\ o.ok = q.ok /\ o.db.p = hd.p /\ o.db.s = q.db
         /\ o.db.dual = hd.dual /\ o.db.active = hd.active /\ o.db.sync = hd.sync
  <1> DEFINE k == [hd EXCEPT !.s = q.db]
  <1>1. q.db \in Sessions(C) /\ q.ok \in BOOLEAN /\ q.faults \in Nat
    BY DEF Outcomes
  <1>2. /\ k \in HandlesOf(C) /\ k.p = hd.p /\ k.s = q.db
        /\ k.dual = hd.dual /\ k.active = hd.active /\ k.sync = hd.sync
    BY <1>1, Zenon DEF HandlesOf
  <1> HIDE DEF k
  <1>3. o \in Results(C) /\ o.ok = q.ok /\ o.db = k
    <2>1. o = [q EXCEPT !.db = k]
      BY Zenon DEF k, FromSecondary
    <2>2. QED  BY <1>1, <1>2, <2>1, Zenon DEF Outcomes, Results
  <1>4. QED  BY <1>2, <1>3

\* Adding up faults changes nothing else.
LEMMA CountedIs ==
  ASSUME NEW C, NEW o \in Results(C), NEW n \in Nat
  PROVE  LET e == [o EXCEPT !.faults = @ + n] IN
         e \in Results(C) /\ e.db = o.db /\ e.ok = o.ok
  <1> DEFINE m == o.faults + n
             e == [o EXCEPT !.faults = m]
  <1>1. m \in Nat
    BY DEF Results
  <1> HIDE DEF m
  <1>2. e \in Results(C) /\ e.db = o.db /\ e.ok = o.ok
    BY <1>1, Zenon DEF Results
  <1>3. QED  BY <1>2, Zenon DEF m

LEMMA FieldsOfResults ==
  ASSUME NEW C, NEW o \in Results(C)
  PROVE  o.db \in HandlesOf(C) /\ o.ok \in BOOLEAN /\ o.faults \in Nat
  BY DEF Results

LEMMA FieldsOfHandles ==
  ASSUME NEW C, NEW hd \in HandlesOf(C)
  PROVE  /\ hd.p \in Sessions(C) /\ hd.s \in Sessions(C) /\ hd.dual \in BOOLEAN
         /\ hd.active \in BOOLEAN /\ hd.sync \in BOOLEAN /\ hd.gen \in Nat
  BY DEF HandlesOf

-----------------------------------------------------------------------------
\* The calls of the primary and of the secondary alone.
LEMMA PrimaryBegins ==
  ASSUME NEW C, NEW hd \in HandlesOf(C), NEW e \in OnPrimary(hd, begin_transaction)
  PROVE  e \in Results(C) /\ BeginsTo(hd.p, e.db.p, e.ok) /\ Kept(hd, e.db)
  <1>1. PICK q \in begin_transaction(hd.p) : FromPrimary(hd, q, e)
    BY Zenon DEF OnPrimary, FromPrimary
  <1>2. q \in Outcomes(C) /\ BeginsTo(hd.p, q.db, q.ok)
    BY <1>1, FieldsOfHandles, Begins
  <1>3. e \in Results(C) /\ e.ok = q.ok /\ e.db.p = q.db /\ Kept(hd, e.db)
    BY <1>1, <1>2, OnPrimaryIs
  <1>4. QED  BY <1>2, <1>3

LEMMA SecondaryBegins ==
  ASSUME NEW C, NEW hd \in HandlesOf(C), NEW e \in OnSecondary(hd, begin_transaction)
  PROVE  /\ e \in Results(C) /\ BeginsTo(hd.s, e.db.s, e.ok) /\ e.db.p = hd.p
         /\ e.db.dual = hd.dual /\ e.db.active = hd.active /\ e.db.sync = hd.sync
  <1>1. PICK q \in begin_transaction(hd.s) : FromSecondary(hd, q, e)
    BY Zenon DEF OnSecondary, FromSecondary
  <1>2. q \in Outcomes(C) /\ BeginsTo(hd.s, q.db, q.ok)
    BY <1>1, FieldsOfHandles, Begins
  <1>3. /\ e \in Results(C) /\ e.ok = q.ok /\ e.db.p = hd.p /\ e.db.s = q.db
        /\ e.db.dual = hd.dual /\ e.db.active = hd.active /\ e.db.sync = hd.sync
    BY <1>1, <1>2, OnSecondaryIs
  <1>4. QED  BY <1>2, <1>3

LEMMA PrimaryCommits ==
  ASSUME NEW C, NEW hd \in HandlesOf(C), NEW e \in OnPrimary(hd, commit)
  PROVE  e \in Results(C) /\ CommitsTo(hd.p, e.db.p, e.ok) /\ Kept(hd, e.db)
  <1>1. PICK q \in commit(hd.p) : FromPrimary(hd, q, e)
    BY Zenon DEF OnPrimary, FromPrimary
  <1>2. q \in Outcomes(C) /\ CommitsTo(hd.p, q.db, q.ok)
    BY <1>1, FieldsOfHandles, Commits
  <1>3. e \in Results(C) /\ e.ok = q.ok /\ e.db.p = q.db /\ Kept(hd, e.db)
    BY <1>1, <1>2, OnPrimaryIs
  <1>4. QED  BY <1>2, <1>3

LEMMA SecondaryCommits ==
  ASSUME NEW C, NEW hd \in HandlesOf(C), NEW e \in OnSecondary(hd, commit)
  PROVE  /\ e \in Results(C) /\ CommitsTo(hd.s, e.db.s, e.ok) /\ e.db.p = hd.p
         /\ e.db.dual = hd.dual /\ e.db.active = hd.active /\ e.db.sync = hd.sync
  <1>1. PICK q \in commit(hd.s) : FromSecondary(hd, q, e)
    BY Zenon DEF OnSecondary, FromSecondary
  <1>2. q \in Outcomes(C) /\ CommitsTo(hd.s, q.db, q.ok)
    BY <1>1, FieldsOfHandles, Commits
  <1>3. /\ e \in Results(C) /\ e.ok = q.ok /\ e.db.p = hd.p /\ e.db.s = q.db
        /\ e.db.dual = hd.dual /\ e.db.active = hd.active /\ e.db.sync = hd.sync
    BY <1>1, <1>2, OnSecondaryIs
  <1>4. QED  BY <1>2, <1>3

LEMMA PrimaryRollbacks ==
  ASSUME NEW C, NEW hd \in HandlesOf(C), NEW e \in OnPrimary(hd, rollback)
  PROVE  e \in Results(C) /\ RollsBackTo(hd.p, e.db.p, e.ok) /\ Kept(hd, e.db)
  <1>1. PICK q \in rollback(hd.p) : FromPrimary(hd, q, e)
    BY Zenon DEF OnPrimary, FromPrimary
  <1>2. q \in Outcomes(C) /\ RollsBackTo(hd.p, q.db, q.ok)
    BY <1>1, FieldsOfHandles, RollsBack
  <1>3. e \in Results(C) /\ e.ok = q.ok /\ e.db.p = q.db /\ Kept(hd, e.db)
    BY <1>1, <1>2, OnPrimaryIs
  <1>4. QED  BY <1>2, <1>3

LEMMA SecondaryRollbacks ==
  ASSUME NEW C, NEW hd \in HandlesOf(C), NEW e \in OnSecondary(hd, rollback)
  PROVE  /\ e \in Results(C) /\ RollsBackTo(hd.s, e.db.s, e.ok) /\ e.db.p = hd.p
         /\ e.db.dual = hd.dual /\ e.db.active = hd.active /\ e.db.sync = hd.sync
  <1>1. PICK q \in rollback(hd.s) : FromSecondary(hd, q, e)
    BY Zenon DEF OnSecondary, FromSecondary
  <1>2. q \in Outcomes(C) /\ RollsBackTo(hd.s, q.db, q.ok)
    BY <1>1, FieldsOfHandles, RollsBack
  <1>3. /\ e \in Results(C) /\ e.ok = q.ok /\ e.db.p = hd.p /\ e.db.s = q.db
        /\ e.db.dual = hd.dual /\ e.db.active = hd.active /\ e.db.sync = hd.sync
    BY <1>1, <1>2, OnSecondaryIs
  <1>4. QED  BY <1>2, <1>3

LEMMA PrimaryDisconnects ==
  ASSUME NEW C, NEW hd \in HandlesOf(C), NEW e \in OnPrimary(hd, disconnect)
  PROVE  e \in Results(C) /\ ClosesTo(hd.p, e.db.p, e.ok) /\ Kept(hd, e.db)
  <1>1. PICK q \in disconnect(hd.p) : FromPrimary(hd, q, e)
    BY Zenon DEF OnPrimary, FromPrimary
  <1>2. q \in Outcomes(C) /\ ClosesTo(hd.p, q.db, q.ok)
    BY <1>1, FieldsOfHandles, Disconnects
  <1>3. e \in Results(C) /\ e.ok = q.ok /\ e.db.p = q.db /\ Kept(hd, e.db)
    BY <1>1, <1>2, OnPrimaryIs
  <1>4. QED  BY <1>2, <1>3

LEMMA SecondaryDisconnects ==
  ASSUME NEW C, NEW hd \in HandlesOf(C), NEW e \in OnSecondary(hd, disconnect)
  PROVE  /\ e \in Results(C) /\ ClosesTo(hd.s, e.db.s, e.ok) /\ e.db.p = hd.p
         /\ e.db.dual = hd.dual /\ e.db.active = hd.active /\ e.db.sync = hd.sync
  <1>1. PICK q \in disconnect(hd.s) : FromSecondary(hd, q, e)
    BY Zenon DEF OnSecondary, FromSecondary
  <1>2. q \in Outcomes(C) /\ ClosesTo(hd.s, q.db, q.ok)
    BY <1>1, FieldsOfHandles, Disconnects
  <1>3. /\ e \in Results(C) /\ e.ok = q.ok /\ e.db.p = hd.p /\ e.db.s = q.db
        /\ e.db.dual = hd.dual /\ e.db.active = hd.active /\ e.db.sync = hd.sync
    BY <1>1, <1>2, OnSecondaryIs
  <1>4. QED  BY <1>2, <1>3

-----------------------------------------------------------------------------
\* A commit: the primary decides.
LEMMA CommitIs ==
  ASSUME NEW C, NEW hd \in HandlesOf(C), NEW o \in Commit(hd)
  PROVE  o \in Results(C) /\ CommitsHandle(hd, o.db, o.ok)
  <1> DEFINE Second(g) ==
               {Ok([e.db EXCEPT !.active = FALSE, !.sync = @ /\ e.ok], e.faults)
                : e \in OnSecondary(g, commit)}
             Next2(g) == IF hd.dual THEN Second(g) ELSE {Ok(g, 0)}
  <1>1. ASSUME NEW e \in OnPrimary(hd, commit)
        PROVE  e \in Results(C) /\ CommitsTo(hd.p, e.db.p, e.ok) /\ Kept(hd, e.db)
    BY PrimaryCommits
  <1>2. ASSUME NEW g \in HandlesOf(C), NEW e \in Second(g)
        PROVE  /\ e \in Results(C) /\ e.ok = TRUE /\ e.db.p = g.p /\ e.db.dual = g.dual
               /\ e.db.active = FALSE
               /\ \E q \in BOOLEAN : CommitsTo(g.s, e.db.s, q) /\ e.db.sync = (g.sync /\ q)
    <2>1. PICK d \in OnSecondary(g, commit) :
            e = Ok([d.db EXCEPT !.active = FALSE, !.sync = @ /\ d.ok], d.faults)
      BY <1>2, Zenon
    <2> HIDE DEF Second
    <2>2. /\ d \in Results(C) /\ CommitsTo(g.s, d.db.s, d.ok) /\ d.db.p = g.p
          /\ d.db.dual = g.dual /\ d.db.active = g.active /\ d.db.sync = g.sync
      BY SecondaryCommits
    <2>3. d.db \in HandlesOf(C) /\ d.ok \in BOOLEAN /\ d.faults \in Nat
      BY <2>2, FieldsOfResults
    <2> DEFINE y == d.db.sync /\ d.ok
               k == [d.db EXCEPT !.active = FALSE, !.sync = y]
    <2>4. y \in BOOLEAN
      OBVIOUS
    <2>5. e = Ok(k, d.faults)
      BY <2>1, Zenon
    <2> HIDE DEF y
    <2>6. /\ k \in HandlesOf(C) /\ k.dual = d.db.dual /\ k.p = d.db.p /\ k.s = d.db.s
          /\ k.active = FALSE /\ k.sync = y
      BY <2>3, <2>4, Zenon DEF HandlesOf
    <2> HIDE DEF k
    <2>7. e \in Results(C) /\ e.db = k /\ e.ok = TRUE
      BY <2>3, <2>5, <2>6 DEF Ok, Results
    <2>8. CommitsTo(g.s, e.db.s, d.ok) /\ e.db.sync = (g.sync /\ d.ok)
      BY <2>2, <2>6, <2>7 DEF y
    <2>9. QED  BY <2>2, <2>3, <2>6, <2>7, <2>8
  <1> HIDE DEF Second
  <1>3. \/ \E e \in OnPrimary(hd, commit) : ~e.ok /\ o = e
        \/ \E e \in OnPrimary(hd, commit) :
             e.ok /\ \E p \in Next2(e.db) : o = [p EXCEPT !.faults = @ + e.faults]
    BY Zenon DEF Commit, Then, Second
  <1>4. CASE \E e \in OnPrimary(hd, commit) : ~e.ok /\ o = e
    <2>1. o \in OnPrimary(hd, commit) /\ ~o.ok
      BY <1>4
    <2>2. o \in Results(C) /\ CommitsTo(hd.p, o.db.p, o.ok) /\ Kept(hd, o.db) /\ o.ok = FALSE
      BY <1>1, <2>1, FieldsOfResults
    <2>3. CommitsTo(hd.p, o.db.p, FALSE)
      BY <2>2
    <2>4. QED  BY <2>1, <2>2, <2>3 DEF CommitsHandle, Kept
  <1>5. CASE \E e \in OnPrimary(hd, commit) :
             e.ok /\ \E p \in Next2(e.db) : o = [p EXCEPT !.faults = @ + e.faults]
    <2>1. PICK e \in OnPrimary(hd, commit) :
             e.ok /\ \E p \in Next2(e.db) : o = [p EXCEPT !.faults = @ + e.faults]
      BY <1>5
    <2>2. PICK p \in Next2(e.db) : o = [p EXCEPT !.faults = @ + e.faults]
      BY <2>1
    <2>3. /\ e \in Results(C) /\ CommitsTo(hd.p, e.db.p, e.ok) /\ Kept(hd, e.db)
          /\ e.db \in HandlesOf(C) /\ e.faults \in Nat /\ e.ok = TRUE
      BY <1>1, <2>1, FieldsOfResults
    <2>4. CommitsTo(hd.p, e.db.p, TRUE)
      BY <2>3
    <2>5. CASE hd.dual
      <3>1. p \in Second(e.db)
        BY <2>2, <2>5
      <3>2. /\ p \in Results(C) /\ p.ok = TRUE /\ p.db.p = e.db.p /\ p.db.dual = e.db.dual
            /\ p.db.active = FALSE
            /\ \E q \in BOOLEAN : CommitsTo(e.db.s, p.db.s, q) /\ p.db.sync = (e.db.sync /\ q)
        BY <1>2, <2>3, <3>1
      <3>3. o \in Results(C) /\ o.db = p.db /\ o.ok = p.ok
        BY <2>2, <2>3, <3>2, CountedIs
      <3>4. QED  BY <2>3, <2>4, <2>5, <3>2, <3>3 DEF CommitsHandle, Kept
    <2>6. CASE ~hd.dual
      <3>1. p = Ok(e.db, 0)
        BY <2>2, <2>6
      <3>2. p \in Results(C) /\ p.ok = TRUE /\ p.db = e.db
        BY <2>3, <3>1 DEF Ok, Results
      <3>3. o \in Results(C) /\ o.db = p.db /\ o.ok = p.ok
        BY <2>2, <2>3, <3>2, CountedIs
      <3>4. QED  BY <2>3, <2>4, <2>6, <3>2, <3>3 DEF CommitsHandle, Kept
    <2>7. QED  BY <2>5, <2>6
  <1>6. QED  BY <1>3, <1>4, <1>5

LEMMA SumsAreNat == \A m, n \in Nat : m + n \in Nat
  OBVIOUS

\* A begin: the secondary's is part of it.
LEMMA StartedIs ==
  ASSUME NEW C, NEW hd \in HandlesOf(C), ~is_transaction_active(hd), NEW g \in HandlesOf(C)
  PROVE  /\ Started(hd, g) \in HandlesOf(C) /\ Started(hd, g).dual = g.dual
         /\ Started(hd, g).p = g.p /\ Started(hd, g).s = g.s
         /\ Started(hd, g).active = hd.dual /\ Started(hd, g).sync = g.sync
  <1> DEFINE n == g.gen + 1
             k == [g EXCEPT !.gen = n, !.active = hd.dual]
  <1>1. n \in Nat /\ hd.dual \in BOOLEAN
    BY DEF HandlesOf
  <1>2. Started(hd, g) = k
    BY Zenon DEF Started
  <1> HIDE DEF n
  <1>3. /\ k \in HandlesOf(C) /\ k.dual = g.dual /\ k.p = g.p /\ k.s = g.s
        /\ k.active = hd.dual /\ k.sync = g.sync
    BY <1>1, Zenon DEF HandlesOf
  <1>4. QED  BY <1>2, <1>3, Zenon

LEMMA BeginIs ==
  ASSUME NEW C, NEW hd \in HandlesOf(C), NEW o \in Begin(hd)
  PROVE  o \in Results(C) /\ BeginsHandle(C, hd, o.db, o.ok)
  <1> DEFINE Undo(g) == {Ok(e.db, e.faults) : e \in OnPrimary(OutOfSync(g), rollback)}
             Both(g) == Handling(OnSecondary(g, begin_transaction), Undo)
             Begun(S) == {IF e.ok THEN [e EXCEPT !.db = Started(hd, e.db)] ELSE e : e \in S}
             P == OnPrimary(hd, begin_transaction)
  <1>1. CASE is_transaction_active(hd)
    <2>1. o = Ok(hd, 0)
      BY <1>1 DEF Begin
    <2>2. QED  BY <1>1, <2>1 DEF Ok, Results, BeginsHandle
  <1>2. ASSUME NEW e \in P
        PROVE  /\ e \in Results(C) /\ BeginsTo(hd.p, e.db.p, e.ok) /\ Kept(hd, e.db)
               /\ e.db \in HandlesOf(C) /\ e.ok \in BOOLEAN /\ e.faults \in Nat
    BY PrimaryBegins, FieldsOfResults
  <1>3. ASSUME ~is_transaction_active(hd), NEW e \in Results(C), e.ok,
               NEW f, f = [e EXCEPT !.db = Started(hd, e.db)]
        PROVE  /\ f \in Results(C) /\ f.ok = TRUE /\ f.db.dual = e.db.dual
               /\ f.db.p = e.db.p /\ f.db.s = e.db.s
               /\ f.db.active = hd.dual /\ f.db.sync = e.db.sync
    <2>1. e.db \in HandlesOf(C) /\ e.ok = TRUE /\ e.faults \in Nat
      BY <1>3 DEF Results
    <2> DEFINE k == Started(hd, e.db)
    <2>2. /\ k \in HandlesOf(C) /\ k.dual = e.db.dual /\ k.p = e.db.p /\ k.s = e.db.s
          /\ k.active = hd.dual /\ k.sync = e.db.sync
      BY <1>3, <2>1, StartedIs
    <2> HIDE DEF k
    <2>3. f = [e EXCEPT !.db = k]
      BY <1>3, Zenon DEF k
    <2>4. f \in Results(C) /\ f.ok = TRUE /\ f.db = k
      BY <2>1, <2>2, <2>3, Zenon DEF Results
    <2>5. QED  BY <2>2, <2>4
  <1>4. CASE ~is_transaction_active(hd) /\ ~hd.dual
    <2>1. PICK e \in P : o = (IF e.ok THEN [e EXCEPT !.db = Started(hd, e.db)] ELSE e)
      BY <1>4, Zenon DEF Begin
    <2>2. /\ e \in Results(C) /\ BeginsTo(hd.p, e.db.p, e.ok) /\ Kept(hd, e.db)
          /\ e.ok \in BOOLEAN
      BY <1>2
    <2>3. CASE e.ok
      <3>1. /\ o \in Results(C) /\ o.ok = TRUE /\ o.db.dual = e.db.dual
            /\ o.db.p = e.db.p /\ o.db.s = e.db.s
            /\ o.db.active = hd.dual /\ o.db.sync = e.db.sync
        BY <1>3, <1>4, <2>1, <2>2, <2>3
      <3>2. BeginsTo(hd.p, o.db.p, TRUE)
        BY <2>2, <2>3, <3>1
      <3>3. QED  BY <1>4, <2>2, <3>1, <3>2 DEF BeginsHandle, Kept
    <2>4. CASE ~e.ok
      <3>1. o = e /\ BeginsTo(hd.p, o.db.p, FALSE)
        BY <2>1, <2>2, <2>4
      <3>2. QED  BY <1>4, <2>2, <2>4, <3>1 DEF BeginsHandle, Kept
    <2>5. QED  BY <2>3, <2>4
  <1>5. CASE ~is_transaction_active(hd) /\ hd.dual
    <2>1. PICK x \in Then(P, Both) : o = (IF x.ok THEN [x EXCEPT !.db = Started(hd, x.db)] ELSE x)
      BY <1>5, Zenon DEF Begin
    <2>2. \/ \E e \in P : ~e.ok /\ x = e
          \/ \E e \in P : e.ok /\ \E p \in Both(e.db) : x = [p EXCEPT !.faults = @ + e.faults]
      BY <2>1, Zenon DEF Then
    <2>3. CASE \E e \in P : ~e.ok /\ x = e
      <3>1. x \in P /\ ~x.ok /\ o = x
        BY <2>1, <2>3
      <3>2. /\ x \in Results(C) /\ BeginsTo(hd.p, x.db.p, x.ok) /\ Kept(hd, x.db)
            /\ x.ok \in BOOLEAN
        BY <1>2, <3>1
      <3>3. BeginsTo(hd.p, o.db.p, FALSE)
        BY <3>1, <3>2
      <3>4. QED  BY <1>5, <3>1, <3>2, <3>3 DEF BeginsHandle, Kept
    <2>4. CASE \E e \in P : e.ok /\ \E p \in Both(e.db) : x = [p EXCEPT !.faults = @ + e.faults]
      <3>1. PICK e \in P : e.ok /\ \E p \in Both(e.db) : x = [p EXCEPT !.faults = @ + e.faults]
        BY <2>4
      <3>2. PICK p \in Both(e.db) : x = [p EXCEPT !.faults = @ + e.faults]
        BY <3>1
      <3>3. /\ e \in Results(C) /\ BeginsTo(hd.p, e.db.p, e.ok) /\ Kept(hd, e.db)
            /\ e.db \in HandlesOf(C) /\ e.faults \in Nat /\ e.ok = TRUE
        BY <1>2, <3>1
      <3>4. BeginsTo(hd.p, e.db.p, TRUE) /\ e.db.p \in Sessions(C)
        BY <3>3, FieldsOfHandles
      <3>5. PICK d \in OnSecondary(e.db, begin_transaction) :
              \/ d.ok /\ p = d
              \/ ~d.ok /\ \E u \in Undo(d.db) : p = Err(u.db, d.faults + u.faults)
        BY <3>2, Zenon DEF Handling
      <3>6. /\ d \in Results(C) /\ BeginsTo(e.db.s, d.db.s, d.ok) /\ d.db.p = e.db.p
            /\ d.db.dual = e.db.dual /\ d.db.active = e.db.active /\ d.db.sync = e.db.sync
        BY <3>3, <3>5, SecondaryBegins, Zenon
      <3>65. d.db \in HandlesOf(C) /\ d.ok \in BOOLEAN /\ d.faults \in Nat
        BY <3>6, FieldsOfResults
      <3>7. CASE d.ok /\ p = d
        <4>1. x \in Results(C) /\ x.db = d.db /\ x.ok = d.ok
          <5>1. x = [d EXCEPT !.faults = @ + e.faults] /\ d \in Results(C) /\ e.faults \in Nat
            BY <3>2, <3>3, <3>6, <3>7
          <5>2. QED  BY <5>1, CountedIs
        <4>2. /\ o \in Results(C) /\ o.ok = TRUE /\ o.db.dual = x.db.dual
              /\ o.db.p = x.db.p /\ o.db.s = x.db.s
              /\ o.db.active = hd.dual /\ o.db.sync = x.db.sync
          BY <1>3, <1>5, <2>1, <3>7, <4>1
        <4>3. BeginsTo(hd.s, o.db.s, TRUE)
          BY <3>3, <3>6, <3>7, <4>1, <4>2 DEF Kept
        <4>4. QED  BY <1>5, <3>3, <3>4, <3>6, <4>1, <4>2, <4>3 DEF BeginsHandle, Kept
      <3>8. CASE ~d.ok /\ \E u \in Undo(d.db) : p = Err(u.db, d.faults + u.faults)
        <4>1. PICK r \in OnPrimary(OutOfSync(d.db), rollback) :
                p = Err(Ok(r.db, r.faults).db, d.faults + Ok(r.db, r.faults).faults)
          BY <3>8
        <4> DEFINE k == OutOfSync(d.db)
        <4>2. /\ k \in HandlesOf(C) /\ k.dual = d.db.dual /\ k.p = d.db.p /\ k.s = d.db.s
              /\ k.active = d.db.active /\ k.sync = FALSE
          BY <3>65, Zenon DEF HandlesOf, OutOfSync
        <4> HIDE DEF k
        <4>3. r \in Results(C) /\ RollsBackTo(k.p, r.db.p, r.ok) /\ Kept(k, r.db)
          BY <4>1, <4>2, PrimaryRollbacks DEF k
        <4>4. p \in Results(C) /\ p.db = r.db /\ p.ok = FALSE
          <5>1. p = Err(r.db, d.faults + r.faults)
            BY <4>1 DEF Ok
          <5>2. d.faults + r.faults \in Nat /\ r.db \in HandlesOf(C)
            <6>1. r.faults \in Nat /\ r.db \in HandlesOf(C)
              BY <4>3, FieldsOfResults
            <6>2. QED  BY <3>65, <6>1, SumsAreNat, Zenon
          <5>3. QED  BY <5>1, <5>2 DEF Err, Results
        <4>5. x \in Results(C) /\ x.db = r.db /\ x.ok = FALSE
          BY <3>2, <3>3, <4>4, CountedIs
        <4>6. o = x /\ r.ok \in BOOLEAN
          BY <2>1, <4>3, <4>5 DEF Results
        <4>7. BeginsTo(hd.s, o.db.s, FALSE)
          BY <3>3, <3>6, <3>65, <3>8, <4>2, <4>3, <4>5, <4>6 DEF Kept
        <4>8. RollsBackTo(e.db.p, o.db.p, r.ok)
          BY <3>6, <4>2, <4>3, <4>5, <4>6
        <4>9. o.db.dual = hd.dual /\ o.db.active = hd.active /\ ~o.db.sync /\ ~o.ok
          BY <3>3, <3>6, <4>2, <4>3, <4>5, <4>6 DEF Kept
        <4>10. QED  BY <1>5, <3>4, <4>5, <4>6, <4>7, <4>8, <4>9 DEF BeginsHandle
      <3>9. QED  BY <3>5, <3>7, <3>8
    <2>5. QED  BY <2>2, <2>3, <2>4
  <1>6. QED  BY <1>1, <1>4, <1>5

-----------------------------------------------------------------------------
\* A mirrored statement.
Applies(C, b, s) == Apply(b.driver, b.seen, s) \in C

\* What the secondary makes of it: e is an outcome from the handle g.
MirroredTo(C, g, s, e) ==
  /\ e \in Results(C) /\ e.db.p = g.p /\ e.db.dual = g.dual /\ e.db.active = g.active
  /\ \/ e.ok = TRUE /\ ExecutesTo(g.s, s, e.db.s, TRUE) /\ e.db.sync = g.sync
     \/ e.ok = ~g.active /\ ExecutesTo(g.s, s, e.db.s, FALSE) /\ e.db.sync = FALSE

LEMMA PrimaryExecutes ==
  ASSUME NEW C, NEW hd \in HandlesOf(C), NEW s, Applies(C, hd.p, s),
         NEW q \in execute(hd.p, s), NEW e, FromPrimary(hd, q, e)
  PROVE  e \in Results(C) /\ ExecutesTo(hd.p, s, e.db.p, e.ok) /\ Kept(hd, e.db)
  <1>2. q \in Outcomes(C) /\ ExecutesTo(hd.p, s, q.db, q.ok)
    BY FieldsOfHandles, Executes DEF Applies
  <1>3. e \in Results(C) /\ e.ok = q.ok /\ e.db.p = q.db /\ Kept(hd, e.db)
    BY <1>2, OnPrimaryIs
  <1>4. QED  BY <1>2, <1>3

LEMMA SecondaryExecutes ==
  ASSUME NEW C, NEW hd \in HandlesOf(C), NEW s, Applies(C, hd.s, s),
         NEW q \in execute(hd.s, s), NEW e, FromSecondary(hd, q, e)
  PROVE  /\ e \in Results(C) /\ ExecutesTo(hd.s, s, e.db.s, e.ok) /\ e.db.p = hd.p
         /\ e.db.dual = hd.dual /\ e.db.active = hd.active /\ e.db.sync = hd.sync
  <1>2. q \in Outcomes(C) /\ ExecutesTo(hd.s, s, q.db, q.ok)
    BY FieldsOfHandles, Executes DEF Applies
  <1>3. /\ e \in Results(C) /\ e.ok = q.ok /\ e.db.p = hd.p /\ e.db.s = q.db
        /\ e.db.dual = hd.dual /\ e.db.active = hd.active /\ e.db.sync = hd.sync
    BY <1>2, OnSecondaryIs
  <1>4. QED  BY <1>2, <1>3

LEMMA ExecutesIs ==
  ASSUME NEW C, NEW hd \in HandlesOf(C), NEW s, Applies(C, hd.p, s),
         hd.dual => Applies(C, hd.s, s), NEW o \in Execute(hd, s)
  PROVE  o \in Results(C) /\ ExecutesHandle(hd, s, o.db, o.ok)
  <1> DEFINE P == OnPrimary(hd, LAMBDA b : execute(b, s))
             Second(g) == {IF d.ok THEN d
                           ELSE [d EXCEPT !.db = OutOfSync(d.db), !.ok = ~g.active]
                           : d \in OnSecondary(g, LAMBDA b : execute(b, s))}
             Next2(g) == IF hd.dual THEN Second(g) ELSE {Ok(g, 0)}
  <1>1. ASSUME NEW e \in P
        PROVE  /\ e \in Results(C) /\ ExecutesTo(hd.p, s, e.db.p, e.ok) /\ Kept(hd, e.db)
               /\ e.db \in HandlesOf(C) /\ e.ok \in BOOLEAN /\ e.faults \in Nat
    <2>1. PICK q \in execute(hd.p, s) : FromPrimary(hd, q, e)
      BY <1>1, Zenon DEF OnPrimary, FromPrimary
    <2> HIDE DEF P
    <2>2. e \in Results(C) /\ ExecutesTo(hd.p, s, e.db.p, e.ok) /\ Kept(hd, e.db)
      BY <2>1, PrimaryExecutes
    <2>3. QED  BY <2>2, FieldsOfResults
  <1>2. ASSUME NEW g \in HandlesOf(C), Applies(C, g.s, s), NEW e \in Second(g)
        PROVE  MirroredTo(C, g, s, e)
    <2>1. PICK d \in OnSecondary(g, LAMBDA b : execute(b, s)) :
            e = IF d.ok THEN d ELSE [d EXCEPT !.db = OutOfSync(d.db), !.ok = ~g.active]
      BY <1>2, Zenon
    <2> HIDE DEF Second
    <2>2. /\ d \in Results(C) /\ ExecutesTo(g.s, s, d.db.s, d.ok) /\ d.db.p = g.p
          /\ d.db.dual = g.dual /\ d.db.active = g.active /\ d.db.sync = g.sync
      <3>1. PICK q \in execute(g.s, s) : FromSecondary(g, q, d)
        BY <2>1, Zenon DEF OnSecondary, FromSecondary
      <3>2. QED  BY <1>2, <3>1, SecondaryExecutes
    <2>3. d.db \in HandlesOf(C) /\ d.ok \in BOOLEAN /\ d.faults \in Nat
      BY <2>2, FieldsOfResults
    <2>4. CASE d.ok
      <3>1. e = d /\ d.ok = TRUE
        BY <2>1, <2>3, <2>4
      <3>2. QED  BY <2>2, <2>3, <3>1 DEF MirroredTo
    <2>5. CASE ~d.ok
      <3> DEFINE k == OutOfSync(d.db)
                 y == ~g.active
      <3>1. /\ k \in HandlesOf(C) /\ k.dual = d.db.dual /\ k.p = d.db.p /\ k.s = d.db.s
            /\ k.active = d.db.active /\ k.sync = FALSE
        BY <2>3, Zenon DEF HandlesOf, OutOfSync
      <3>2. y \in BOOLEAN
        OBVIOUS
      <3>3. e = [d EXCEPT !.db = k, !.ok = y]
        BY <2>1, <2>5, Zenon
      <3> HIDE DEF k, y
      <3>4. e \in Results(C) /\ e.db = k /\ e.ok = y
        BY <2>2, <3>1, <3>2, <3>3, Zenon DEF Results
      <3>5. ExecutesTo(g.s, s, e.db.s, FALSE)
        BY <2>2, <2>3, <2>5, <3>1, <3>4
      <3>6. QED  BY <2>2, <3>1, <3>4, <3>5 DEF MirroredTo, y
    <2>6. QED  BY <2>4, <2>5
  <1> HIDE DEF Second
  <1>3. \/ \E e \in P : ~e.ok /\ o = e
        \/ \E e \in P : e.ok /\ \E p \in Next2(e.db) : o = [p EXCEPT !.faults = @ + e.faults]
    BY Zenon DEF Execute, Mirrored, Then, Second
  <1>4. CASE \E e \in P : ~e.ok /\ o = e
    <2>1. o \in P /\ ~o.ok
      BY <1>4
    <2>2. o \in Results(C) /\ ExecutesTo(hd.p, s, o.db.p, o.ok) /\ Kept(hd, o.db) /\ o.ok = FALSE
      BY <1>1, <2>1
    <2>3. ExecutesTo(hd.p, s, o.db.p, FALSE)
      BY <2>2
    <2>4. QED  BY <2>1, <2>2, <2>3 DEF ExecutesHandle, Kept
  <1>5. CASE \E e \in P : e.ok /\ \E p \in Next2(e.db) : o = [p EXCEPT !.faults = @ + e.faults]
    <2>1. PICK e \in P : e.ok /\ \E p \in Next2(e.db) : o = [p EXCEPT !.faults = @ + e.faults]
      BY <1>5
    <2>2. PICK p \in Next2(e.db) : o = [p EXCEPT !.faults = @ + e.faults]
      BY <2>1
    <2>3. /\ e \in Results(C) /\ ExecutesTo(hd.p, s, e.db.p, e.ok) /\ Kept(hd, e.db)
          /\ e.db \in HandlesOf(C) /\ e.faults \in Nat /\ e.ok = TRUE
      BY <1>1, <2>1
    <2>4. ExecutesTo(hd.p, s, e.db.p, TRUE)
      BY <2>3
    <2>5. CASE hd.dual
      <3>1. p \in Second(e.db)
        BY <2>2, <2>5
      <3>2. MirroredTo(C, e.db, s, p)
        BY <1>2, <2>3, <2>5, <3>1 DEF Kept
      <3>3. p \in Results(C)
        BY <3>2 DEF MirroredTo
      <3>4. o \in Results(C) /\ o.db = p.db /\ o.ok = p.ok
        BY <2>2, <2>3, <3>3, CountedIs
      <3>5. QED  BY <2>3, <2>4, <2>5, <3>2, <3>4 DEF ExecutesHandle, Kept, MirroredTo
    <2>6. CASE ~hd.dual
      <3>1. p = Ok(e.db, 0)
        BY <2>2, <2>6
      <3>2. p \in Results(C) /\ p.ok = TRUE /\ p.db = e.db
        BY <2>3, <3>1 DEF Ok, Results
      <3>3. o \in Results(C) /\ o.db = p.db /\ o.ok = p.ok
        BY <2>2, <2>3, <3>2, CountedIs
      <3>4. QED  BY <2>3, <2>4, <2>6, <3>2, <3>3 DEF ExecutesHandle, Kept
    <2>7. QED  BY <2>5, <2>6
  <1>6. QED  BY <1>3, <1>4, <1>5

LEMMA PrimaryInserts ==
  ASSUME NEW C, NEW hd \in HandlesOf(C), NEW s, Applies(C, hd.p, s),
         NEW q \in insert_many(hd.p, s), NEW e, FromPrimary(hd, q, e)
  PROVE  e \in Results(C) /\ ExecutesTo(hd.p, s, e.db.p, e.ok) /\ Kept(hd, e.db)
  <1>2. q \in Outcomes(C) /\ ExecutesTo(hd.p, s, q.db, q.ok)
    BY FieldsOfHandles, Inserts DEF Applies
  <1>3. e \in Results(C) /\ e.ok = q.ok /\ e.db.p = q.db /\ Kept(hd, e.db)
    BY <1>2, OnPrimaryIs
  <1>4. QED  BY <1>2, <1>3

LEMMA SecondaryInserts ==
  ASSUME NEW C, NEW hd \in HandlesOf(C), NEW s, Applies(C, hd.s, s),
         NEW q \in insert_many(hd.s, s), NEW e, FromSecondary(hd, q, e)
  PROVE  /\ e \in Results(C) /\ ExecutesTo(hd.s, s, e.db.s, e.ok) /\ e.db.p = hd.p
         /\ e.db.dual = hd.dual /\ e.db.active = hd.active /\ e.db.sync = hd.sync
  <1>2. q \in Outcomes(C) /\ ExecutesTo(hd.s, s, q.db, q.ok)
    BY FieldsOfHandles, Inserts DEF Applies
  <1>3. /\ e \in Results(C) /\ e.ok = q.ok /\ e.db.p = hd.p /\ e.db.s = q.db
        /\ e.db.dual = hd.dual /\ e.db.active = hd.active /\ e.db.sync = hd.sync
    BY <1>2, OnSecondaryIs
  <1>4. QED  BY <1>2, <1>3

LEMMA InsertsIs ==
  ASSUME NEW C, NEW hd \in HandlesOf(C), NEW s, Applies(C, hd.p, s),
         hd.dual => Applies(C, hd.s, s), NEW o \in InsertMany(hd, s)
  PROVE  o \in Results(C) /\ ExecutesHandle(hd, s, o.db, o.ok)
  <1> DEFINE P == OnPrimary(hd, LAMBDA b : insert_many(b, s))
             Second(g) == {IF d.ok THEN d
                           ELSE [d EXCEPT !.db = OutOfSync(d.db), !.ok = ~g.active]
                           : d \in OnSecondary(g, LAMBDA b : insert_many(b, s))}
             Next2(g) == IF hd.dual THEN Second(g) ELSE {Ok(g, 0)}
  <1>1. ASSUME NEW e \in P
        PROVE  /\ e \in Results(C) /\ ExecutesTo(hd.p, s, e.db.p, e.ok) /\ Kept(hd, e.db)
               /\ e.db \in HandlesOf(C) /\ e.ok \in BOOLEAN /\ e.faults \in Nat
    <2>1. PICK q \in insert_many(hd.p, s) : FromPrimary(hd, q, e)
      BY <1>1, Zenon DEF OnPrimary, FromPrimary
    <2> HIDE DEF P
    <2>2. e \in Results(C) /\ ExecutesTo(hd.p, s, e.db.p, e.ok) /\ Kept(hd, e.db)
      BY <2>1, PrimaryInserts
    <2>3. QED  BY <2>2, FieldsOfResults
  <1>2. ASSUME NEW g \in HandlesOf(C), Applies(C, g.s, s), NEW e \in Second(g)
        PROVE  MirroredTo(C, g, s, e)
    <2>1. PICK d \in OnSecondary(g, LAMBDA b : insert_many(b, s)) :
            e = IF d.ok THEN d ELSE [d EXCEPT !.db = OutOfSync(d.db), !.ok = ~g.active]
      BY <1>2, Zenon
    <2> HIDE DEF Second
    <2>2. /\ d \in Results(C) /\ ExecutesTo(g.s, s, d.db.s, d.ok) /\ d.db.p = g.p
          /\ d.db.dual = g.dual /\ d.db.active = g.active /\ d.db.sync = g.sync
      <3>1. PICK q \in insert_many(g.s, s) : FromSecondary(g, q, d)
        BY <2>1, Zenon DEF OnSecondary, FromSecondary
      <3>2. QED  BY <1>2, <3>1, SecondaryInserts
    <2>3. d.db \in HandlesOf(C) /\ d.ok \in BOOLEAN /\ d.faults \in Nat
      BY <2>2, FieldsOfResults
    <2>4. CASE d.ok
      <3>1. e = d /\ d.ok = TRUE
        BY <2>1, <2>3, <2>4
      <3>2. QED  BY <2>2, <2>3, <3>1 DEF MirroredTo
    <2>5. CASE ~d.ok
      <3> DEFINE k == OutOfSync(d.db)
                 y == ~g.active
      <3>1. /\ k \in HandlesOf(C) /\ k.dual = d.db.dual /\ k.p = d.db.p /\ k.s = d.db.s
            /\ k.active = d.db.active /\ k.sync = FALSE
        BY <2>3, Zenon DEF HandlesOf, OutOfSync
      <3>2. y \in BOOLEAN
        OBVIOUS
      <3>3. e = [d EXCEPT !.db = k, !.ok = y]
        BY <2>1, <2>5, Zenon
      <3> HIDE DEF k, y
      <3>4. e \in Results(C) /\ e.db = k /\ e.ok = y
        BY <2>2, <3>1, <3>2, <3>3, Zenon DEF Results
      <3>5. ExecutesTo(g.s, s, e.db.s, FALSE)
        BY <2>2, <2>3, <2>5, <3>1, <3>4
      <3>6. QED  BY <2>2, <3>1, <3>4, <3>5 DEF MirroredTo, y
    <2>6. QED  BY <2>4, <2>5
  <1> HIDE DEF Second
  <1>3. \/ \E e \in P : ~e.ok /\ o = e
        \/ \E e \in P : e.ok /\ \E p \in Next2(e.db) : o = [p EXCEPT !.faults = @ + e.faults]
    BY Zenon DEF InsertMany, Mirrored, Then, Second
  <1>4. CASE \E e \in P : ~e.ok /\ o = e
    <2>1. o \in P /\ ~o.ok
      BY <1>4
    <2>2. o \in Results(C) /\ ExecutesTo(hd.p, s, o.db.p, o.ok) /\ Kept(hd, o.db) /\ o.ok = FALSE
      BY <1>1, <2>1
    <2>3. ExecutesTo(hd.p, s, o.db.p, FALSE)
      BY <2>2
    <2>4. QED  BY <2>1, <2>2, <2>3 DEF ExecutesHandle, Kept
  <1>5. CASE \E e \in P : e.ok /\ \E p \in Next2(e.db) : o = [p EXCEPT !.faults = @ + e.faults]
    <2>1. PICK e \in P : e.ok /\ \E p \in Next2(e.db) : o = [p EXCEPT !.faults = @ + e.faults]
      BY <1>5
    <2>2. PICK p \in Next2(e.db) : o = [p EXCEPT !.faults = @ + e.faults]
      BY <2>1
    <2>3. /\ e \in Results(C) /\ ExecutesTo(hd.p, s, e.db.p, e.ok) /\ Kept(hd, e.db)
          /\ e.db \in HandlesOf(C) /\ e.faults \in Nat /\ e.ok = TRUE
      BY <1>1, <2>1
    <2>4. ExecutesTo(hd.p, s, e.db.p, TRUE)
      BY <2>3
    <2>5. CASE hd.dual
      <3>1. p \in Second(e.db)
        BY <2>2, <2>5
      <3>2. MirroredTo(C, e.db, s, p)
        BY <1>2, <2>3, <2>5, <3>1 DEF Kept
      <3>3. p \in Results(C)
        BY <3>2 DEF MirroredTo
      <3>4. o \in Results(C) /\ o.db = p.db /\ o.ok = p.ok
        BY <2>2, <2>3, <3>3, CountedIs
      <3>5. QED  BY <2>3, <2>4, <2>5, <3>2, <3>4 DEF ExecutesHandle, Kept, MirroredTo
    <2>6. CASE ~hd.dual
      <3>1. p = Ok(e.db, 0)
        BY <2>2, <2>6
      <3>2. p \in Results(C) /\ p.ok = TRUE /\ p.db = e.db
        BY <2>3, <3>1 DEF Ok, Results
      <3>3. o \in Results(C) /\ o.db = p.db /\ o.ok = p.ok
        BY <2>2, <2>3, <3>2, CountedIs
      <3>4. QED  BY <2>3, <2>4, <2>6, <3>2, <3>3 DEF ExecutesHandle, Kept
    <2>7. QED  BY <2>5, <2>6
  <1>6. QED  BY <1>3, <1>4, <1>5

-----------------------------------------------------------------------------
\* A rollback: both databases are rolled back.
LEMMA RollbackIs ==
  ASSUME NEW C, NEW hd \in HandlesOf(C), NEW o \in Rollback(hd)
  PROVE  o \in Results(C) /\ RollsBackHandle(hd, o.db, o.ok)
  <1> DEFINE P == OnPrimary(hd, rollback)
  <1>1. ASSUME NEW e \in P
        PROVE  /\ e \in Results(C) /\ RollsBackTo(hd.p, e.db.p, e.ok) /\ Kept(hd, e.db)
               /\ e.db \in HandlesOf(C) /\ e.ok \in BOOLEAN /\ e.faults \in Nat
    BY PrimaryRollbacks, FieldsOfResults
  <1>2. CASE ~hd.dual
    <2>1. o \in P
      BY <1>2 DEF Rollback
    <2>2. o \in Results(C) /\ RollsBackTo(hd.p, o.db.p, o.ok) /\ Kept(hd, o.db)
      BY <1>1, <2>1
    <2>3. QED  BY <1>2, <2>2 DEF RollsBackHandle, Kept
  <1>3. CASE hd.dual
    <2>1. PICK e \in P : \E q \in OnSecondary(e.db, rollback) :
            o = [db |-> [q.db EXCEPT !.active = FALSE, !.sync = @ /\ q.ok],
                 ok |-> e.ok /\ q.ok, faults |-> e.faults + q.faults]
      BY <1>3, Zenon DEF Rollback
    <2>2. PICK q \in OnSecondary(e.db, rollback) :
            o = [db |-> [q.db EXCEPT !.active = FALSE, !.sync = @ /\ q.ok],
                 ok |-> e.ok /\ q.ok, faults |-> e.faults + q.faults]
      BY <2>1, Zenon
    <2>3. /\ e \in Results(C) /\ RollsBackTo(hd.p, e.db.p, e.ok) /\ Kept(hd, e.db)
          /\ e.db \in HandlesOf(C) /\ e.ok \in BOOLEAN /\ e.faults \in Nat
      BY <1>1, <2>1
    <2> HIDE DEF P
    <2>4. /\ q \in Results(C) /\ RollsBackTo(e.db.s, q.db.s, q.ok) /\ q.db.p = e.db.p
          /\ q.db.dual = e.db.dual /\ q.db.active = e.db.active /\ q.db.sync = e.db.sync
      BY <2>2, <2>3, SecondaryRollbacks, Zenon
    <2>5. q.db \in HandlesOf(C) /\ q.ok \in BOOLEAN /\ q.faults \in Nat
      BY <2>4, FieldsOfResults
    <2> DEFINE y == q.db.sync /\ q.ok
               k == [q.db EXCEPT !.active = FALSE, !.sync = y]
               z == e.ok /\ q.ok
               n == e.faults + q.faults
    <2>6. y \in BOOLEAN /\ z \in BOOLEAN
      OBVIOUS
    <2>7. n \in Nat
      BY <2>3, <2>5, SumsAreNat, Zenon
    <2>8. o = [db |-> k, ok |-> z, faults |-> n]
      BY <2>2, Zenon
    <2> HIDE DEF y, z, n
    <2>9. /\ k \in HandlesOf(C) /\ k.dual = q.db.dual /\ k.p = q.db.p /\ k.s = q.db.s
          /\ k.active = FALSE /\ k.sync = y
      BY <2>5, <2>6, Zenon DEF HandlesOf
    <2> HIDE DEF k
    <2>10. o \in Results(C) /\ o.db = k /\ o.ok = z
      BY <2>6, <2>7, <2>8, <2>9 DEF Results
    <2>11. RollsBackTo(hd.p, k.p, e.ok) /\ RollsBackTo(hd.s, k.s, q.ok)
      BY <2>3, <2>4, <2>9 DEF Kept
    <2>12. k.dual = hd.dual /\ k.sync = (hd.sync /\ q.ok) /\ o.ok = (e.ok /\ q.ok)
      BY <2>3, <2>4, <2>9, <2>10 DEF Kept, y, z
    <2>13. QED
      BY <1>3, <2>3, <2>5, <2>9, <2>10, <2>11, <2>12 DEF RollsBackHandle
  <1>4. QED  BY <1>2, <1>3

\* A disconnect: the primary's failure is the call's.
LEMMA DisconnectIs ==
  ASSUME NEW C, NEW hd \in HandlesOf(C), NEW o \in Disconnect(hd)
  PROVE  o \in Results(C) /\ ClosesHandle(hd, o.db, o.ok)
  <1> DEFINE P == OnPrimary(hd, disconnect)
  <1>1. ASSUME NEW e \in P
        PROVE  /\ e \in Results(C) /\ ClosesTo(hd.p, e.db.p, e.ok) /\ Kept(hd, e.db)
               /\ e.db \in HandlesOf(C) /\ e.ok \in BOOLEAN /\ e.faults \in Nat
    BY PrimaryDisconnects, FieldsOfResults
  <1>2. CASE ~hd.dual
    <2>1. o \in P
      BY <1>2 DEF Disconnect
    <2>2. o \in Results(C) /\ ClosesTo(hd.p, o.db.p, o.ok) /\ Kept(hd, o.db)
      BY <1>1, <2>1
    <2>3. QED  BY <1>2, <2>2 DEF ClosesHandle, Kept
  <1>3. CASE hd.dual
    <2>1. PICK e \in P : \E q \in OnSecondary(e.db, disconnect) :
            o = IF e.ok THEN Ok([q.db EXCEPT !.active = FALSE], e.faults + q.faults)
                ELSE Err(q.db, e.faults + q.faults)
      BY <1>3, Zenon DEF Disconnect
    <2>2. PICK q \in OnSecondary(e.db, disconnect) :
            o = IF e.ok THEN Ok([q.db EXCEPT !.active = FALSE], e.faults + q.faults)
                ELSE Err(q.db, e.faults + q.faults)
      BY <2>1, Zenon
    <2>3. /\ e \in Results(C) /\ ClosesTo(hd.p, e.db.p, e.ok) /\ Kept(hd, e.db)
          /\ e.db \in HandlesOf(C) /\ e.ok \in BOOLEAN /\ e.faults \in Nat
      BY <1>1, <2>1
    <2> HIDE DEF P
    <2>4. /\ q \in Results(C) /\ ClosesTo(e.db.s, q.db.s, q.ok) /\ q.db.p = e.db.p
          /\ q.db.dual = e.db.dual /\ q.db.active = e.db.active /\ q.db.sync = e.db.sync
      BY <2>2, <2>3, SecondaryDisconnects, Zenon
    <2>5. q.db \in HandlesOf(C) /\ q.ok \in BOOLEAN /\ q.faults \in Nat
      BY <2>4, FieldsOfResults
    <2> DEFINE k == [q.db EXCEPT !.active = FALSE]
               n == e.faults + q.faults
    <2>6. n \in Nat
      BY <2>3, <2>5, SumsAreNat, Zenon
    <2>7. o = IF e.ok THEN Ok(k, n) ELSE Err(q.db, n)
      BY <2>2, Zenon
    <2> HIDE DEF n
    <2>8. /\ k \in HandlesOf(C) /\ k.dual = q.db.dual /\ k.p = q.db.p /\ k.s = q.db.s
          /\ k.active = FALSE /\ k.sync = q.db.sync
      BY <2>5, Zenon DEF HandlesOf
    <2> HIDE DEF k
    <2>9. CASE e.ok
      <3>1. o \in Results(C) /\ o.db = k /\ o.ok = TRUE
        BY <2>6, <2>7, <2>8, <2>9 DEF Ok, Results
      <3>2. ClosesTo(hd.p, k.p, TRUE) /\ ClosesTo(hd.s, k.s, q.ok)
        BY <2>3, <2>4, <2>8, <2>9 DEF Kept
      <3>3. QED
        BY <1>3, <2>3, <2>4, <2>5, <2>8, <3>1, <3>2 DEF ClosesHandle, Kept
    <2>10. CASE ~e.ok
      <3>1. o \in Results(C) /\ o.db = q.db /\ o.ok = FALSE
        BY <2>5, <2>6, <2>7, <2>10 DEF Err, Results
      <3>2. ClosesTo(hd.p, o.db.p, FALSE) /\ ClosesTo(hd.s, o.db.s, q.ok)
        BY <2>3, <2>4, <2>10, <3>1 DEF Kept
      <3>3. o.db.active = hd.active /\ o.db.sync = hd.sync /\ o.db.dual = hd.dual
        BY <2>3, <2>4, <3>1 DEF Kept
      <3>4. hd.active \in BOOLEAN
        BY FieldsOfHandles
      <3>5. QED
        BY <1>3, <2>5, <3>1, <3>2, <3>3, <3>4 DEF ClosesHandle
    <2>11. QED  BY <2>9, <2>10
  <1>4. QED  BY <1>2, <1>3

LEMMA InvalidateIs ==
  ASSUME NEW C, NEW hd \in HandlesOf(C), NEW o \in Invalidate(hd)
  PROVE  o \in Results(C) /\ ClosesHandle(hd, o.db, o.ok)
  <1>1. PICK e \in Disconnect(hd) : o = [e EXCEPT !.db.invalid = ~is_connected(e.db)]
    BY Zenon DEF Invalidate
  <1>2. e \in Results(C) /\ ClosesHandle(hd, e.db, e.ok)
    BY DisconnectIs
  <1>3. e.db \in HandlesOf(C) /\ e.ok \in BOOLEAN /\ e.faults \in Nat
    BY <1>2, FieldsOfResults
  <1> DEFINE y == ~is_connected(e.db)
             k == [e.db EXCEPT !.invalid = y]
  <1>4. y \in BOOLEAN
    OBVIOUS
  <1> HIDE DEF y
  <1>5. k \in HandlesOf(C) /\ k.p = e.db.p /\ Kept(e.db, k)
    BY <1>3, <1>4, Zenon DEF HandlesOf, Kept
  <1>6. o = [e EXCEPT !.db = k]
    BY <1>1, <1>2, Zenon DEF Results, y
  <1> HIDE DEF k
  <1>7. o \in Results(C) /\ o.db = k /\ o.ok = e.ok
    BY <1>3, <1>2, <1>5, <1>6, Zenon DEF Results
  <1>8. QED  BY <1>2, <1>5, <1>7 DEF ClosesHandle, Kept

-----------------------------------------------------------------------------
\* The handle of a process that has just connected holds nothing.
Opened(k, rows) ==
  /\ k.p.store = rows /\ k.p.seen = rows /\ k.s.store = rows /\ k.s.seen = rows
  /\ ~k.active /\ k.sync \in BOOLEAN /\ ~k.p.failed /\ ~k.s.failed

LEMMA ConnectIs ==
  ASSUME NEW C, NEW rows \in C, NEW dual \in BOOLEAN, NEW d \in Drivers, NEW e \in Drivers,
         NEW o \in Connect(Handle(dual, d, e, rows)), o.ok
  PROVE  o \in Results(C) /\ Opened(o.db, rows) /\ o.db.dual = dual
  <1> DEFINE hd == Handle(dual, d, e, rows)
             g == [hd EXCEPT !.active = FALSE, !.invalid = FALSE]
             P == OnPrimary(g, connect)
             Second(x) == {IF q.ok THEN q ELSE Ok(OutOfSync(q.db), q.faults)
                           : q \in OnSecondary(x, connect)}
             Next2(x) == IF hd.dual THEN Second(x) ELSE {Ok(x, 0)}
  <1>1. /\ hd \in HandlesOf(C) /\ hd.dual = dual /\ hd.p = Backend(d, rows) /\ hd.s = Backend(e, rows)
        /\ hd.active = FALSE /\ hd.sync = TRUE
    <2>1. Backend(d, rows) \in Sessions(C) /\ Backend(e, rows) \in Sessions(C)
      BY DEF Backend, Sessions, SessionRecords, Settled
    <2>2. QED  BY <2>1 DEF Handle, HandlesOf
  <1>2. hd.p.store = rows /\ hd.s.store = rows /\ hd.s.seen = rows /\ ~hd.s.failed
    BY <1>1 DEF Backend
  <1> HIDE DEF hd
  <1>3. /\ g \in HandlesOf(C) /\ g.dual = dual /\ g.p = hd.p /\ g.s = hd.s
        /\ g.active = FALSE /\ g.sync = TRUE
    BY <1>1, Zenon DEF HandlesOf
  <1>4. \/ \E x \in P : ~x.ok /\ o = x
        \/ \E x \in P : x.ok /\ \E p \in Next2(x.db) : o = [p EXCEPT !.faults = @ + x.faults]
    BY Zenon DEF Connect, Then, hd
  <1>5. PICK x \in P : x.ok /\ \E p \in Next2(x.db) : o = [p EXCEPT !.faults = @ + x.faults]
    BY <1>4
  <1>6. PICK p \in Next2(x.db) : o = [p EXCEPT !.faults = @ + x.faults]
    BY <1>5
  <1>7. /\ x \in Results(C) /\ x.db.p.seen = rows /\ x.db.p.store = rows /\ Kept(g, x.db)
        /\ ~x.db.p.failed
        /\ x.db \in HandlesOf(C) /\ x.faults \in Nat
    <2>1. PICK q \in connect(g.p) : FromPrimary(g, q, x)
      BY <1>5, Zenon DEF OnPrimary, FromPrimary
    <2> HIDE DEF g, P
    <2>2. q \in Outcomes(C) /\ Durable(g.p, q.db) /\ (q.ok => q.db.seen = g.p.store /\ ~q.db.failed)
      BY <1>3, <2>1, FieldsOfHandles, Connects
    <2>3. x \in Results(C) /\ x.ok = q.ok /\ x.db.p = q.db /\ Kept(g, x.db)
      BY <1>3, <2>1, <2>2, OnPrimaryIs
    <2>4. QED  BY <1>2, <1>3, <1>5, <2>2, <2>3, FieldsOfResults DEF Durable
  <1>8. ASSUME NEW q \in OnSecondary(x.db, connect)
        PROVE  /\ q \in Results(C) /\ q.db.p = x.db.p /\ q.db.dual = dual /\ q.db.active = FALSE
               /\ q.db.s.store = rows /\ q.db.s.seen = rows /\ ~q.db.s.failed
               /\ q.db \in HandlesOf(C) /\ q.faults \in Nat /\ q.ok \in BOOLEAN
    <2>1. PICK r \in connect(x.db.s) : FromSecondary(x.db, r, q)
      BY <1>8, Zenon DEF OnSecondary, FromSecondary
    <2> HIDE DEF g, P
    <2>2. /\ r \in Outcomes(C) /\ Durable(x.db.s, r.db) /\ (r.ok => r.db.seen = x.db.s.store /\ ~r.db.failed)
          /\ (~r.ok => r.db = x.db.s)
      BY <1>7, <2>1, FieldsOfHandles, Connects
    <2>3. /\ q \in Results(C) /\ q.ok = r.ok /\ q.db.p = x.db.p /\ q.db.s = r.db
          /\ q.db.dual = x.db.dual /\ q.db.active = x.db.active
      BY <1>7, <2>1, <2>2, OnSecondaryIs
    <2>4. x.db.s = hd.s /\ x.db.dual = dual /\ x.db.active = FALSE
      BY <1>3, <1>7 DEF Kept
    <2>5. QED  BY <1>2, <2>2, <2>3, <2>4, FieldsOfResults DEF Durable
  <1>9. /\ p \in Results(C) /\ p.db.p = x.db.p /\ p.db.dual = dual /\ p.db.active = FALSE
        /\ p.db.s.store = rows /\ p.db.s.seen = rows /\ ~p.db.s.failed
    <2>1. CASE dual
      <3>1. PICK q \in OnSecondary(x.db, connect) :
              p = IF q.ok THEN q ELSE Ok(OutOfSync(q.db), q.faults)
        BY <1>1, <1>6, <2>1, Zenon
      <3> HIDE DEF g, P, Second, Next2
      <3> DEFINE k == OutOfSync(q.db)
      <3>2. /\ q \in Results(C) /\ q.db.p = x.db.p /\ q.db.dual = dual /\ q.db.active = FALSE
            /\ q.db.s.store = rows /\ q.db.s.seen = rows /\ ~q.db.s.failed
            /\ q.db \in HandlesOf(C) /\ q.faults \in Nat
        BY <1>8
      <3>3. k \in HandlesOf(C) /\ k.p = q.db.p /\ k.s = q.db.s /\ k.dual = q.db.dual /\ k.active = q.db.active
        BY <3>2, Zenon DEF HandlesOf, OutOfSync
      <3> HIDE DEF k
      <3>4. p = IF q.ok THEN q ELSE Ok(k, q.faults)
        BY <3>1 DEF k
      <3>5. CASE q.ok
        BY <3>2, <3>4, <3>5
      <3>6. CASE ~q.ok
        BY <3>2, <3>3, <3>4, <3>6 DEF Ok, Results
      <3>7. QED  BY <3>5, <3>6
    <2>2. CASE ~dual
      <3>1. p = Ok(x.db, 0)
        BY <1>1, <1>6, <2>2
      <3> HIDE DEF g, P, Second, Next2
      <3>2. x.db.s = hd.s /\ x.db.dual = dual /\ x.db.active = FALSE
        BY <1>3, <1>7 DEF Kept
      <3>3. QED  BY <1>2, <1>7, <3>1, <3>2 DEF Ok, Results
    <2>3. QED  BY <2>1, <2>2
  <1> HIDE DEF g, P, Second, Next2
  <1>10. o \in Results(C) /\ o.db = p.db
    BY <1>6, <1>7, <1>9, CountedIs
  <1>11. QED  BY <1>7, <1>9, <1>10, FieldsOfResults, FieldsOfHandles DEF Opened

-----------------------------------------------------------------------------
(***************************************************************************)
(* Undoing failed work.                                                    *)
(***************************************************************************)

\* Nothing is pending where the next statement would find it.
Clean(k) ==
  /\ k.p.seen = k.p.store
  /\ k.dual /\ k.p.open => k.s.seen = k.s.store

\* What an attempt to undo leaves of the handle, whether it worked or not.
Undoes(hd, k) ==
  /\ k.dual = hd.dual /\ Durable(hd.p, k.p) /\ k.p.seen \in {hd.p.seen, hd.p.store}
  /\ k.p.open => hd.p.open
  /\ k.sync => hd.sync
  /\ IF hd.dual
       THEN Durable(hd.s, k.s) /\ k.s.seen \in {hd.s.seen, hd.s.store} /\ ~k.active
       ELSE k.s = hd.s /\ k.active = hd.active

\* No open session refuses statements.
Calm(k) == k.p.open => ~k.p.failed /\ (k.dual => ~k.s.failed)

UndoesAll(hd, k, ok) == Undoes(hd, k) /\ (ok \/ ~k.p.open => Clean(k))

LEMMA QuietSession ==
  ASSUME NEW C, NEW b \in Sessions(C), ~has_pending_transaction(b)
  PROVE  b.seen = b.store /\ ~b.failed
  <1>1. Settled(b) /\ b.driver \in Drivers
    BY DEF Sessions, SessionRecords
  <1>2. QED  BY <1>1 DEF Settled, Holding, has_pending_transaction, Drivers

LEMMA RollbackUndoes ==
  ASSUME NEW C, NEW hd \in HandlesOf(C), NEW k \in HandlesOf(C), NEW ok \in BOOLEAN,
         RollsBackHandle(hd, k, ok)
  PROVE  Undoes(hd, k) /\ (ok => Clean(k) /\ Calm(k))
  <1> k.p \in Sessions(C) /\ k.s \in Sessions(C)
    BY FieldsOfHandles
  <1>1. CASE ~hd.dual
    <2>1. RollsBackTo(hd.p, k.p, ok) /\ Kept(hd, k)
      BY <1>1 DEF RollsBackHandle
    <2>2. ok => ~k.p.failed
      BY <2>1, QuietSession DEF RollsBackTo
    <2>3. QED  BY <1>1, <2>1, <2>2 DEF RollsBackTo, Kept, Undoes, Clean, Durable, Calm
  <1>2. CASE hd.dual
    <2>1. PICK q \in BOOLEAN, r \in BOOLEAN :
            /\ RollsBackTo(hd.p, k.p, q) /\ RollsBackTo(hd.s, k.s, r) /\ ok = (q /\ r)
            /\ k.sync = (hd.sync /\ r)
      BY <1>2 DEF RollsBackHandle
    <2>2. ~k.active /\ k.dual = hd.dual
      BY <1>2 DEF RollsBackHandle
    <2>3. ok => ~k.p.failed /\ ~k.s.failed
      BY <2>1, QuietSession DEF RollsBackTo
    <2>4. QED  BY <1>2, <2>1, <2>2, <2>3 DEF RollsBackTo, Undoes, Clean, Durable, Calm
  <1>3. QED  BY <1>1, <1>2

LEMMA InvalidateUndoes ==
  ASSUME NEW C, NEW hd \in HandlesOf(C), NEW k \in HandlesOf(C), NEW ok \in BOOLEAN,
         ClosesHandle(hd, k, ok), hd.dual => ~hd.active
  PROVE  UndoesAll(hd, k, ok) /\ (ok => Calm(k))
  <1>1. ClosesTo(hd.p, k.p, ok) /\ k.dual = hd.dual /\ k.sync = hd.sync
    BY DEF ClosesHandle
  <1>2. /\ Durable(hd.p, k.p) /\ k.p.seen \in {hd.p.seen, hd.p.store}
        /\ k.p.open => hd.p.open
        /\ ok \/ ~k.p.open => ~k.p.open /\ k.p.seen = k.p.store
    BY <1>1 DEF ClosesTo, Durable
  <1>3. CASE ~hd.dual
    BY <1>1, <1>2, <1>3 DEF ClosesHandle, Kept, UndoesAll, Undoes, Clean, Calm
  <1>4. CASE hd.dual
    <2>1. PICK q \in BOOLEAN : ClosesTo(hd.s, k.s, q)
      BY <1>4 DEF ClosesHandle
    <2>2. Durable(hd.s, k.s) /\ k.s.seen \in {hd.s.seen, hd.s.store}
      BY <2>1 DEF ClosesTo, Durable
    <2>3. ~k.active
      BY <1>4 DEF ClosesHandle
    <2>4. QED  BY <1>1, <1>2, <1>4, <2>2, <2>3 DEF UndoesAll, Undoes, Clean, Calm
  <1>5. QED  BY <1>3, <1>4

LEMMA UndoesTwice ==
  ASSUME NEW a, NEW b, NEW c, Undoes(a, b), Undoes(b, c)
  PROVE  Undoes(a, c) /\ (Clean(b) => Clean(c))
  <1>1. /\ c.dual = a.dual /\ Durable(a.p, c.p) /\ c.p.seen \in {a.p.seen, a.p.store}
        /\ (c.p.open => a.p.open) /\ (c.sync => a.sync) /\ (Clean(b) => c.p.seen = c.p.store)
    BY DEF Undoes, Durable, Clean
  <1>2. CASE a.dual
    <2>1. /\ Durable(a.s, c.s) /\ c.s.seen \in {a.s.seen, a.s.store} /\ ~c.active
          /\ b.s.seen = b.s.store => c.s.seen = c.s.store
      BY <1>2 DEF Undoes, Durable
    <2>2. c.p.open => b.p.open
      BY DEF Undoes
    <2>3. QED  BY <1>1, <1>2, <2>1, <2>2 DEF Undoes, Clean
  <1>3. CASE ~a.dual
    BY <1>1, <1>3 DEF Undoes, Clean
  <1>4. QED  BY <1>2, <1>3

LEMMA RollbackOrInvalidateIs ==
  ASSUME NEW C, NEW hd \in HandlesOf(C), NEW o \in RollbackOrInvalidate(hd)
  PROVE  o \in Results(C) /\ UndoesAll(hd, o.db, o.ok) /\ (o.ok => Calm(o.db))
  <1>1. PICK e \in Rollback(hd) :
          \/ e.ok /\ o = e
          \/ ~e.ok /\ \E p \in Invalidate(e.db) : o = Err(p.db, e.faults + p.faults)
    BY Zenon DEF RollbackOrInvalidate, Handling
  <1>2. e \in Results(C) /\ RollsBackHandle(hd, e.db, e.ok)
    BY RollbackIs
  <1>3. e.db \in HandlesOf(C) /\ e.ok \in BOOLEAN /\ e.faults \in Nat
    BY <1>2, FieldsOfResults
  <1>4. Undoes(hd, e.db) /\ (e.ok => Clean(e.db) /\ Calm(e.db))
    BY <1>2, <1>3, RollbackUndoes
  <1>5. CASE e.ok /\ o = e
    BY <1>2, <1>4, <1>5 DEF UndoesAll
  <1>6. CASE ~e.ok /\ \E p \in Invalidate(e.db) : o = Err(p.db, e.faults + p.faults)
    <2>1. PICK p \in Invalidate(e.db) : o = Err(p.db, e.faults + p.faults)
      BY <1>6
    <2>2. p \in Results(C) /\ ClosesHandle(e.db, p.db, p.ok)
      BY <1>3, InvalidateIs
    <2>3. p.db \in HandlesOf(C) /\ p.ok \in BOOLEAN /\ p.faults \in Nat
      BY <2>2, FieldsOfResults
    <2>4. e.db.dual => ~e.db.active
      BY <1>4 DEF Undoes
    <2>5. UndoesAll(e.db, p.db, p.ok) /\ (p.ok => Calm(p.db))
      BY <1>3, <2>2, <2>3, <2>4, InvalidateUndoes
    <2>6. o \in Results(C) /\ o.db = p.db /\ o.ok = FALSE
      <3>1. e.faults + p.faults \in Nat
        BY <1>3, <2>3, SumsAreNat, Zenon
      <3>2. QED  BY <2>1, <2>3, <3>1 DEF Err, Results
    <2>7. Undoes(hd, o.db)
      BY <1>4, <2>5, <2>6, UndoesTwice DEF UndoesAll
    <2>8. QED  BY <2>5, <2>6, <2>7 DEF UndoesAll
  <1>7. QED  BY <1>1, <1>5, <1>6

LEMMA RollbackFailedImportIs ==
  ASSUME NEW C, NEW hd \in HandlesOf(C), NEW o \in RollbackFailedImport(hd)
  PROVE  o \in Results(C) /\ UndoesAll(hd, o.db, o.ok) /\ (o.ok => Calm(o.db))
  <1>1. PICK e \in Rollback(hd) :
          \/ e.ok /\ o = e
          \/ ~e.ok /\ \E p \in Invalidate(e.db) : o = [p EXCEPT !.faults = @ + e.faults]
    BY Zenon DEF RollbackFailedImport
  <1>2. e \in Results(C) /\ RollsBackHandle(hd, e.db, e.ok)
    BY RollbackIs
  <1>3. e.db \in HandlesOf(C) /\ e.ok \in BOOLEAN /\ e.faults \in Nat
    BY <1>2, FieldsOfResults
  <1>4. Undoes(hd, e.db) /\ (e.ok => Clean(e.db) /\ Calm(e.db))
    BY <1>2, <1>3, RollbackUndoes
  <1>5. CASE e.ok /\ o = e
    BY <1>2, <1>4, <1>5 DEF UndoesAll
  <1>6. CASE ~e.ok /\ \E p \in Invalidate(e.db) : o = [p EXCEPT !.faults = @ + e.faults]
    <2>1. PICK p \in Invalidate(e.db) : o = [p EXCEPT !.faults = @ + e.faults]
      BY <1>6
    <2>2. p \in Results(C) /\ ClosesHandle(e.db, p.db, p.ok)
      BY <1>3, InvalidateIs
    <2>3. p.db \in HandlesOf(C) /\ p.ok \in BOOLEAN /\ p.faults \in Nat
      BY <2>2, FieldsOfResults
    <2>4. e.db.dual => ~e.db.active
      BY <1>4 DEF Undoes
    <2>5. UndoesAll(e.db, p.db, p.ok) /\ (p.ok => Calm(p.db))
      BY <1>3, <2>2, <2>3, <2>4, InvalidateUndoes
    <2>6. o \in Results(C) /\ o.db = p.db /\ o.ok = p.ok
      BY <1>3, <2>1, <2>2, CountedIs
    <2>7. Undoes(hd, o.db)
      BY <1>4, <2>5, <2>6, UndoesTwice DEF UndoesAll
    <2>8. QED  BY <2>5, <2>6, <2>7 DEF UndoesAll
  <1>7. QED  BY <1>1, <1>5, <1>6

\* With nothing pending nothing is undone.
LEMMA NothingPending ==
  ASSUME NEW C, NEW hd \in HandlesOf(C), ~Pending(hd)
  PROVE  /\ Clean(hd) /\ Calm(hd) /\ ~hd.active
         /\ hd.dual => hd.s.seen = hd.s.store
  <1>1. hd.p \in Sessions(C) /\ hd.s \in Sessions(C)
    BY FieldsOfHandles
  <1>2. hd.p.seen = hd.p.store /\ ~hd.p.failed /\ ~hd.active
    BY <1>1, QuietSession DEF Pending
  <1>3. hd.dual => hd.s.seen = hd.s.store /\ ~hd.s.failed
    <2>1. CASE hd.s.open
      BY <1>1, <2>1, QuietSession DEF Pending
    <2>2. CASE ~hd.s.open
      BY <1>1, <2>2 DEF Sessions, Settled, Holding
    <2>3. QED  BY <2>1, <2>2
  <1>4. QED  BY <1>2, <1>3 DEF Clean, Calm

LEMMA RollbackPendingOrRaiseIs ==
  ASSUME NEW C, NEW hd \in HandlesOf(C), NEW o \in RollbackPendingOrRaise(hd)
  PROVE  o \in Results(C) /\ UndoesAll(hd, o.db, o.ok) /\ (o.ok => Calm(o.db))
  <1>1. CASE Pending(hd)
    <2>1. o \in RollbackOrInvalidate(hd)
      BY <1>1 DEF RollbackPendingOrRaise, RollbackOrInvalidate
    <2>2. QED  BY <2>1, RollbackOrInvalidateIs
  <1>2. CASE ~Pending(hd)
    <2>1. o = Ok(hd, 0)
      BY <1>2 DEF RollbackPendingOrRaise
    <2>2. Clean(hd) /\ Calm(hd) /\ ~hd.active
      BY <1>2, NothingPending
    <2>3. QED  BY <2>1, <2>2 DEF Ok, Results, UndoesAll, Undoes, Durable
  <1>3. QED  BY <1>1, <1>2

LEMMA SnapshotUndoIs ==
  ASSUME NEW C, NEW hd \in HandlesOf(C), NEW o \in SnapshotUndo(hd)
  PROVE  /\ o \in Results(C) /\ Undoes(hd, o.db) /\ (todo = <<>> => o.ok)
         /\ todo # <<>> => UndoesAll(hd, o.db, o.ok)
  <1> DEFINE Again(x) == {Ok(e.db, e.faults) : e \in Rollback(x)}
  <1>1. ASSUME NEW x \in HandlesOf(C), NEW r \in Again(x)
        PROVE  r \in Results(C) /\ r.ok = TRUE /\ Undoes(x, r.db)
    <2>1. PICK e \in Rollback(x) : r = Ok(e.db, e.faults)
      BY <1>1, Zenon
    <2> HIDE DEF Again
    <2>2. e \in Results(C) /\ RollsBackHandle(x, e.db, e.ok)
      BY RollbackIs
    <2>3. e.db \in HandlesOf(C) /\ e.ok \in BOOLEAN /\ e.faults \in Nat
      BY <2>2, FieldsOfResults
    <2>4. Undoes(x, e.db)
      BY <2>2, <2>3, RollbackUndoes
    <2>5. QED  BY <2>1, <2>3, <2>4 DEF Ok, Results
  <1>2. CASE todo = <<>>
    <2>1. o \in Again(hd)
      BY <1>2 DEF SnapshotUndo
    <2> HIDE DEF Again
    <2>2. QED  BY <1>1, <1>2, <2>1
  <1>3. CASE todo # <<>>
    <2>1. o \in Then(RollbackFailedImport(hd), Again)
      BY <1>3, Zenon DEF SnapshotUndo
    <2>2. PICK e \in RollbackFailedImport(hd) :
            \/ ~e.ok /\ o = e
            \/ e.ok /\ \E p \in Again(e.db) : o = [p EXCEPT !.faults = @ + e.faults]
      BY <2>1, Zenon DEF Then
    <2> HIDE DEF Again
    <2>3. e \in Results(C) /\ UndoesAll(hd, e.db, e.ok)
      BY RollbackFailedImportIs, Zenon
    <2>4. CASE ~e.ok /\ o = e
      BY <1>3, <2>3, <2>4, Zenon DEF UndoesAll
    <2>5. CASE e.ok /\ \E p \in Again(e.db) : o = [p EXCEPT !.faults = @ + e.faults]
      <3>1. PICK p \in Again(e.db) : o = [p EXCEPT !.faults = @ + e.faults]
        BY <2>5, Zenon
      <3>2. e.db \in HandlesOf(C) /\ e.faults \in Nat
        BY <2>3, FieldsOfResults, Zenon
      <3>3. p \in Results(C) /\ p.ok = TRUE /\ Undoes(e.db, p.db)
        BY <1>1, <3>1, <3>2, Zenon
      <3>4. o \in Results(C) /\ o.db = p.db /\ o.ok = TRUE
        BY <3>1, <3>2, <3>3, CountedIs, Zenon
      <3>5. Undoes(hd, e.db) /\ Clean(e.db)
        BY <2>3, <2>5, Zenon DEF UndoesAll
      <3>6. Undoes(hd, o.db) /\ Clean(o.db)
        BY <3>3, <3>4, <3>5, UndoesTwice, Zenon
      <3>7. QED  BY <1>3, <3>4, <3>6, Zenon DEF UndoesAll
    <2>6. QED  BY <2>2, <2>4, <2>5, Zenon
  <1>4. QED  BY <1>2, <1>3

\* The writer's own handler.
LEMMA WriterUndoIs ==
  ASSUME NEW C, NEW hd \in HandlesOf(C), NEW o \in WriterUndo(hd)
  PROVE  /\ o \in Results(C)
         /\ ~Coupled => o.db = hd /\ o.ok
         /\ Coupled => Undoes(hd, o.db)
         /\ Coupled /\ (todo # <<>> \/ kind # "snapshot") => UndoesAll(hd, o.db, o.ok)
  <1>1. CASE ~Coupled
    <2>1. o = Ok(hd, 0)
      BY <1>1 DEF WriterUndo
    <2>2. QED  BY <1>1, <2>1 DEF Ok, Results
  <1>2. CASE Coupled /\ kind = "snapshot"
    <2>1. o \in SnapshotUndo(hd)
      BY <1>2 DEF WriterUndo
    <2>2. QED  BY <1>2, <2>1, SnapshotUndoIs
  <1>3. CASE Coupled /\ kind = "wfnative"
    <2>1. o \in RollbackFailedImport(hd)
      BY <1>3 DEF WriterUndo
    <2>2. QED  BY <1>3, <2>1, RollbackFailedImportIs DEF UndoesAll
  <1>4. CASE Coupled /\ kind \notin {"snapshot", "wfnative"}
    <2>1. o \in RollbackOrInvalidate(hd)
      BY <1>4 DEF WriterUndo
    <2>2. QED  BY <1>4, <2>1, RollbackOrInvalidateIs DEF UndoesAll
  <1>5. QED  BY <1>1, <1>2, <1>3, <1>4

-----------------------------------------------------------------------------
(***************************************************************************)
(* Statements and rows.                                                    *)
(***************************************************************************)
Heads == [ver : Nat, sealed : BOOLEAN]
Children == SUBSET (Nat \X Nat)
Entries == [head : Heads, kids : [Tabs -> Children]]
Contents == [Keys -> Entries]

Simple ==
  [do : {"parent", "head", "open", "seal", "unhead", "kids", "unkids"},
   key : Keys, ver : Nat, tab : Tabs, new : Children]
Manys == [do : {"many"}, new : UNION {[K -> Nat] : K \in SUBSET Keys}]
Stmts == Simple \cup Manys
Scripts == Seq(Stmts) \ {<<>>}

\* The function f with another value at x.
Put(f, x, v) == [f EXCEPT ![x] = v]

\* What a simple statement makes of the entry of its key.
Eff(d, e, s) ==
  CASE s.do = "parent" ->
         [head |-> [ver |-> s.ver, sealed |-> d # "sqlite" /\ e.head.ver # 0 /\ e.head.sealed],
          kids |-> e.kids]
    [] s.do = "head" -> [head |-> [ver |-> s.ver, sealed |-> TRUE], kids |-> e.kids]
    [] s.do = "open" -> [head |-> [ver |-> s.ver, sealed |-> FALSE], kids |-> e.kids]
    [] s.do = "seal" -> [head |-> [ver |-> e.head.ver, sealed |-> TRUE], kids |-> e.kids]
    [] s.do = "unhead" -> [head |-> NoHead, kids |-> e.kids]
    [] s.do = "kids" ->
         [head |-> e.head,
          kids |-> [e.kids EXCEPT ![s.tab] = {x \in @ : \A y \in s.new : x[1] # y[1]} \cup s.new]]
    [] s.do = "unkids" -> [head |-> e.head, kids |-> [e.kids EXCEPT ![s.tab] = {}]]

LEMMA EffIsEntry ==
  ASSUME NEW d, NEW e \in Entries, NEW s \in Simple
  PROVE  Eff(d, e, s) \in Entries
  <1>1. /\ e.head \in Heads /\ e.kids \in [Tabs -> Children] /\ s.ver \in Nat /\ s.tab \in Tabs
        /\ s.new \in Children /\ e.head.ver \in Nat /\ e.head.sealed \in BOOLEAN
    BY DEF Entries, Simple, Heads
  <1>2. NoHead \in Heads
    BY DEF NoHead, Heads
  <1> DEFINE W == {x \in e.kids[s.tab] : \A y \in s.new : x[1] # y[1]} \cup s.new
             V == [e.kids EXCEPT ![s.tab] = W]
  <1>3. e.kids[s.tab] \in Children /\ W \in Children /\ {} \in Children
    BY <1>1 DEF Children
  <1>4. V \in [Tabs -> Children] /\ [e.kids EXCEPT ![s.tab] = {}] \in [Tabs -> Children]
    <2> HIDE DEF W
    <2>1. QED  BY <1>1, <1>3
  <1>5. CASE s.do = "parent"
    <2>1. [ver |-> s.ver, sealed |-> d # "sqlite" /\ e.head.ver # 0 /\ e.head.sealed] \in Heads
      BY <1>1 DEF Heads
    <2>2. QED  BY <1>1, <1>5, <2>1 DEF Eff, Entries
  <1>6. CASE s.do \in {"head", "open", "seal", "unhead"}
    BY <1>1, <1>2, <1>6 DEF Eff, Entries, Heads
  <1>7. CASE s.do = "kids"
    <2>1. Eff(d, e, s) = [head |-> e.head, kids |-> V]
      BY <1>7 DEF Eff
    <2> HIDE DEF V
    <2>2. QED  BY <1>1, <1>4, <2>1 DEF Entries
  <1>8. CASE s.do = "unkids"
    BY <1>1, <1>4, <1>8 DEF Eff, Entries
  <1>9. QED  BY <1>5, <1>6, <1>7, <1>8 DEF Simple

LEMMA SimpleApplies ==
  ASSUME NEW d, NEW c \in Contents, NEW s \in Simple
  PROVE  /\ Apply(d, c, s) = Put(c, s.key, Eff(d, c[s.key], s))
         /\ Apply(d, c, s) \in Contents
  <1> DEFINE e == c[s.key]
  <1>1. s.key \in Keys /\ e \in Entries
    BY DEF Simple, Contents
  <1>2. /\ e.kids \in [Tabs -> Children] /\ e.head \in Heads
        /\ s.tab \in Tabs
    BY <1>1 DEF Entries, Heads, Simple
  <1>25. ASSUME NEW v
         PROVE  /\ [e EXCEPT !.head = v] = [head |-> v, kids |-> e.kids]
                /\ [e EXCEPT !.head.sealed = v] = [head |-> [ver |-> e.head.ver, sealed |-> v], kids |-> e.kids]
                /\ [e EXCEPT !.kids[s.tab] = v] = [head |-> e.head, kids |-> [e.kids EXCEPT ![s.tab] = v]]
    <2>1. [e.head EXCEPT !.sealed = v] = [ver |-> e.head.ver, sealed |-> v]
      BY <1>2 DEF Heads
    <2>2. [e EXCEPT !.head.sealed = v] = [head |-> [e.head EXCEPT !.sealed = v], kids |-> e.kids]
      BY <1>1 DEF Entries
    <2>3. [e EXCEPT !.head = v] = [head |-> v, kids |-> e.kids]
      BY <1>1 DEF Entries
    <2>4. [e EXCEPT !.kids[s.tab] = v] = [head |-> e.head, kids |-> [e.kids EXCEPT ![s.tab] = v]]
      BY <1>1 DEF Entries
    <2>5. QED  BY <2>1, <2>2, <2>3, <2>4, Zenon
  <1>3. Apply(d, c, s) = [c EXCEPT ![s.key] = Eff(d, e, s)]
    <2> DEFINE F == [ver |-> s.ver, sealed |-> d # "sqlite" /\ e.head.ver # 0 /\ e.head.sealed]
               W == {x \in e.kids[s.tab] : \A y \in s.new : x[1] # y[1]} \cup s.new
    <2>1. CASE s.do = "parent"
      <3>1. Apply(d, c, s) = [c EXCEPT ![s.key] = [e EXCEPT !.head = F]]
        BY <2>1 DEF Apply
      <3>2. Eff(d, e, s) = [head |-> F, kids |-> e.kids]
        BY <2>1 DEF Eff
      <3> HIDE DEF F
      <3>3. QED  BY <1>25, <3>1, <3>2, Zenon
    <2>2. CASE s.do = "head"
      <3>1. Apply(d, c, s) = [c EXCEPT ![s.key] = [e EXCEPT !.head = [ver |-> s.ver, sealed |-> TRUE]]]
        BY <2>2 DEF Apply
      <3>2. Eff(d, e, s) = [head |-> [ver |-> s.ver, sealed |-> TRUE], kids |-> e.kids]
        BY <2>2 DEF Eff
      <3>3. QED  BY <1>25, <3>1, <3>2, Zenon
    <2>3. CASE s.do = "open"
      <3>1. Apply(d, c, s) = [c EXCEPT ![s.key] = [e EXCEPT !.head = [ver |-> s.ver, sealed |-> FALSE]]]
        BY <2>3 DEF Apply
      <3>2. Eff(d, e, s) = [head |-> [ver |-> s.ver, sealed |-> FALSE], kids |-> e.kids]
        BY <2>3 DEF Eff
      <3>3. QED  BY <1>25, <3>1, <3>2, Zenon
    <2>4. CASE s.do = "unhead"
      <3>1. Apply(d, c, s) = [c EXCEPT ![s.key] = [e EXCEPT !.head = NoHead]]
        BY <2>4 DEF Apply
      <3>2. Eff(d, e, s) = [head |-> NoHead, kids |-> e.kids]
        BY <2>4 DEF Eff
      <3>3. QED  BY <1>25, <3>1, <3>2, Zenon
    <2>5. CASE s.do = "seal"
      <3>1. Apply(d, c, s) = [c EXCEPT ![s.key] = [e EXCEPT !.head.sealed = TRUE]]
        BY <2>5 DEF Apply
      <3>2. Eff(d, e, s) = [head |-> [ver |-> e.head.ver, sealed |-> TRUE], kids |-> e.kids]
        BY <2>5 DEF Eff
      <3>3. QED  BY <1>25, <3>1, <3>2, Zenon
    <2>6. CASE s.do = "kids"
      <3>1. Apply(d, c, s) = [c EXCEPT ![s.key] = [e EXCEPT !.kids[s.tab] = W]]
        BY <2>6 DEF Apply
      <3>2. Eff(d, e, s) = [head |-> e.head, kids |-> [e.kids EXCEPT ![s.tab] = W]]
        BY <2>6 DEF Eff
      <3> HIDE DEF W
      <3>3. QED  BY <1>25, <3>1, <3>2, Zenon
    <2>7. CASE s.do = "unkids"
      <3>1. Apply(d, c, s) = [c EXCEPT ![s.key] = [e EXCEPT !.kids[s.tab] = {}]]
        BY <2>7 DEF Apply
      <3>2. Eff(d, e, s) = [head |-> e.head, kids |-> [e.kids EXCEPT ![s.tab] = {}]]
        BY <2>7 DEF Eff
      <3>3. QED  BY <1>25, <3>1, <3>2, Zenon
    <2>8. QED  BY <2>1, <2>2, <2>3, <2>4, <2>5, <2>6, <2>7 DEF Simple
  <1>4. Eff(d, e, s) \in Entries
    BY <1>1, EffIsEntry
  <1>5. QED  BY <1>1, <1>3, <1>4 DEF Contents, Put

Reheaded(e, v) == [e EXCEPT !.head = [ver |-> v, sealed |-> TRUE]]

LEMMA ManyApplies ==
  ASSUME NEW d, NEW c, NEW s, s.do = "many"
  PROVE  Apply(d, c, s) =
           [k \in Keys |-> IF k \in DOMAIN s.new THEN Reheaded(c[k], s.new[k]) ELSE c[k]]
  <1> DEFINE E(k) == IF k \in DOMAIN s.new
                       THEN [c[k] EXCEPT !.head = [ver |-> s.new[k], sealed |-> TRUE]] ELSE c[k]
  <1>1. Apply(d, c, s) = [k \in Keys |-> E(k)]
    BY DEF Apply
  <1>2. ASSUME NEW k PROVE E(k) = IF k \in DOMAIN s.new THEN Reheaded(c[k], s.new[k]) ELSE c[k]
    BY Zenon DEF Reheaded
  <1> HIDE DEF E
  <1>3. QED  BY <1>1, <1>2

LEMMA StatementApplies ==
  ASSUME NEW d, NEW c \in Contents, NEW s \in Stmts
  PROVE  Apply(d, c, s) \in Contents
  <1>1. CASE s \in Simple
    BY <1>1, SimpleApplies
  <1>2. CASE s \in Manys
    <2>1. s.do = "many" /\ \A k \in DOMAIN s.new : s.new[k] \in Nat
      BY <1>2 DEF Manys
    <2> DEFINE E(k) == IF k \in DOMAIN s.new
                         THEN [c[k] EXCEPT !.head = [ver |-> s.new[k], sealed |-> TRUE]] ELSE c[k]
    <2>2. Apply(d, c, s) = [k \in Keys |-> E(k)]
      BY <2>1 DEF Apply
    <2>3. ASSUME NEW k \in Keys PROVE E(k) \in Entries
      BY <2>1 DEF Contents, Entries, Heads
    <2> HIDE DEF E
    <2>4. QED  BY <2>2, <2>3 DEF Contents
  <1>3. QED  BY <1>1, <1>2 DEF Stmts

-----------------------------------------------------------------------------
\* From the rows c the statements t lead into X: whatever rows f[i] the first i
\* of them have made.
LeadsTo(d, c, t, X) ==
  \A f : (f[0] = c /\ \A i \in 1..Len(t) : f[i] = Apply(d, f[i - 1], t[i])) => f[Len(t)] \in X

\* So do the scripts T, by way of the rows Y[i] before the i-th of them.
Leads(d, c, T, Z) ==
  \E Y \in [1..Len(T) + 1 -> SUBSET Contents] :
     /\ c \in Y[1] /\ Y[Len(T) + 1] \subseteq Z
     /\ \A i \in 1..Len(T) : \A x \in Y[i] : LeadsTo(d, x, T[i], Y[i + 1])

LEMMA NothingLeft ==
  ASSUME NEW d, NEW c, NEW Z
  PROVE  /\ Leads(d, c, <<>>, Z) => c \in Z
         /\ c \in Z \cap Contents => Leads(d, c, <<>>, Z)
  <1>1. Len(<<>>) = 0 /\ 0 + 1 = 1 /\ 1..0 = {}
    OBVIOUS
  <1>2. Leads(d, c, <<>>, Z) => c \in Z
    BY <1>1 DEF Leads
  <1>3. ASSUME c \in Z \cap Contents PROVE Leads(d, c, <<>>, Z)
    <2> DEFINE Y == [i \in 1..1 |-> {c}]
    <2>1. Y \in [1..1 -> SUBSET Contents] /\ c \in Y[1] /\ Y[1] \subseteq Z
      BY <1>3
    <2> HIDE DEF Y
    <2>2. QED  BY <1>1, <2>1 DEF Leads
  <1>4. QED  BY <1>2, <1>3

\* One statement of a script.
LEMMA ScriptStep ==
  ASSUME NEW d, NEW c, NEW t \in Scripts, NEW X, LeadsTo(d, c, t, X)
  PROVE  /\ Len(t) = 1 => Apply(d, c, t[1]) \in X
         /\ Len(t) # 1 => LeadsTo(d, Apply(d, c, t[1]), Tail(t), X)
  <1>1. t \in Seq(Stmts) /\ t # <<>> /\ Len(t) \in Nat /\ Len(t) >= 1
    BY DEF Scripts
  <1>2. ASSUME Len(t) = 1 PROVE Apply(d, c, t[1]) \in X
    <2> DEFINE f == [i \in 0..1 |-> IF i = 0 THEN c ELSE Apply(d, c, t[1])]
    <2>1. f[0] = c /\ f[1] = Apply(d, c, t[1])
      OBVIOUS
    <2> HIDE DEF f
    <2>2. \A i \in 1..Len(t) : f[i] = Apply(d, f[i - 1], t[i])
      <3>1. \A i \in 1..Len(t) : i = 1 /\ i - 1 = 0
        BY <1>2
      <3>2. QED  BY <2>1, <3>1
    <2>3. f[Len(t)] \in X
      BY <2>1, <2>2 DEF LeadsTo
    <2>4. QED  BY <1>2, <2>1, <2>3
  <1>3. ASSUME Len(t) # 1, NEW f, f[0] = Apply(d, c, t[1]),
               \A i \in 1..Len(Tail(t)) : f[i] = Apply(d, f[i - 1], Tail(t)[i])
        PROVE  f[Len(Tail(t))] \in X
    <2> DEFINE n == Len(t)
               g == [i \in 0..n |-> IF i = 0 THEN c ELSE f[i - 1]]
    <2>1. Len(Tail(t)) = n - 1 /\ \A i \in 1..n - 1 : Tail(t)[i] = t[i + 1]
      BY <1>1
    <2>2. g[0] = c /\ \A i \in 1..n : g[i] = f[i - 1]
      BY <1>1
    <2> HIDE DEF g
    <2>3. ASSUME NEW i \in 1..n PROVE g[i] = Apply(d, g[i - 1], t[i])
      <3>1. CASE i = 1
        BY <1>1, <1>3, <2>2, <3>1
      <3>2. CASE i # 1
        <4>1. i - 1 \in 1..n - 1 /\ i - 1 \in 1..n /\ (i - 1) + 1 = i
          BY <1>1, <3>2
        <4>2. f[i - 1] = Apply(d, f[(i - 1) - 1], t[i])
          BY <1>3, <2>1, <4>1
        <4>3. QED  BY <2>2, <4>1, <4>2
      <3>3. QED  BY <3>1, <3>2
    <2>4. g[n] \in X
      BY <2>2, <2>3 DEF LeadsTo
    <2>5. QED  BY <1>1, <2>1, <2>2, <2>4
  <1>4. QED  BY <1>2, <1>3 DEF LeadsTo

\* One statement of a batch.
LEMMA LeadsStep ==
  ASSUME NEW d, NEW c \in Contents, todo \in Seq(Scripts), todo # <<>>, NEW Z,
         Leads(d, c, todo, Z)
  PROVE  Leads(d, Apply(d, c, Current), Remaining, Z)
  <1> DEFINE n == Len(todo)
             t == Head(todo)
             a == Apply(d, c, Current)
  <1>1. /\ n \in Nat /\ n >= 1 /\ t = todo[1] /\ t \in Scripts /\ Current = t[1]
        /\ Len(Tail(todo)) = n - 1 /\ \A i \in 1..n - 1 : Tail(todo)[i] = todo[i + 1]
    BY DEF Current, Scripts
  <1>2. PICK Y \in [1..n + 1 -> SUBSET Contents] :
          /\ c \in Y[1] /\ Y[n + 1] \subseteq Z
          /\ \A i \in 1..n : \A x \in Y[i] : LeadsTo(d, x, todo[i], Y[i + 1])
    BY DEF Leads
  <1>3. LeadsTo(d, c, t, Y[2])
    <2>1. 1 \in 1..n /\ 1 + 1 = 2
      BY <1>1
    <2>2. QED  BY <1>1, <1>2, <2>1
  <1>4. CASE Len(t) = 1
    <2>1. Remaining = Tail(todo)
      BY <1>4 DEF Remaining
    <2>2. a \in Y[2]
      BY <1>1, <1>3, <1>4, ScriptStep
    <2> DEFINE W == [i \in 1..(n - 1) + 1 |-> Y[i + 1]]
    <2>3. /\ W \in [1..(n - 1) + 1 -> SUBSET Contents]
          /\ W[1] = Y[2] /\ W[(n - 1) + 1] = Y[n + 1]
      BY <1>1, <1>2
    <2>4. ASSUME NEW i \in 1..n - 1, NEW x \in W[i]
          PROVE  LeadsTo(d, x, Tail(todo)[i], W[i + 1])
      <3>1. /\ i + 1 \in 1..n /\ W[i] = Y[i + 1] /\ W[i + 1] = Y[(i + 1) + 1]
            /\ Tail(todo)[i] = todo[i + 1]
        BY <1>1
      <3> HIDE DEF W
      <3>2. QED  BY <1>2, <2>4, <3>1
    <2> HIDE DEF W
    <2>5. Leads(d, a, Tail(todo), Z)
      BY <1>1, <1>2, <2>2, <2>3, <2>4 DEF Leads
    <2>6. QED  BY <2>1, <2>5
  <1>5. CASE Len(t) # 1
    <2> DEFINE T == <<Tail(t)>> \o Tail(todo)
    <2>1. Remaining = T
      BY <1>5 DEF Remaining
    <2>2. /\ Len(T) = n /\ T[1] = Tail(t)
          /\ \A i \in 2..n : T[i] = todo[i]
      <3>1. T \in Seq({Tail(t)} \cup Scripts) /\ Len(<<Tail(t)>>) = 1
        OBVIOUS
      <3>2. QED  BY <1>1, <3>1
    <2>3. LeadsTo(d, a, T[1], Y[2])
      BY <1>1, <1>3, <1>5, <2>2, ScriptStep
    <2> DEFINE W == [i \in 1..n + 1 |-> IF i = 1 THEN {a} ELSE Y[i]]
    <2>4. a \in Contents
      <3>1. Current \in Stmts
        BY <1>1 DEF Scripts
      <3>2. QED  BY <3>1, StatementApplies
    <2>5. /\ W \in [1..n + 1 -> SUBSET Contents] /\ W[1] = {a} /\ W[n + 1] = Y[n + 1]
          /\ \A i \in 2..n + 1 : W[i] = Y[i]
      BY <1>1, <1>2, <2>4
    <2> HIDE DEF T, W
    <2>6. ASSUME NEW i \in 1..n, NEW x \in W[i]
          PROVE  LeadsTo(d, x, T[i], W[i + 1])
      <3>1. CASE i = 1
        <4>1. W[2] = Y[2] /\ 1 + 1 = 2
          BY <1>1, <2>5
        <4>2. x = a
          BY <2>5, <2>6, <3>1
        <4>3. QED  BY <2>3, <3>1, <4>1, <4>2
      <3>2. CASE i # 1
        <4>1. i \in 2..n /\ i \in 2..n + 1 /\ i + 1 \in 2..n + 1
          BY <1>1, <3>2
        <4>2. QED  BY <1>2, <2>2, <2>5, <2>6, <4>1
      <3>3. QED  BY <3>1, <3>2
    <2>7. Leads(d, a, T, Z)
      BY <1>2, <2>2, <2>5, <2>6 DEF Leads
    <2>8. QED  BY <2>1, <2>7
  <1>6. QED  BY <1>4, <1>5

-----------------------------------------------------------------------------
\* The records, and the entries they leave.
Parsed == [key : Keys, ver : Nat, kubun : STRING, count : Nat, rows : Seq(Nat)]

KidsOf(A, B) == [t \in Tabs |-> IF t = "a" THEN A ELSE B]
EntryOf(H, A, B) == [head |-> H, kids |-> KidsOf(A, B)]

\* A key of which one version was stored, or nothing.
WholeEntry(e, k) ==
  e = NoEntry \/ \E i \in DOMAIN Records : /\ Rec(i).key = k /\ Prepared(kind, Rec(i))
                                           /\ e = Told(Rec(i))
WholeRows == {c \in Contents : \A k \in Keys : WholeEntry(c[k], k)}

LEMMA RecordsAreParsed ==
  ASSUME kind \in Kinds
  PROVE  /\ Records \in Seq(Parsed) /\ Len(Records) \in Nat /\ DOMAIN Records = 1..Len(Records)
         /\ \A i \in DOMAIN Records : Rec(i) \in Parsed /\ Rec(i).key \in Keys /\ Rec(i).ver \in Nat
  <1>1. Records \in Seq(Parsed)
    BY StreamIsParsed DEF Records, Parsed
  <1>2. \A i \in DOMAIN Records : Rec(i) \in Parsed
    BY <1>1 DEF Rec
  <1>3. QED  BY <1>1, <1>2 DEF Parsed

LEMMA VersionIs ==
  ASSUME NEW r \in Parsed
  PROVE  Version(r) \in Children
  BY DEF Version, Parsed, Children

LEMMA EntryOfIs ==
  ASSUME NEW H, NEW A, NEW B
  PROVE  /\ EntryOf(H, A, B).head = H /\ EntryOf(H, A, B).kids = KidsOf(A, B)
         /\ KidsOf(A, B)["a"] = A /\ KidsOf(A, B)["b"] = B
         /\ H \in Heads /\ A \in Children /\ B \in Children => EntryOf(H, A, B) \in Entries
  <1>1. /\ EntryOf(H, A, B).head = H /\ EntryOf(H, A, B).kids = KidsOf(A, B)
        /\ KidsOf(A, B)["a"] = A /\ KidsOf(A, B)["b"] = B
    BY DEF EntryOf, KidsOf, Tabs
  <1>2. H \in Heads /\ A \in Children /\ B \in Children => EntryOf(H, A, B) \in Entries
    BY DEF EntryOf, KidsOf, Entries
  <1>3. QED  BY <1>1, <1>2

\* What a record tells, written out.
HeadOf(r) == IF kind = "snapshot" THEN NoHead ELSE [ver |-> r.ver, sealed |-> TRUE]
RowsIn(t, r) == IF t \in ChildTables THEN Version(r) ELSE {}

LEMMA ToldIs ==
  ASSUME NEW r \in Parsed
  PROVE  /\ NoEntry = EntryOf(NoHead, {}, {}) /\ NoEntry \in Entries
         /\ Entry(r) = EntryOf(HeadOf(r), RowsIn("a", r), RowsIn("b", r))
         /\ Told(r) \in Entries
         /\ HeadOf(r) \in Heads /\ RowsIn("a", r) \in Children /\ RowsIn("b", r) \in Children
  <1>1. /\ HeadOf(r) \in Heads /\ NoHead \in Heads /\ {} \in Children
        /\ RowsIn("a", r) \in Children /\ RowsIn("b", r) \in Children
    BY VersionIs DEF HeadOf, RowsIn, NoHead, Heads, Children, Parsed
  <1>2. NoEntry = EntryOf(NoHead, {}, {})
    BY DEF NoEntry, EntryOf, KidsOf, Tabs
  <1>3. Entry(r) = EntryOf(HeadOf(r), RowsIn("a", r), RowsIn("b", r))
    BY DEF Entry, EntryOf, KidsOf, Tabs, HeadOf, RowsIn
  <1>4. NoEntry \in Entries /\ Entry(r) \in Entries
    BY <1>1, <1>2, <1>3, EntryOfIs
  <1>5. QED  BY <1>1, <1>2, <1>3, <1>4 DEF Told

LEMMA WholeEntryIs ==
  ASSUME kind \in Kinds, NEW k, NEW e, WholeEntry(e, k)
  PROVE  \E H \in Heads, A \in Children, B \in Children :
           /\ e = EntryOf(H, A, B)
           /\ "a" \notin ChildTables => A = {}
           /\ "b" \notin ChildTables => B = {}
           /\ kind = "snapshot" => H = NoHead
           /\ kind \in {"ks", "ch"} =>
                A = {} \/ \E r \in Parsed : r.rows = FullRows /\ A = Version(r)
  <1>1. NoHead \in Heads /\ {} \in Children /\ NoEntry = EntryOf(NoHead, {}, {})
    BY DEF NoHead, Heads, Children, NoEntry, EntryOf, KidsOf, Tabs
  <1>2. CASE e = NoEntry
    BY <1>1, <1>2
  <1>3. CASE e # NoEntry
    <2>1. PICK i \in DOMAIN Records : Prepared(kind, Rec(i)) /\ e = Told(Rec(i))
      BY <1>3 DEF WholeEntry
    <2> DEFINE r == Rec(i)
    <2>2. r \in Parsed
      BY <2>1, RecordsAreParsed
    <2>3. e = EntryOf(HeadOf(r), RowsIn("a", r), RowsIn("b", r)) /\ ~(Erases(r) /\ kind # "ch")
      BY <1>3, <2>1, <2>2, ToldIs DEF Told
    <2>4. kind \in {"ks", "ch"} => r.rows = FullRows
      BY <2>1, <2>3 DEF Prepared, PreparedKs, PreparedCh
    <2>5. HeadOf(r) \in Heads /\ RowsIn("a", r) \in Children /\ RowsIn("b", r) \in Children
      BY <2>2, ToldIs
    <2> HIDE DEF r
    <2>6. /\ "a" \notin ChildTables => RowsIn("a", r) = {}
          /\ "b" \notin ChildTables => RowsIn("b", r) = {}
          /\ kind = "snapshot" => HeadOf(r) = NoHead
          /\ RowsIn("a", r) \in {{}, Version(r)}
      BY DEF RowsIn, HeadOf
    <2>7. QED  BY <2>2, <2>3, <2>4, <2>5, <2>6
  <1>4. QED  BY <1>2, <1>3

-----------------------------------------------------------------------------
\* Scripts of one to six statements.
LEMMA Through1 ==
  ASSUME NEW d, NEW c, NEW s1, NEW X,
         Apply(d, c, s1) \in X
  PROVE  LeadsTo(d, c, <<s1>>, X)
  <1> DEFINE t == <<s1>>
  <1>1. Len(t) = 1 /\ t[1] = s1
    OBVIOUS
  <1> HIDE DEF t
  <1>2. SUFFICES ASSUME NEW f, f[0] = c, \A i \in 1..1 : f[i] = Apply(d, f[i - 1], t[i])
                 PROVE  f[1] \in X
    BY <1>1 DEF LeadsTo, t
  <1>3. /\ f[1] = Apply(d, f[0], s1)
    <2>1. 1 \in 1..1 /\ 1 - 1 = 0
      OBVIOUS
    <2>2. QED  BY <1>1, <1>2, <2>1
  <1>4. QED  BY <1>2, <1>3

LEMMA Through2 ==
  ASSUME NEW d, NEW c, NEW s1, NEW s2, NEW X,
         Apply(d, Apply(d, c, s1), s2) \in X
  PROVE  LeadsTo(d, c, <<s1, s2>>, X)
  <1> DEFINE t == <<s1, s2>>
  <1>1. Len(t) = 2 /\ t[1] = s1 /\ t[2] = s2
    OBVIOUS
  <1> HIDE DEF t
  <1>2. SUFFICES ASSUME NEW f, f[0] = c, \A i \in 1..2 : f[i] = Apply(d, f[i - 1], t[i])
                 PROVE  f[2] \in X
    BY <1>1 DEF LeadsTo, t
  <1>3. /\ f[1] = Apply(d, f[0], s1)
        /\ f[2] = Apply(d, f[1], s2)
    <2>1. 1 \in 1..2 /\ 1 - 1 = 0 /\ 2 \in 1..2 /\ 2 - 1 = 1
      OBVIOUS
    <2>2. QED  BY <1>1, <1>2, <2>1
  <1>4. QED  BY <1>2, <1>3

LEMMA Through3 ==
  ASSUME NEW d, NEW c, NEW s1, NEW s2, NEW s3, NEW X,
         Apply(d, Apply(d, Apply(d, c, s1), s2), s3) \in X
  PROVE  LeadsTo(d, c, <<s1, s2, s3>>, X)
  <1> DEFINE t == <<s1, s2, s3>>
  <1>1. Len(t) = 3 /\ t[1] = s1 /\ t[2] = s2 /\ t[3] = s3
    OBVIOUS
  <1> HIDE DEF t
  <1>2. SUFFICES ASSUME NEW f, f[0] = c, \A i \in 1..3 : f[i] = Apply(d, f[i - 1], t[i])
                 PROVE  f[3] \in X
    BY <1>1 DEF LeadsTo, t
  <1>3. /\ f[1] = Apply(d, f[0], s1)
        /\ f[2] = Apply(d, f[1], s2)
        /\ f[3] = Apply(d, f[2], s3)
    <2>1. 1 \in 1..3 /\ 1 - 1 = 0 /\ 2 \in 1..3 /\ 2 - 1 = 1 /\ 3 \in 1..3 /\ 3 - 1 = 2
      OBVIOUS
    <2>2. QED  BY <1>1, <1>2, <2>1
  <1>4. QED  BY <1>2, <1>3

LEMMA Through5 ==
  ASSUME NEW d, NEW c, NEW s1, NEW s2, NEW s3, NEW s4, NEW s5, NEW X,
         Apply(d, Apply(d, Apply(d, Apply(d, Apply(d, c, s1), s2), s3), s4), s5) \in X
  PROVE  LeadsTo(d, c, <<s1, s2, s3, s4, s5>>, X)
  <1> DEFINE t == <<s1, s2, s3, s4, s5>>
  <1>1. Len(t) = 5 /\ t[1] = s1 /\ t[2] = s2 /\ t[3] = s3 /\ t[4] = s4 /\ t[5] = s5
    OBVIOUS
  <1> HIDE DEF t
  <1>2. SUFFICES ASSUME NEW f, f[0] = c, \A i \in 1..5 : f[i] = Apply(d, f[i - 1], t[i])
                 PROVE  f[5] \in X
    BY <1>1 DEF LeadsTo, t
  <1>3. /\ f[1] = Apply(d, f[0], s1)
        /\ f[2] = Apply(d, f[1], s2)
        /\ f[3] = Apply(d, f[2], s3)
        /\ f[4] = Apply(d, f[3], s4)
        /\ f[5] = Apply(d, f[4], s5)
    <2>1. 1 \in 1..5 /\ 1 - 1 = 0 /\ 2 \in 1..5 /\ 2 - 1 = 1 /\ 3 \in 1..5 /\ 3 - 1 = 2 /\ 4 \in 1..5 /\ 4 - 1 = 3 /\ 5 \in 1..5 /\ 5 - 1 = 4
      OBVIOUS
    <2>2. QED  BY <1>1, <1>2, <2>1
  <1>4. QED  BY <1>2, <1>3

LEMMA Through6 ==
  ASSUME NEW d, NEW c, NEW s1, NEW s2, NEW s3, NEW s4, NEW s5, NEW s6, NEW X,
         Apply(d, Apply(d, Apply(d, Apply(d, Apply(d, Apply(d, c, s1), s2), s3), s4), s5), s6) \in X
  PROVE  LeadsTo(d, c, <<s1, s2, s3, s4, s5, s6>>, X)
  <1> DEFINE t == <<s1, s2, s3, s4, s5, s6>>
  <1>1. Len(t) = 6 /\ t[1] = s1 /\ t[2] = s2 /\ t[3] = s3 /\ t[4] = s4 /\ t[5] = s5 /\ t[6] = s6
    OBVIOUS
  <1> HIDE DEF t
  <1>2. SUFFICES ASSUME NEW f, f[0] = c, \A i \in 1..6 : f[i] = Apply(d, f[i - 1], t[i])
                 PROVE  f[6] \in X
    BY <1>1 DEF LeadsTo, t
  <1>3. /\ f[1] = Apply(d, f[0], s1)
        /\ f[2] = Apply(d, f[1], s2)
        /\ f[3] = Apply(d, f[2], s3)
        /\ f[4] = Apply(d, f[3], s4)
        /\ f[5] = Apply(d, f[4], s5)
        /\ f[6] = Apply(d, f[5], s6)
    <2>1. 1 \in 1..6 /\ 1 - 1 = 0 /\ 2 \in 1..6 /\ 2 - 1 = 1 /\ 3 \in 1..6 /\ 3 - 1 = 2 /\ 4 \in 1..6 /\ 4 - 1 = 3 /\ 5 \in 1..6 /\ 5 - 1 = 4 /\ 6 \in 1..6 /\ 6 - 1 = 5
      OBVIOUS
    <2>2. QED  BY <1>1, <1>2, <2>1
  <1>4. QED  BY <1>2, <1>3

\* The rows c, with another entry for the key k.
At(c, k, H, A, B) == Put(c, k, EntryOf(H, A, B))

Sealed(v) == [ver |-> v, sealed |-> TRUE]
Unsealed(v) == [ver |-> v, sealed |-> FALSE]

Merge(A, V) == {x \in A : \A y \in V : x[1] # y[1]} \cup V

LEMMA StatementsAreSimple ==
  ASSUME NEW r \in Parsed, NEW do \in {"parent", "head", "open", "seal", "unhead", "kids", "unkids"},
         NEW t \in Tabs
  PROVE  /\ Stmt(do, r, t) \in Simple /\ Stmt(do, r, t).key = r.key /\ Stmt(do, r, t).do = do
         /\ Stmt(do, r, t).ver = r.ver /\ Stmt(do, r, t).tab = t
         /\ do = "kids" => Stmt(do, r, t).new = Version(r)
  <1>1. Version(r) \in Children /\ {} \in Children
    BY VersionIs DEF Children
  <1>2. QED  BY <1>1 DEF Stmt, Simple, Parsed

LEMMA MergeIs ==
  ASSUME NEW A \in Children, NEW V \in Children
  PROVE  Merge(A, V) \in Children
  BY DEF Merge, Children

LEMMA AtStep ==
  ASSUME NEW d, NEW c \in Contents, NEW k \in Keys, NEW e \in Entries, NEW s \in Simple, s.key = k
  PROVE  Apply(d, Put(c, k, e), s) = Put(c, k, Eff(d, e, s))
  <1> DEFINE x == Put(c, k, e)
             g == Eff(d, e, s)
  <1>1. x \in Contents /\ x[k] = e
    BY DEF Put, Contents
  <1>2. Apply(d, x, s) = Put(x, k, g)
    BY <1>1, SimpleApplies
  <1>3. Put(x, k, g) = Put(c, k, g)
    <2>1. x = Put(c, k, e)
      OBVIOUS
    <2> HIDE DEF g, x
    <2>2. QED  BY <2>1 DEF Contents, Put
  <1>4. QED  BY <1>2, <1>3

LEMMA PutKidsIs ==
  ASSUME NEW A, NEW B, NEW X
  PROVE  /\ Put(KidsOf(A, B), "a", X) = KidsOf(X, B)
         /\ Put(KidsOf(A, B), "b", X) = KidsOf(A, X)
  BY DEF Put, KidsOf, Tabs

LEMMA HeadPut ==
  ASSUME NEW c \in Contents, NEW r \in Parsed,
         NEW H \in Heads, NEW A \in Children, NEW B \in Children, NEW d
  PROVE  Apply(d, At(c, r.key, H, A, B), PutHead(r))
           = At(c, r.key, Sealed(r.ver), A, B)
  <1> DEFINE e == EntryOf(H, A, B)
             s == Stmt("head", r, "a")
  <1>1. /\ "a" \in Tabs /\ "b" \in Tabs /\ e.head = H /\ e.kids = KidsOf(A, B)
        /\ e.kids["a"] = A /\ e.kids["b"] = B
        /\ e \in Entries /\ r.key \in Keys
    BY EntryOfIs DEF Tabs, Parsed
  <1>2. /\ s.do = "head" /\ s.ver = r.ver /\ s.tab = "a"
        /\ s \in Simple /\ s.key = r.key
    BY <1>1, StatementsAreSimple
  <1> HIDE DEF e, s
  <1>3. Apply(d, Put(c, r.key, e), s) = Put(c, r.key, Eff(d, e, s))
    BY <1>1, <1>2, AtStep
  <1>4. Eff(d, e, s) = EntryOf(Sealed(r.ver), A, B)
    BY <1>1, <1>2 DEF Eff, EntryOf, Sealed, Unsealed
  <1>5. QED  BY <1>3, <1>4, Zenon DEF At, e, s, PutHead, DelHead, PutKids, DelKids

LEMMA HeadDeleted ==
  ASSUME NEW c \in Contents, NEW r \in Parsed,
         NEW H \in Heads, NEW A \in Children, NEW B \in Children, NEW d
  PROVE  Apply(d, At(c, r.key, H, A, B), DelHead(r))
           = At(c, r.key, NoHead, A, B)
  <1> DEFINE e == EntryOf(H, A, B)
             s == Stmt("unhead", r, "a")
  <1>1. /\ "a" \in Tabs /\ "b" \in Tabs /\ e.head = H /\ e.kids = KidsOf(A, B)
        /\ e.kids["a"] = A /\ e.kids["b"] = B
        /\ e \in Entries /\ r.key \in Keys
    BY EntryOfIs DEF Tabs, Parsed
  <1>2. /\ s.do = "unhead" /\ s.ver = r.ver /\ s.tab = "a"
        /\ s \in Simple /\ s.key = r.key
    BY <1>1, StatementsAreSimple
  <1> HIDE DEF e, s
  <1>3. Apply(d, Put(c, r.key, e), s) = Put(c, r.key, Eff(d, e, s))
    BY <1>1, <1>2, AtStep
  <1>4. Eff(d, e, s) = EntryOf(NoHead, A, B)
    BY <1>1, <1>2 DEF Eff, EntryOf, Sealed, Unsealed
  <1>5. QED  BY <1>3, <1>4, Zenon DEF At, e, s, PutHead, DelHead, PutKids, DelKids

LEMMA HeadOpened ==
  ASSUME NEW c \in Contents, NEW r \in Parsed,
         NEW H \in Heads, NEW A \in Children, NEW B \in Children, NEW d
  PROVE  Apply(d, At(c, r.key, H, A, B), Stmt("open", r, "a"))
           = At(c, r.key, Unsealed(r.ver), A, B)
  <1> DEFINE e == EntryOf(H, A, B)
             s == Stmt("open", r, "a")
  <1>1. /\ "a" \in Tabs /\ "b" \in Tabs /\ e.head = H /\ e.kids = KidsOf(A, B)
        /\ e.kids["a"] = A /\ e.kids["b"] = B
        /\ e \in Entries /\ r.key \in Keys
    BY EntryOfIs DEF Tabs, Parsed
  <1>2. /\ s.do = "open" /\ s.ver = r.ver /\ s.tab = "a"
        /\ s \in Simple /\ s.key = r.key
    BY <1>1, StatementsAreSimple
  <1> HIDE DEF e, s
  <1>3. Apply(d, Put(c, r.key, e), s) = Put(c, r.key, Eff(d, e, s))
    BY <1>1, <1>2, AtStep
  <1>4. Eff(d, e, s) = EntryOf(Unsealed(r.ver), A, B)
    BY <1>1, <1>2 DEF Eff, EntryOf, Sealed, Unsealed
  <1>5. QED  BY <1>3, <1>4, Zenon DEF At, e, s, PutHead, DelHead, PutKids, DelKids

LEMMA HeadSealed ==
  ASSUME NEW c \in Contents, NEW r \in Parsed,
         NEW H \in Heads, NEW A \in Children, NEW B \in Children, NEW d
  PROVE  Apply(d, At(c, r.key, H, A, B), Stmt("seal", r, "a"))
           = At(c, r.key, Sealed(H.ver), A, B)
  <1> DEFINE e == EntryOf(H, A, B)
             s == Stmt("seal", r, "a")
  <1>1. /\ "a" \in Tabs /\ "b" \in Tabs /\ e.head = H /\ e.kids = KidsOf(A, B)
        /\ e.kids["a"] = A /\ e.kids["b"] = B
        /\ e \in Entries /\ r.key \in Keys
    BY EntryOfIs DEF Tabs, Parsed
  <1>2. /\ s.do = "seal" /\ s.ver = r.ver /\ s.tab = "a"
        /\ s \in Simple /\ s.key = r.key
    BY <1>1, StatementsAreSimple
  <1> HIDE DEF e, s
  <1>3. Apply(d, Put(c, r.key, e), s) = Put(c, r.key, Eff(d, e, s))
    BY <1>1, <1>2, AtStep
  <1>4. Eff(d, e, s) = EntryOf(Sealed(H.ver), A, B)
    BY <1>1, <1>2 DEF Eff, EntryOf, Sealed, Unsealed
  <1>5. QED  BY <1>3, <1>4, Zenon DEF At, e, s, PutHead, DelHead, PutKids, DelKids

LEMMA KidsPutA ==
  ASSUME NEW c \in Contents, NEW r \in Parsed,
         NEW H \in Heads, NEW A \in Children, NEW B \in Children, NEW d
  PROVE  Apply(d, At(c, r.key, H, A, B), PutKids(r, "a"))
           = At(c, r.key, H, Merge(A, Version(r)), B)
  <1> DEFINE e == EntryOf(H, A, B)
             s == Stmt("kids", r, "a")
  <1>1. /\ "a" \in Tabs /\ "b" \in Tabs /\ e.head = H /\ e.kids = KidsOf(A, B)
        /\ e.kids["a"] = A /\ e.kids["b"] = B
        /\ e \in Entries /\ r.key \in Keys
    BY EntryOfIs DEF Tabs, Parsed
  <1>2. /\ s.do = "kids" /\ s.ver = r.ver /\ s.tab = "a" /\ s.new = Version(r)
        /\ s \in Simple /\ s.key = r.key
    BY <1>1, StatementsAreSimple
  <1> HIDE DEF e, s
  <1>3. Apply(d, Put(c, r.key, e), s) = Put(c, r.key, Eff(d, e, s))
    BY <1>1, <1>2, AtStep
  <1>4. Eff(d, e, s) = EntryOf(H, Merge(A, Version(r)), B)
    <2>1. Eff(d, e, s) = [head |-> e.head, kids |-> Put(e.kids, "a", Merge(e.kids["a"], Version(r)))]
      BY <1>2 DEF Eff, Put, Merge
    <2>2. Put(KidsOf(A, B), "a", Merge(A, Version(r))) = KidsOf(Merge(A, Version(r)), B)
      BY PutKidsIs
    <2>3. QED  BY <1>1, <2>1, <2>2 DEF EntryOf
  <1>5. QED  BY <1>3, <1>4, Zenon DEF At, e, s, PutHead, DelHead, PutKids, DelKids

LEMMA KidsPutB ==
  ASSUME NEW c \in Contents, NEW r \in Parsed,
         NEW H \in Heads, NEW A \in Children, NEW B \in Children, NEW d
  PROVE  Apply(d, At(c, r.key, H, A, B), PutKids(r, "b"))
           = At(c, r.key, H, A, Merge(B, Version(r)))
  <1> DEFINE e == EntryOf(H, A, B)
             s == Stmt("kids", r, "b")
  <1>1. /\ "a" \in Tabs /\ "b" \in Tabs /\ e.head = H /\ e.kids = KidsOf(A, B)
        /\ e.kids["a"] = A /\ e.kids["b"] = B
        /\ e \in Entries /\ r.key \in Keys
    BY EntryOfIs DEF Tabs, Parsed
  <1>2. /\ s.do = "kids" /\ s.ver = r.ver /\ s.tab = "b" /\ s.new = Version(r)
        /\ s \in Simple /\ s.key = r.key
    BY <1>1, StatementsAreSimple
  <1> HIDE DEF e, s
  <1>3. Apply(d, Put(c, r.key, e), s) = Put(c, r.key, Eff(d, e, s))
    BY <1>1, <1>2, AtStep
  <1>4. Eff(d, e, s) = EntryOf(H, A, Merge(B, Version(r)))
    <2>1. Eff(d, e, s) = [head |-> e.head, kids |-> Put(e.kids, "b", Merge(e.kids["b"], Version(r)))]
      BY <1>2 DEF Eff, Put, Merge
    <2>2. Put(KidsOf(A, B), "b", Merge(B, Version(r))) = KidsOf(A, Merge(B, Version(r)))
      BY PutKidsIs
    <2>3. QED  BY <1>1, <2>1, <2>2 DEF EntryOf
  <1>5. QED  BY <1>3, <1>4, Zenon DEF At, e, s, PutHead, DelHead, PutKids, DelKids

LEMMA KidsDeletedA ==
  ASSUME NEW c \in Contents, NEW r \in Parsed,
         NEW H \in Heads, NEW A \in Children, NEW B \in Children, NEW d
  PROVE  Apply(d, At(c, r.key, H, A, B), DelKids(r, "a"))
           = At(c, r.key, H, {}, B)
  <1> DEFINE e == EntryOf(H, A, B)
             s == Stmt("unkids", r, "a")
  <1>1. /\ "a" \in Tabs /\ "b" \in Tabs /\ e.head = H /\ e.kids = KidsOf(A, B)
        /\ e.kids["a"] = A /\ e.kids["b"] = B
        /\ e \in Entries /\ r.key \in Keys
    BY EntryOfIs DEF Tabs, Parsed
  <1>2. /\ s.do = "unkids" /\ s.ver = r.ver /\ s.tab = "a"
        /\ s \in Simple /\ s.key = r.key
    BY <1>1, StatementsAreSimple
  <1> HIDE DEF e, s
  <1>3. Apply(d, Put(c, r.key, e), s) = Put(c, r.key, Eff(d, e, s))
    BY <1>1, <1>2, AtStep
  <1>4. Eff(d, e, s) = EntryOf(H, {}, B)
    <2>1. Eff(d, e, s) = [head |-> e.head, kids |-> Put(e.kids, "a", {})]
      BY <1>2 DEF Eff, Put
    <2>2. Put(KidsOf(A, B), "a", {}) = KidsOf({}, B)
      BY PutKidsIs
    <2>3. QED  BY <1>1, <2>1, <2>2 DEF EntryOf
  <1>5. QED  BY <1>3, <1>4, Zenon DEF At, e, s, PutHead, DelHead, PutKids, DelKids

LEMMA KidsDeletedB ==
  ASSUME NEW c \in Contents, NEW r \in Parsed,
         NEW H \in Heads, NEW A \in Children, NEW B \in Children, NEW d
  PROVE  Apply(d, At(c, r.key, H, A, B), DelKids(r, "b"))
           = At(c, r.key, H, A, {})
  <1> DEFINE e == EntryOf(H, A, B)
             s == Stmt("unkids", r, "b")
  <1>1. /\ "a" \in Tabs /\ "b" \in Tabs /\ e.head = H /\ e.kids = KidsOf(A, B)
        /\ e.kids["a"] = A /\ e.kids["b"] = B
        /\ e \in Entries /\ r.key \in Keys
    BY EntryOfIs DEF Tabs, Parsed
  <1>2. /\ s.do = "unkids" /\ s.ver = r.ver /\ s.tab = "b"
        /\ s \in Simple /\ s.key = r.key
    BY <1>1, StatementsAreSimple
  <1> HIDE DEF e, s
  <1>3. Apply(d, Put(c, r.key, e), s) = Put(c, r.key, Eff(d, e, s))
    BY <1>1, <1>2, AtStep
  <1>4. Eff(d, e, s) = EntryOf(H, A, {})
    <2>1. Eff(d, e, s) = [head |-> e.head, kids |-> Put(e.kids, "b", {})]
      BY <1>2 DEF Eff, Put
    <2>2. Put(KidsOf(A, B), "b", {}) = KidsOf(A, {})
      BY PutKidsIs
    <2>3. QED  BY <1>1, <2>1, <2>2 DEF EntryOf
  <1>5. QED  BY <1>3, <1>4, Zenon DEF At, e, s, PutHead, DelHead, PutKids, DelKids


LEMMA MergeNothing ==
  ASSUME NEW V
  PROVE  Merge({}, V) = V
  BY DEF Merge

LEMMA Joined ==
  ASSUME NEW s, NEW t, NEW u, NEW S, s \in Seq(S), t \in Seq(S), u \in Seq(S),
         Len(u) = Len(s) + Len(t),
         \A i \in 1..Len(s) : u[i] = s[i], \A i \in 1..Len(t) : u[Len(s) + i] = t[i]
  PROVE  s \o t = u
  <1>1. /\ s \o t \in Seq(S) /\ Len(s \o t) = Len(u)
        /\ \A i \in 1..Len(s \o t) : (s \o t)[i] = IF i <= Len(s) THEN s[i] ELSE t[i - Len(s)]
    BY ConcatProperties
  <1>2. ASSUME NEW i \in 1..Len(u) PROVE (s \o t)[i] = u[i]
    <2>1. CASE i <= Len(s)
      BY <1>1, <2>1
    <2>2. CASE ~(i <= Len(s))
      <3>1. i - Len(s) \in 1..Len(t) /\ Len(s) + (i - Len(s)) = i
        BY <2>2
      <3>2. QED  BY <1>1, <2>2, <3>1
    <2>3. QED  BY <2>1, <2>2
  <1>3. QED  BY <1>1, <1>2, SeqEqual

LEMMA Joined1And1 ==
  ASSUME NEW a, NEW b
  PROVE  <<a>> \o <<b>> = <<a, b>>
  <1> DEFINE s == <<a>>
             t == <<b>>
             u == <<a, b>>
             S == {a, b}
  <1>1. s \in Seq(S) /\ t \in Seq(S) /\ u \in Seq(S)
    OBVIOUS
  <1>2. Len(s) = 1 /\ Len(t) = 1 /\ Len(u) = 2 /\ s[1] = a /\ t[1] = b
    OBVIOUS
  <1>3. u[1] = a /\ u[2] = b
    OBVIOUS
  <1> HIDE DEF s, t, u, S
  <1>4. /\ Len(u) = Len(s) + Len(t) /\ \A i \in 1..Len(s) : u[i] = s[i]
        /\ \A i \in 1..Len(t) : u[Len(s) + i] = t[i]
    BY <1>2, <1>3
  <1>5. s \o t = u
    BY <1>1, <1>4, Joined, Zenon
  <1>6. QED  BY <1>5 DEF s, t, u

LEMMA Joined1And2 ==
  ASSUME NEW a, NEW b, NEW c
  PROVE  <<a>> \o <<b, c>> = <<a, b, c>>
  <1> DEFINE s == <<a>>
             t == <<b, c>>
             u == <<a, b, c>>
             S == {a, b, c}
  <1>1. s \in Seq(S) /\ t \in Seq(S) /\ u \in Seq(S)
    OBVIOUS
  <1>2. Len(s) = 1 /\ Len(t) = 2 /\ Len(u) = 3 /\ s[1] = a /\ t[1] = b /\ t[2] = c
    OBVIOUS
  <1>3. u[1] = a /\ u[2] = b /\ u[3] = c
    OBVIOUS
  <1> HIDE DEF s, t, u, S
  <1>4. /\ Len(u) = Len(s) + Len(t) /\ \A i \in 1..Len(s) : u[i] = s[i]
        /\ \A i \in 1..Len(t) : u[Len(s) + i] = t[i]
    BY <1>2, <1>3
  <1>5. s \o t = u
    BY <1>1, <1>4, Joined, Zenon
  <1>6. QED  BY <1>5 DEF s, t, u

LEMMA Joined2And1 ==
  ASSUME NEW a, NEW b, NEW c
  PROVE  <<a, b>> \o <<c>> = <<a, b, c>>
  <1> DEFINE s == <<a, b>>
             t == <<c>>
             u == <<a, b, c>>
             S == {a, b, c}
  <1>1. s \in Seq(S) /\ t \in Seq(S) /\ u \in Seq(S)
    OBVIOUS
  <1>2. Len(s) = 2 /\ Len(t) = 1 /\ Len(u) = 3 /\ s[1] = a /\ s[2] = b /\ t[1] = c
    OBVIOUS
  <1>3. u[1] = a /\ u[2] = b /\ u[3] = c
    OBVIOUS
  <1> HIDE DEF s, t, u, S
  <1>4. /\ Len(u) = Len(s) + Len(t) /\ \A i \in 1..Len(s) : u[i] = s[i]
        /\ \A i \in 1..Len(t) : u[Len(s) + i] = t[i]
    BY <1>2, <1>3
  <1>5. s \o t = u
    BY <1>1, <1>4, Joined, Zenon
  <1>6. QED  BY <1>5 DEF s, t, u

LEMMA Joined2And3 ==
  ASSUME NEW a, NEW b, NEW c, NEW d, NEW e
  PROVE  <<a, b>> \o <<c, d, e>> = <<a, b, c, d, e>>
  <1> DEFINE s == <<a, b>>
             t == <<c, d, e>>
             u == <<a, b, c, d, e>>
             S == {a, b, c, d, e}
  <1>1. s \in Seq(S) /\ t \in Seq(S) /\ u \in Seq(S)
    OBVIOUS
  <1>2. Len(s) = 2 /\ Len(t) = 3 /\ Len(u) = 5 /\ s[1] = a /\ s[2] = b /\ t[1] = c /\ t[2] = d /\ t[3] = e
    OBVIOUS
  <1>3. u[1] = a /\ u[2] = b /\ u[3] = c /\ u[4] = d /\ u[5] = e
    OBVIOUS
  <1> HIDE DEF s, t, u, S
  <1>4. /\ Len(u) = Len(s) + Len(t) /\ \A i \in 1..Len(s) : u[i] = s[i]
        /\ \A i \in 1..Len(t) : u[Len(s) + i] = t[i]
    BY <1>2, <1>3
  <1>5. s \o t = u
    BY <1>1, <1>4, Joined, Zenon
  <1>6. QED  BY <1>5 DEF s, t, u

LEMMA Joined1And0 ==
  ASSUME NEW a
  PROVE  <<a>> \o <<>> = <<a>>
  OBVIOUS

\* What the scripts make of the entry of their key.
\* The erase of TK, WF and KS.
LEMMA EraseRowsThenHead ==
  ASSUME NEW c \in Contents, NEW r \in Parsed,
         NEW H \in Heads, NEW A \in Children, NEW B \in Children, NEW d
  PROVE  LeadsTo(d, At(c, r.key, H, A, B),
                 <<DelKids(r, "a"), DelHead(r)>>,
                 {At(c, r.key, NoHead, {}, B)})
  <1>9. /\ Sealed(r.ver) \in Heads /\ Unsealed(r.ver) \in Heads
        /\ NoHead \in Heads /\ {} \in Children /\ Version(r) \in Children
        /\ Merge(A, Version(r)) \in Children /\ Unsealed(r.ver).ver = r.ver
    BY VersionIs, MergeIs DEF Heads, NoHead, Children, Parsed, Sealed, Unsealed
  <1>1. Apply(d, At(c, r.key, H, A, B), DelKids(r, "a"))
          = At(c, r.key, H, {}, B)
    BY <1>9, KidsDeletedA
  <1>2. Apply(d, At(c, r.key, H, {}, B), DelHead(r))
          = At(c, r.key, NoHead, {}, B)
    BY <1>9, HeadDeleted
  <1>3. QED  BY <1>1, <1>2, Through2

\* A TK record.
LEMMA ReplaceRowsThenHead ==
  ASSUME NEW c \in Contents, NEW r \in Parsed,
         NEW H \in Heads, NEW A \in Children, NEW B \in Children, NEW d
  PROVE  LeadsTo(d, At(c, r.key, H, A, B),
                 <<DelKids(r, "a"), PutHead(r), PutKids(r, "a")>>,
                 {At(c, r.key, Sealed(r.ver), Version(r), B)})
  <1>9. /\ Sealed(r.ver) \in Heads /\ Unsealed(r.ver) \in Heads
        /\ NoHead \in Heads /\ {} \in Children /\ Version(r) \in Children
        /\ Merge(A, Version(r)) \in Children /\ Unsealed(r.ver).ver = r.ver
    BY VersionIs, MergeIs DEF Heads, NoHead, Children, Parsed, Sealed, Unsealed
  <1>1. Apply(d, At(c, r.key, H, A, B), DelKids(r, "a"))
          = At(c, r.key, H, {}, B)
    BY <1>9, KidsDeletedA
  <1>2. Apply(d, At(c, r.key, H, {}, B), PutHead(r))
          = At(c, r.key, Sealed(r.ver), {}, B)
    BY <1>9, HeadPut
  <1>3. Apply(d, At(c, r.key, Sealed(r.ver), {}, B), PutKids(r, "a"))
          = At(c, r.key, Sealed(r.ver), Version(r), B)
    BY <1>9, KidsPutA, MergeNothing
  <1>4. QED  BY <1>1, <1>2, <1>3, Through3

\* A WF record.
LEMMA ReplaceHeadThenRows ==
  ASSUME NEW c \in Contents, NEW r \in Parsed,
         NEW H \in Heads, NEW A \in Children, NEW B \in Children, NEW d
  PROVE  LeadsTo(d, At(c, r.key, H, A, B),
                 <<PutHead(r), DelKids(r, "a"), PutKids(r, "a")>>,
                 {At(c, r.key, Sealed(r.ver), Version(r), B)})
  <1>9. /\ Sealed(r.ver) \in Heads /\ Unsealed(r.ver) \in Heads
        /\ NoHead \in Heads /\ {} \in Children /\ Version(r) \in Children
        /\ Merge(A, Version(r)) \in Children /\ Unsealed(r.ver).ver = r.ver
    BY VersionIs, MergeIs DEF Heads, NoHead, Children, Parsed, Sealed, Unsealed
  <1>1. Apply(d, At(c, r.key, H, A, B), PutHead(r))
          = At(c, r.key, Sealed(r.ver), A, B)
    BY <1>9, HeadPut
  <1>2. Apply(d, At(c, r.key, Sealed(r.ver), A, B), DelKids(r, "a"))
          = At(c, r.key, Sealed(r.ver), {}, B)
    BY <1>9, KidsDeletedA
  <1>3. Apply(d, At(c, r.key, Sealed(r.ver), {}, B), PutKids(r, "a"))
          = At(c, r.key, Sealed(r.ver), Version(r), B)
    BY <1>9, KidsPutA, MergeNothing
  <1>4. QED  BY <1>1, <1>2, <1>3, Through3

\* A CH or KS record.
LEMMA MergeHeadAndRows ==
  ASSUME NEW c \in Contents, NEW r \in Parsed,
         NEW H \in Heads, NEW A \in Children, NEW B \in Children, NEW d
  PROVE  LeadsTo(d, At(c, r.key, H, A, B),
                 <<PutHead(r), PutKids(r, "a")>>,
                 {At(c, r.key, Sealed(r.ver), Merge(A, Version(r)), B)})
  <1>9. /\ Sealed(r.ver) \in Heads /\ Unsealed(r.ver) \in Heads
        /\ NoHead \in Heads /\ {} \in Children /\ Version(r) \in Children
        /\ Merge(A, Version(r)) \in Children /\ Unsealed(r.ver).ver = r.ver
    BY VersionIs, MergeIs DEF Heads, NoHead, Children, Parsed, Sealed, Unsealed
  <1>1. Apply(d, At(c, r.key, H, A, B), PutHead(r))
          = At(c, r.key, Sealed(r.ver), A, B)
    BY <1>9, HeadPut
  <1>2. Apply(d, At(c, r.key, Sealed(r.ver), A, B), PutKids(r, "a"))
          = At(c, r.key, Sealed(r.ver), Merge(A, Version(r)), B)
    BY <1>9, KidsPutA, MergeNothing
  <1>3. QED  BY <1>1, <1>2, Through2

\* The erase of CK, odds and votes.
LEMMA EraseBothThenHead ==
  ASSUME NEW c \in Contents, NEW r \in Parsed,
         NEW H \in Heads, NEW A \in Children, NEW B \in Children, NEW d
  PROVE  LeadsTo(d, At(c, r.key, H, A, B),
                 <<DelKids(r, "a"), DelKids(r, "b"), DelHead(r)>>,
                 {At(c, r.key, NoHead, {}, {})})
  <1>9. /\ Sealed(r.ver) \in Heads /\ Unsealed(r.ver) \in Heads
        /\ NoHead \in Heads /\ {} \in Children /\ Version(r) \in Children
        /\ Merge(A, Version(r)) \in Children /\ Unsealed(r.ver).ver = r.ver
    BY VersionIs, MergeIs DEF Heads, NoHead, Children, Parsed, Sealed, Unsealed
  <1>1. Apply(d, At(c, r.key, H, A, B), DelKids(r, "a"))
          = At(c, r.key, H, {}, B)
    BY <1>9, KidsDeletedA
  <1>2. Apply(d, At(c, r.key, H, {}, B), DelKids(r, "b"))
          = At(c, r.key, H, {}, {})
    BY <1>9, KidsDeletedB
  <1>3. Apply(d, At(c, r.key, H, {}, {}), DelHead(r))
          = At(c, r.key, NoHead, {}, {})
    BY <1>9, HeadDeleted
  <1>4. QED  BY <1>1, <1>2, <1>3, Through3

\* A CK record.
LEMMA ReplaceSealed ==
  ASSUME NEW c \in Contents, NEW r \in Parsed,
         NEW H \in Heads, NEW A \in Children, NEW B \in Children, NEW d
  PROVE  LeadsTo(d, At(c, r.key, H, A, B),
                 <<Stmt("open", r, "a"), DelKids(r, "a"), DelKids(r, "b"), PutKids(r, "a"), PutKids(r, "b"), Stmt("seal", r, "a")>>,
                 {At(c, r.key, Sealed(r.ver), Version(r), Version(r))})
  <1>9. /\ Sealed(r.ver) \in Heads /\ Unsealed(r.ver) \in Heads
        /\ NoHead \in Heads /\ {} \in Children /\ Version(r) \in Children
        /\ Merge(A, Version(r)) \in Children /\ Unsealed(r.ver).ver = r.ver
    BY VersionIs, MergeIs DEF Heads, NoHead, Children, Parsed, Sealed, Unsealed
  <1>1. Apply(d, At(c, r.key, H, A, B), Stmt("open", r, "a"))
          = At(c, r.key, Unsealed(r.ver), A, B)
    BY <1>9, HeadOpened
  <1>2. Apply(d, At(c, r.key, Unsealed(r.ver), A, B), DelKids(r, "a"))
          = At(c, r.key, Unsealed(r.ver), {}, B)
    BY <1>9, KidsDeletedA
  <1>3. Apply(d, At(c, r.key, Unsealed(r.ver), {}, B), DelKids(r, "b"))
          = At(c, r.key, Unsealed(r.ver), {}, {})
    BY <1>9, KidsDeletedB
  <1>4. Apply(d, At(c, r.key, Unsealed(r.ver), {}, {}), PutKids(r, "a"))
          = At(c, r.key, Unsealed(r.ver), Version(r), {})
    BY <1>9, KidsPutA, MergeNothing
  <1>5. Apply(d, At(c, r.key, Unsealed(r.ver), Version(r), {}), PutKids(r, "b"))
          = At(c, r.key, Unsealed(r.ver), Version(r), Version(r))
    BY <1>9, KidsPutB, MergeNothing
  <1>6. Apply(d, At(c, r.key, Unsealed(r.ver), Version(r), Version(r)), Stmt("seal", r, "a"))
          = At(c, r.key, Sealed(r.ver), Version(r), Version(r))
    BY <1>9, HeadSealed
  <1>7. QED  BY <1>1, <1>2, <1>3, <1>4, <1>5, <1>6, Through6

\* Odds and votes.
LEMMA ReplaceBoth ==
  ASSUME NEW c \in Contents, NEW r \in Parsed,
         NEW H \in Heads, NEW A \in Children, NEW B \in Children, NEW d
  PROVE  LeadsTo(d, At(c, r.key, H, A, B),
                 <<DelKids(r, "a"), DelKids(r, "b"), PutHead(r), PutKids(r, "a"), PutKids(r, "b")>>,
                 {At(c, r.key, Sealed(r.ver), Version(r), Version(r))})
  <1>9. /\ Sealed(r.ver) \in Heads /\ Unsealed(r.ver) \in Heads
        /\ NoHead \in Heads /\ {} \in Children /\ Version(r) \in Children
        /\ Merge(A, Version(r)) \in Children /\ Unsealed(r.ver).ver = r.ver
    BY VersionIs, MergeIs DEF Heads, NoHead, Children, Parsed, Sealed, Unsealed
  <1>1. Apply(d, At(c, r.key, H, A, B), DelKids(r, "a"))
          = At(c, r.key, H, {}, B)
    BY <1>9, KidsDeletedA
  <1>2. Apply(d, At(c, r.key, H, {}, B), DelKids(r, "b"))
          = At(c, r.key, H, {}, {})
    BY <1>9, KidsDeletedB
  <1>3. Apply(d, At(c, r.key, H, {}, {}), PutHead(r))
          = At(c, r.key, Sealed(r.ver), {}, {})
    BY <1>9, HeadPut
  <1>4. Apply(d, At(c, r.key, Sealed(r.ver), {}, {}), PutKids(r, "a"))
          = At(c, r.key, Sealed(r.ver), Version(r), {})
    BY <1>9, KidsPutA, MergeNothing
  <1>5. Apply(d, At(c, r.key, Sealed(r.ver), Version(r), {}), PutKids(r, "b"))
          = At(c, r.key, Sealed(r.ver), Version(r), Version(r))
    BY <1>9, KidsPutB, MergeNothing
  <1>6. QED  BY <1>1, <1>2, <1>3, <1>4, <1>5, Through5

\* The erase of a snapshot.
LEMMA EraseRows ==
  ASSUME NEW c \in Contents, NEW r \in Parsed,
         NEW H \in Heads, NEW A \in Children, NEW B \in Children, NEW d
  PROVE  LeadsTo(d, At(c, r.key, H, A, B),
                 <<DelKids(r, "a")>>,
                 {At(c, r.key, H, {}, B)})
  <1>9. /\ Sealed(r.ver) \in Heads /\ Unsealed(r.ver) \in Heads
        /\ NoHead \in Heads /\ {} \in Children /\ Version(r) \in Children
        /\ Merge(A, Version(r)) \in Children /\ Unsealed(r.ver).ver = r.ver
    BY VersionIs, MergeIs DEF Heads, NoHead, Children, Parsed, Sealed, Unsealed
  <1>1. Apply(d, At(c, r.key, H, A, B), DelKids(r, "a"))
          = At(c, r.key, H, {}, B)
    BY <1>9, KidsDeletedA
  <1>2. QED  BY <1>1, Through1

\* A snapshot.
LEMMA ReplaceRows ==
  ASSUME NEW c \in Contents, NEW r \in Parsed,
         NEW H \in Heads, NEW A \in Children, NEW B \in Children, NEW d
  PROVE  LeadsTo(d, At(c, r.key, H, A, B),
                 <<DelKids(r, "a"), PutKids(r, "a")>>,
                 {At(c, r.key, H, Version(r), B)})
  <1>9. /\ Sealed(r.ver) \in Heads /\ Unsealed(r.ver) \in Heads
        /\ NoHead \in Heads /\ {} \in Children /\ Version(r) \in Children
        /\ Merge(A, Version(r)) \in Children /\ Unsealed(r.ver).ver = r.ver
    BY VersionIs, MergeIs DEF Heads, NoHead, Children, Parsed, Sealed, Unsealed
  <1>1. Apply(d, At(c, r.key, H, A, B), DelKids(r, "a"))
          = At(c, r.key, H, {}, B)
    BY <1>9, KidsDeletedA
  <1>2. Apply(d, At(c, r.key, H, {}, B), PutKids(r, "a"))
          = At(c, r.key, H, Version(r), B)
    BY <1>9, KidsPutA, MergeNothing
  <1>3. QED  BY <1>1, <1>2, Through2

\* The erase of a row.
LEMMA EraseHead ==
  ASSUME NEW c \in Contents, NEW r \in Parsed,
         NEW H \in Heads, NEW A \in Children, NEW B \in Children, NEW d
  PROVE  LeadsTo(d, At(c, r.key, H, A, B),
                 <<DelHead(r)>>,
                 {At(c, r.key, NoHead, A, B)})
  <1>9. /\ Sealed(r.ver) \in Heads /\ Unsealed(r.ver) \in Heads
        /\ NoHead \in Heads /\ {} \in Children /\ Version(r) \in Children
        /\ Merge(A, Version(r)) \in Children /\ Unsealed(r.ver).ver = r.ver
    BY VersionIs, MergeIs DEF Heads, NoHead, Children, Parsed, Sealed, Unsealed
  <1>1. Apply(d, At(c, r.key, H, A, B), DelHead(r))
          = At(c, r.key, NoHead, A, B)
    BY <1>9, HeadDeleted
  <1>2. QED  BY <1>1, Through1

\* A row.
LEMMA ReplaceHead ==
  ASSUME NEW c \in Contents, NEW r \in Parsed,
         NEW H \in Heads, NEW A \in Children, NEW B \in Children, NEW d
  PROVE  LeadsTo(d, At(c, r.key, H, A, B),
                 <<PutHead(r)>>,
                 {At(c, r.key, Sealed(r.ver), A, B)})
  <1>9. /\ Sealed(r.ver) \in Heads /\ Unsealed(r.ver) \in Heads
        /\ NoHead \in Heads /\ {} \in Children /\ Version(r) \in Children
        /\ Merge(A, Version(r)) \in Children /\ Unsealed(r.ver).ver = r.ver
    BY VersionIs, MergeIs DEF Heads, NoHead, Children, Parsed, Sealed, Unsealed
  <1>1. Apply(d, At(c, r.key, H, A, B), PutHead(r))
          = At(c, r.key, Sealed(r.ver), A, B)
    BY <1>9, HeadPut
  <1>2. QED  BY <1>1, Through1

\* The statements of each writer.
LEMMA ScriptShapes ==
  ASSUME NEW r
  PROVE  /\ kind = "tk" /\ Erases(r) =>
              Script(kind, r) = <<DelKids(r, "a"), DelHead(r)>>
         /\ kind = "tk" /\ ~Erases(r) =>
              Script(kind, r) = <<DelKids(r, "a"), PutHead(r), PutKids(r, "a")>>
         /\ kind = "wf" /\ Erases(r) =>
              Script(kind, r) = <<DelKids(r, "a"), DelHead(r)>>
         /\ kind = "wf" /\ ~Erases(r) =>
              Script(kind, r) = <<PutHead(r), DelKids(r, "a"), PutKids(r, "a")>>
         /\ kind = "ks" /\ Erases(r) =>
              Script(kind, r) = <<DelKids(r, "a"), DelHead(r)>>
         /\ kind = "ks" /\ ~Erases(r) =>
              Script(kind, r) = <<PutHead(r), PutKids(r, "a")>>
         /\ kind = "ch" =>
              Script(kind, r) = <<PutHead(r), PutKids(r, "a")>>
         /\ kind = "ck" /\ Erases(r) =>
              Script(kind, r) = <<DelKids(r, "a"), DelKids(r, "b"), DelHead(r)>>
         /\ kind = "ck" /\ ~Erases(r) =>
              Script(kind, r) = <<Stmt("open", r, "a"), DelKids(r, "a"), DelKids(r, "b"), PutKids(r, "a"), PutKids(r, "b"), Stmt("seal", r, "a")>>
         /\ kind \in Split /\ Erases(r) =>
              Script(kind, r) = <<DelKids(r, "a"), DelKids(r, "b"), DelHead(r)>>
         /\ kind \in Split /\ ~Erases(r) =>
              Script(kind, r) = <<DelKids(r, "a"), DelKids(r, "b"), PutHead(r), PutKids(r, "a"), PutKids(r, "b")>>
         /\ kind = "snapshot" /\ Erases(r) =>
              Script(kind, r) = <<DelKids(r, "a")>>
         /\ kind = "snapshot" /\ ~Erases(r) =>
              Script(kind, r) = <<DelKids(r, "a"), PutKids(r, "a")>>
         /\ kind \in {"rows", "wfnative", "ordered"} /\ Erases(r) =>
              Script(kind, r) = <<DelHead(r)>>
         /\ kind \in {"rows", "wfnative", "ordered"} /\ ~Erases(r) =>
              Script(kind, r) = <<PutHead(r)>>
  <1>1. ASSUME kind = "tk", Erases(r) PROVE Script(kind, r) = <<DelKids(r, "a"), DelHead(r)>>
    BY <1>1, Joined1And1 DEF Script, TkScript, Split
  <1>2. ASSUME kind = "tk", ~Erases(r) PROVE Script(kind, r) = <<DelKids(r, "a"), PutHead(r), PutKids(r, "a")>>
    BY <1>2, Joined1And2 DEF Script, TkScript, Split
  <1>3. ASSUME kind = "wf", Erases(r) PROVE Script(kind, r) = <<DelKids(r, "a"), DelHead(r)>>
    BY <1>3 DEF Script, WfScript, Split
  <1>4. ASSUME kind = "wf", ~Erases(r) PROVE Script(kind, r) = <<PutHead(r), DelKids(r, "a"), PutKids(r, "a")>>
    BY <1>4 DEF Script, WfScript, Split
  <1>5. ASSUME kind = "ks", Erases(r) PROVE Script(kind, r) = <<DelKids(r, "a"), DelHead(r)>>
    BY <1>5 DEF Script, KsScript, Split
  <1>6. ASSUME kind = "ks", ~Erases(r) PROVE Script(kind, r) = <<PutHead(r), PutKids(r, "a")>>
    BY <1>6 DEF Script, KsScript, Split
  <1>7. ASSUME kind = "ch" PROVE Script(kind, r) = <<PutHead(r), PutKids(r, "a")>>
    BY <1>7 DEF Script, ChScript, Split
  <1>8. ASSUME kind = "ck", Erases(r) PROVE Script(kind, r) = <<DelKids(r, "a"), DelKids(r, "b"), DelHead(r)>>
    BY <1>8 DEF Script, CkScript, Split
  <1>9. ASSUME kind = "ck", ~Erases(r) PROVE Script(kind, r) = <<Stmt("open", r, "a"), DelKids(r, "a"), DelKids(r, "b"), PutKids(r, "a"), PutKids(r, "b"), Stmt("seal", r, "a")>>
    BY <1>9 DEF Script, CkScript, Split
  <1>10. ASSUME kind \in Split, Erases(r) PROVE Script(kind, r) = <<DelKids(r, "a"), DelKids(r, "b"), DelHead(r)>>
    BY <1>10, Joined2And1 DEF Script, SplitScript, Split
  <1>11. ASSUME kind \in Split, ~Erases(r) PROVE Script(kind, r) = <<DelKids(r, "a"), DelKids(r, "b"), PutHead(r), PutKids(r, "a"), PutKids(r, "b")>>
    BY <1>11, Joined2And3 DEF Script, SplitScript, Split
  <1>12. ASSUME kind = "snapshot", Erases(r) PROVE Script(kind, r) = <<DelKids(r, "a")>>
    BY <1>12, Joined1And0 DEF Script, SnapshotScript, Split
  <1>13. ASSUME kind = "snapshot", ~Erases(r) PROVE Script(kind, r) = <<DelKids(r, "a"), PutKids(r, "a")>>
    BY <1>13, Joined1And1 DEF Script, SnapshotScript, Split
  <1>14. ASSUME kind \in {"rows", "wfnative", "ordered"}, Erases(r) PROVE Script(kind, r) = <<DelHead(r)>>
    BY <1>14 DEF Script, RowScript, Split
  <1>15. ASSUME kind \in {"rows", "wfnative", "ordered"}, ~Erases(r) PROVE Script(kind, r) = <<PutHead(r)>>
    BY <1>15 DEF Script, RowScript, Split
  <1>16. QED  BY <1>1, <1>2, <1>3, <1>4, <1>5, <1>6, <1>7, <1>8, <1>9, <1>10, <1>11, <1>12, <1>13, <1>14, <1>15

LEMMA TuplesAreScripts ==
  /\ \A a \in Stmts : <<a>> \in Scripts
  /\ \A a, b \in Stmts : <<a, b>> \in Scripts
  /\ \A a, b, c \in Stmts : <<a, b, c>> \in Scripts
  /\ \A a, b, c, d, e \in Stmts : <<a, b, c, d, e>> \in Scripts
  /\ \A a, b, c, d, e, f \in Stmts : <<a, b, c, d, e, f>> \in Scripts
  <1>1. \A a \in Stmts : <<a>> \in Seq(Stmts) /\ <<a>> # <<>>
    OBVIOUS
  <1>2. \A a, b \in Stmts : <<a, b>> \in Seq(Stmts) /\ <<a, b>> # <<>>
    OBVIOUS
  <1>3. \A a, b, c \in Stmts : <<a, b, c>> \in Seq(Stmts) /\ <<a, b, c>> # <<>>
    OBVIOUS
  <1>4. \A a, b, c, d, e \in Stmts : <<a, b, c, d, e>> \in Seq(Stmts) /\ <<a, b, c, d, e>> # <<>>
    OBVIOUS
  <1>5. \A a, b, c, d, e, f \in Stmts :
          <<a, b, c, d, e, f>> \in Seq(Stmts) /\ <<a, b, c, d, e, f>> # <<>>
    OBVIOUS
  <1>6. QED  BY <1>1, <1>2, <1>3, <1>4, <1>5, Zenon DEF Scripts

LEMMA KindsAre ==
  ASSUME kind \in Kinds
  PROVE  \/ kind = "tk" \/ kind = "wf" \/ kind = "ks" \/ kind = "ch" \/ kind = "ck"
         \/ kind \in Split \/ kind = "snapshot" \/ kind \in {"rows", "wfnative", "ordered"}
  BY KindsAreKnown DEF AllKinds, Split

LEMMA ScriptIsKnown ==
  ASSUME kind \in Kinds, NEW r \in Parsed
  PROVE  Script(kind, r) \in Scripts
  <1>1. /\ PutHead(r) \in Stmts /\ DelHead(r) \in Stmts
        /\ PutKids(r, "a") \in Stmts /\ PutKids(r, "b") \in Stmts
        /\ DelKids(r, "a") \in Stmts /\ DelKids(r, "b") \in Stmts
        /\ Stmt("open", r, "a") \in Stmts /\ Stmt("seal", r, "a") \in Stmts
    BY StatementsAreSimple DEF Stmts, PutHead, DelHead, PutKids, DelKids, Tabs
  <1>2. /\ <<DelKids(r, "a"), DelHead(r)>> \in Scripts
        /\ <<DelKids(r, "a"), PutHead(r), PutKids(r, "a")>> \in Scripts
        /\ <<PutHead(r), DelKids(r, "a"), PutKids(r, "a")>> \in Scripts
        /\ <<PutHead(r), PutKids(r, "a")>> \in Scripts
        /\ <<DelKids(r, "a"), DelKids(r, "b"), DelHead(r)>> \in Scripts
        /\ <<DelKids(r, "a")>> \in Scripts
        /\ <<DelKids(r, "a"), PutKids(r, "a")>> \in Scripts
        /\ <<DelHead(r)>> \in Scripts
        /\ <<PutHead(r)>> \in Scripts
    BY <1>1, TuplesAreScripts, Zenon
  <1>3. <<Stmt("open", r, "a"), DelKids(r, "a"), DelKids(r, "b"), PutKids(r, "a"), PutKids(r, "b"), Stmt("seal", r, "a")>> \in Scripts
    BY <1>1, TuplesAreScripts, Zenon
  <1>4. <<DelKids(r, "a"), DelKids(r, "b"), PutHead(r), PutKids(r, "a"), PutKids(r, "b")>> \in Scripts
    BY <1>1, TuplesAreScripts, Zenon
  <1>5. QED  BY <1>2, <1>3, <1>4, KindsAre, ScriptShapes, Zenon

\* Row numbers alone decide which rows a new version replaces.
LEMMA MergeReplaces ==
  ASSUME NEW r \in Parsed, NEW q \in Parsed, r.rows = q.rows
  PROVE  Merge(Version(q), Version(r)) = Version(r)
  <1>1. ASSUME NEW x \in Version(q) PROVE \E y \in Version(r) : x[1] = y[1]
    <2>1. PICK i \in DOMAIN q.rows : x = <<q.rows[i], q.ver>>
      BY <1>1 DEF Version
    <2> DEFINE y == <<r.rows[i], r.ver>>
    <2>2. y \in Version(r) /\ x[1] = y[1]
      BY <2>1 DEF Version
    <2>3. QED  BY <2>2
  <1>2. QED  BY <1>1 DEF Merge

\* A script replaces the entry of its key by what its record tells.
LEMMA ScriptWrites ==
  ASSUME kind \in Kinds, NEW i \in DOMAIN Records, Prepared(kind, Rec(i)),
         NEW c \in WholeRows, NEW d
  PROVE  LeadsTo(d, c, Script(kind, Rec(i)), {Put(c, Rec(i).key, Told(Rec(i)))})
  <1> DEFINE r == Rec(i)
             k == r.key
             V == Version(r)
             new == Put(c, k, Told(r))
  <1>1. r \in Parsed /\ k \in Keys /\ c \in Contents /\ WholeEntry(c[k], k)
    BY RecordsAreParsed DEF WholeRows
  <1>2. PICK H \in Heads, A \in Children, B \in Children :
          /\ c[k] = EntryOf(H, A, B)
          /\ "a" \notin ChildTables => A = {}
          /\ "b" \notin ChildTables => B = {}
          /\ kind = "snapshot" => H = NoHead
          /\ kind \in {"ks", "ch"} =>
               A = {} \/ \E q \in Parsed : q.rows = FullRows /\ A = Version(q)
    BY <1>1, WholeEntryIs
  <1>3. c = At(c, k, H, A, B)
    <2>1. Put(c, k, c[k]) = c
      BY <1>1 DEF Contents, Put
    <2>2. QED  BY <1>2, <2>1 DEF At
  <1>4. Erases(r) /\ kind # "ch" => new = At(c, k, NoHead, {}, {})
    BY <1>1, ToldIs DEF Told, At
  <1>5. ~Erases(r) \/ kind = "ch" => new = At(c, k, HeadOf(r), RowsIn("a", r), RowsIn("b", r))
    BY <1>1, ToldIs DEF Told, At
  <1>6. /\ kind # "snapshot" => HeadOf(r) = Sealed(r.ver)
        /\ kind = "snapshot" => HeadOf(r) = NoHead
        /\ \A t \in Tabs : RowsIn(t, r) = IF t \in ChildTables THEN V ELSE {}
        /\ "a" \in Tabs /\ "b" \in Tabs
    BY DEF HeadOf, RowsIn, Sealed, Tabs
  <1> HIDE DEF r, k, V, new
  <1>7. CASE kind \in {"tk", "wf", "ks", "ch"}
    <2>1. "a" \in ChildTables /\ "b" \notin ChildTables /\ B = {} /\ kind # "snapshot"
      BY <1>2, <1>7 DEF ChildTables, Split
    <2>2. CASE Erases(r) /\ kind # "ch"
      <3>1. Script(kind, r) = <<DelKids(r, "a"), DelHead(r)>>
        BY <1>7, <2>2, ScriptShapes, Zenon
      <3>2. LeadsTo(d, At(c, r.key, H, A, B), Script(kind, r), {At(c, r.key, NoHead, {}, B)})
        BY <1>1, <3>1, EraseRowsThenHead
      <3>3. QED  BY <1>3, <1>4, <2>1, <2>2, <3>2 DEF new, k, r
    <2>3. CASE ~Erases(r) \/ kind = "ch"
      <3>1. new = At(c, k, Sealed(r.ver), V, {})
        BY <1>5, <1>6, <2>1, <2>3
      <3>2. CASE kind = "tk"
        <4>1. Script(kind, r) = <<DelKids(r, "a"), PutHead(r), PutKids(r, "a")>>
          BY <2>3, <3>2, ScriptShapes
        <4>2. LeadsTo(d, At(c, r.key, H, A, B), Script(kind, r), {At(c, r.key, Sealed(r.ver), V, B)})
          BY <1>1, <4>1, ReplaceRowsThenHead DEF V
        <4>3. QED  BY <1>3, <2>1, <3>1, <4>2 DEF new, k, r
      <3>3. CASE kind = "wf"
        <4>1. Script(kind, r) = <<PutHead(r), DelKids(r, "a"), PutKids(r, "a")>>
          BY <2>3, <3>3, ScriptShapes
        <4>2. LeadsTo(d, At(c, r.key, H, A, B), Script(kind, r), {At(c, r.key, Sealed(r.ver), V, B)})
          BY <1>1, <4>1, ReplaceHeadThenRows DEF V
        <4>3. QED  BY <1>3, <2>1, <3>1, <4>2 DEF new, k, r
      <3>4. CASE kind \in {"ks", "ch"}
        <4>1. Script(kind, r) = <<PutHead(r), PutKids(r, "a")>>
          BY <2>3, <3>4, ScriptShapes
        <4>2. LeadsTo(d, At(c, r.key, H, A, B), Script(kind, r),
                      {At(c, r.key, Sealed(r.ver), Merge(A, V), B)})
          BY <1>1, <4>1, MergeHeadAndRows DEF V
        <4>3. r.rows = FullRows
          BY <2>3, <3>4 DEF Prepared, PreparedKs, PreparedCh, r
        <4>4. Merge(A, V) = V
          <5>1. CASE A = {}
            BY <5>1, MergeNothing
          <5>2. CASE A # {}
            <6>1. PICK q \in Parsed : q.rows = FullRows /\ A = Version(q)
              BY <1>2, <3>4, <5>2
            <6>2. QED  BY <1>1, <4>3, <6>1, MergeReplaces DEF V
          <5>3. QED  BY <5>1, <5>2
        <4>5. QED  BY <1>3, <2>1, <3>1, <4>2, <4>4 DEF new, k, r
      <3>5. QED  BY <1>7, <3>2, <3>3, <3>4
    <2>4. QED  BY <2>2, <2>3
  <1>8. CASE kind = "ck" \/ kind \in Split
    <2>1. "a" \in ChildTables /\ "b" \in ChildTables /\ kind # "snapshot" /\ kind # "ch"
      BY <1>8 DEF ChildTables, Split
    <2>2. CASE Erases(r)
      <3>1. Script(kind, r) = <<DelKids(r, "a"), DelKids(r, "b"), DelHead(r)>>
        BY <1>8, <2>2, ScriptShapes, Zenon
      <3>2. LeadsTo(d, At(c, r.key, H, A, B), Script(kind, r), {At(c, r.key, NoHead, {}, {})})
        BY <1>1, <3>1, EraseBothThenHead
      <3>3. QED  BY <1>3, <1>4, <2>1, <2>2, <3>2 DEF new, k, r
    <2>3. CASE ~Erases(r)
      <3>1. new = At(c, k, Sealed(r.ver), V, V)
        BY <1>5, <1>6, <2>1, <2>3
      <3>2. CASE kind = "ck"
        <4>1. Script(kind, r) = <<Stmt("open", r, "a"), DelKids(r, "a"), DelKids(r, "b"),
                                  PutKids(r, "a"), PutKids(r, "b"), Stmt("seal", r, "a")>>
          BY <2>3, <3>2, ScriptShapes
        <4>2. LeadsTo(d, At(c, r.key, H, A, B), Script(kind, r), {At(c, r.key, Sealed(r.ver), V, V)})
          BY <1>1, <4>1, ReplaceSealed DEF V
        <4>3. QED  BY <1>3, <3>1, <4>2 DEF new, k, r
      <3>3. CASE kind \in Split
        <4>1. Script(kind, r) = <<DelKids(r, "a"), DelKids(r, "b"), PutHead(r),
                                  PutKids(r, "a"), PutKids(r, "b")>>
          BY <2>3, <3>3, ScriptShapes
        <4>2. LeadsTo(d, At(c, r.key, H, A, B), Script(kind, r), {At(c, r.key, Sealed(r.ver), V, V)})
          BY <1>1, <4>1, ReplaceBoth DEF V
        <4>3. QED  BY <1>3, <3>1, <4>2 DEF new, k, r
      <3>4. QED  BY <1>8, <3>2, <3>3
    <2>4. QED  BY <2>2, <2>3
  <1>9. CASE kind = "snapshot"
    <2>1. "a" \in ChildTables /\ "b" \notin ChildTables /\ B = {} /\ H = NoHead /\ kind # "ch"
      BY <1>2, <1>9 DEF ChildTables, Split
    <2>2. CASE Erases(r)
      <3>1. Script(kind, r) = <<DelKids(r, "a")>>
        BY <1>9, <2>2, ScriptShapes
      <3>2. LeadsTo(d, At(c, r.key, H, A, B), Script(kind, r), {At(c, r.key, H, {}, B)})
        BY <1>1, <3>1, EraseRows
      <3>3. QED  BY <1>3, <1>4, <2>1, <2>2, <3>2 DEF new, k, r
    <2>3. CASE ~Erases(r)
      <3>1. new = At(c, k, NoHead, V, {})
        BY <1>5, <1>6, <1>9, <2>1, <2>3
      <3>2. Script(kind, r) = <<DelKids(r, "a"), PutKids(r, "a")>>
        BY <1>9, <2>3, ScriptShapes
      <3>3. LeadsTo(d, At(c, r.key, H, A, B), Script(kind, r), {At(c, r.key, H, V, B)})
        BY <1>1, <3>2, ReplaceRows DEF V
      <3>4. QED  BY <1>3, <2>1, <3>1, <3>3 DEF new, k, r
    <2>4. QED  BY <2>2, <2>3
  <1>10. CASE kind \in {"rows", "wfnative", "ordered"}
    <2>1. "a" \notin ChildTables /\ "b" \notin ChildTables /\ A = {} /\ B = {} /\ kind # "ch"
          /\ kind # "snapshot"
      BY <1>2, <1>10 DEF ChildTables, Split
    <2>2. CASE Erases(r)
      <3>1. Script(kind, r) = <<DelHead(r)>>
        BY <1>10, <2>2, ScriptShapes
      <3>2. LeadsTo(d, At(c, r.key, H, A, B), Script(kind, r), {At(c, r.key, NoHead, A, B)})
        BY <1>1, <3>1, EraseHead
      <3>3. QED  BY <1>3, <1>4, <2>1, <2>2, <3>2 DEF new, k, r
    <2>3. CASE ~Erases(r)
      <3>1. new = At(c, k, Sealed(r.ver), {}, {})
        BY <1>5, <1>6, <2>1, <2>3
      <3>2. Script(kind, r) = <<PutHead(r)>>
        BY <1>10, <2>3, ScriptShapes
      <3>3. LeadsTo(d, At(c, r.key, H, A, B), Script(kind, r), {At(c, r.key, Sealed(r.ver), A, B)})
        BY <1>1, <3>2, ReplaceHead
      <3>4. QED  BY <1>3, <2>1, <3>1, <3>3 DEF new, k, r
    <2>4. QED  BY <2>2, <2>3
  <1>11. QED  BY <1>7, <1>8, <1>9, <1>10, KindsAre DEF r, k, new

-----------------------------------------------------------------------------
\* The last record of a key among those at positions S.
OfKey(S, k) == {i \in S : Rec(i).key = k}

\* A non-empty set of natural numbers has a smallest one, a bounded one a greatest.
LEMMA LeastOf ==
  ASSUME NEW S, S \subseteq Nat, S # {}
  PROVE  \E i \in S : \A j \in S : i <= j
  <1> DEFINE R == OpToRel(<, Nat)
  <1>1. IsWellFoundedOn(R, Nat)
    BY NatLessThanWellFounded
  <1>2. \A x, y \in Nat : <<y, x>> \in R <=> y < x
    BY DEF OpToRel
  <1> HIDE DEF R
  <1>3. \E x \in S : \A y \in S : ~(<<y, x>> \in R)
    BY <1>1, WFMin
  <1>4. PICK x \in S : \A y \in S : ~(<<y, x>> \in R)
    BY <1>3
  <1>5. \A y \in S : ~(y < x)
    BY <1>2, <1>4
  <1>6. QED  BY <1>5

LEMMA MaxIs ==
  ASSUME NEW n \in Nat, NEW S, S \subseteq 1..n, S # {}
  PROVE  Max(S) \in S /\ \A j \in S : j <= Max(S)
  <1> DEFINE T == {n - i : i \in S}
  <1>1. T \subseteq Nat /\ T # {}
    <2>1. \A i \in S : n - i \in Nat
      OBVIOUS
    <2>2. PICK i \in S : TRUE
      OBVIOUS
    <2>3. n - i \in T
      OBVIOUS
    <2>4. QED  BY <2>1, <2>3
  <1>2. PICK t \in T : \A u \in T : t <= u
    BY <1>1, LeastOf
  <1>3. PICK m \in S : t = n - m
    OBVIOUS
  <1>4. \A j \in S : m >= j
    <2>1. SUFFICES ASSUME NEW j \in S PROVE m >= j
      OBVIOUS
    <2>2. n - m <= n - j
      BY <1>2, <1>3
    <2>3. m \in 1..n /\ j \in 1..n
      OBVIOUS
    <2>4. QED  BY ONLY <2>2, <2>3, n \in Nat
  <1>5. Max(S) \in S /\ \A j \in S : Max(S) >= j
    BY <1>4 DEF Max
  <1>6. \A j \in S : j <= Max(S)
    <2> DEFINE x == Max(S)
    <2>1. x \in 1..n /\ \A j \in S : j \in 1..n
      BY <1>5
    <2> HIDE DEF x
    <2>2. QED  BY <1>5, <2>1 DEF x
  <1>7. QED  BY <1>5, <1>6

LEMMA MaxIsUnique ==
  ASSUME NEW S, S \subseteq Nat, NEW m \in S, \A j \in S : j <= m
  PROVE  Max(S) = m
  <1>1. \E i \in S : \A j \in S : i >= j
    OBVIOUS
  <1>2. Max(S) \in S /\ \A j \in S : Max(S) >= j
    BY <1>1 DEF Max
  <1>3. m >= Max(S) /\ Max(S) >= m /\ m \in Nat /\ Max(S) \in Nat
    BY <1>2
  <1>4. QED  BY <1>3

LEMMA LastOfKey ==
  ASSUME kind \in Kinds, NEW S, S \subseteq DOMAIN Records, NEW k, OfKey(S, k) # {}
  PROVE  /\ Max(OfKey(S, k)) \in S /\ Max(OfKey(S, k)) \in DOMAIN Records
         /\ Rec(Max(OfKey(S, k))).key = k
  <1> DEFINE P == OfKey(S, k)
             n == Len(Records)
  <1>1. P \subseteq 1..n /\ n \in Nat
    BY RecordsAreParsed DEF OfKey
  <1> HIDE DEF n
  <1>2. Max(P) \in P
    BY <1>1, MaxIs
  <1>3. QED  BY <1>2 DEF OfKey

LEMMA LastAdded ==
  ASSUME kind \in Kinds, NEW S, S \subseteq DOMAIN Records, NEW i \in DOMAIN Records,
         \A j \in S : j < i
  PROVE  /\ \A k : k # Rec(i).key => OfKey(S \cup {i}, k) = OfKey(S, k)
         /\ i \in OfKey(S \cup {i}, Rec(i).key) /\ Max(OfKey(S \cup {i}, Rec(i).key)) = i
  <1>1. DOMAIN Records \subseteq Nat
    BY RecordsAreParsed
  <1> DEFINE P == OfKey(S \cup {i}, Rec(i).key)
  <1>2. i \in P /\ P \subseteq Nat /\ \A j \in P : j <= i
    BY <1>1 DEF OfKey
  <1>3. Max(P) = i
    <2> HIDE DEF P
    <2>1. QED  BY <1>2, MaxIsUnique
  <1>4. \A k : k # Rec(i).key => OfKey(S \cup {i}, k) = OfKey(S, k)
    BY DEF OfKey
  <1>5. QED  BY <1>2, <1>3, <1>4

\* Records replayed one by one, all at once, or part after part.
LEMMA ReplayIs ==
  ASSUME NEW c, NEW S
  PROVE  Replay(c, S) =
           [k \in Keys |-> IF OfKey(S, k) = {} THEN c[k] ELSE Told(Rec(Max(OfKey(S, k))))]
  BY DEF Replay, OfKey

LEMMA ReplayIsWhole ==
  ASSUME kind \in Kinds, NEW c \in WholeRows, NEW S, S \subseteq DOMAIN Records,
         \A i \in S : Prepared(kind, Rec(i))
  PROVE  Replay(c, S) \in WholeRows
  <1> DEFINE E(k) == IF OfKey(S, k) = {} THEN c[k] ELSE Told(Rec(Max(OfKey(S, k))))
  <1>1. Replay(c, S) = [k \in Keys |-> E(k)]
    BY ReplayIs
  <1>2. ASSUME NEW k \in Keys
        PROVE  E(k) \in Entries /\ WholeEntry(E(k), k)
    <2>1. CASE OfKey(S, k) = {}
      BY <2>1 DEF WholeRows, Contents
    <2>2. CASE OfKey(S, k) # {}
      <3> DEFINE m == Max(OfKey(S, k))
      <3>1. m \in S /\ m \in DOMAIN Records /\ Rec(m).key = k
        BY <2>2, LastOfKey
      <3>2. E(k) = Told(Rec(m))
        BY <2>2
      <3> HIDE DEF m, E
      <3>3. Told(Rec(m)) \in Entries
        BY <3>1, RecordsAreParsed, ToldIs
      <3>4. QED  BY <3>1, <3>2, <3>3 DEF WholeEntry
    <2>3. QED  BY <2>1, <2>2
  <1> HIDE DEF E
  <1>3. QED  BY <1>1, <1>2 DEF WholeRows, Contents

LEMMA ReplayNothing ==
  ASSUME NEW c \in Contents
  PROVE  Replay(c, {}) = c
  BY ReplayIs DEF OfKey, Contents

LEMMA ReplayAnother ==
  ASSUME kind \in Kinds, NEW c \in Contents, NEW S, S \subseteq DOMAIN Records,
         NEW i \in DOMAIN Records, \A j \in S : j < i
  PROVE  Replay(c, S \cup {i}) = Put(Replay(c, S), Rec(i).key, Told(Rec(i)))
  <1> DEFINE a == Replay(c, S)
             b == Replay(c, S \cup {i})
             q == Rec(i).key
  <1>1. /\ \A k : k # q => OfKey(S \cup {i}, k) = OfKey(S, k)
        /\ OfKey(S \cup {i}, q) # {} /\ Max(OfKey(S \cup {i}, q)) = i
    BY LastAdded
  <1>2. /\ a = [k \in Keys |-> IF OfKey(S, k) = {} THEN c[k] ELSE Told(Rec(Max(OfKey(S, k))))]
        /\ b = [k \in Keys |-> IF OfKey(S \cup {i}, k) = {} THEN c[k]
                               ELSE Told(Rec(Max(OfKey(S \cup {i}, k))))]
    BY ReplayIs
  <1>3. q \in Keys
    BY RecordsAreParsed
  <1> HIDE DEF a, b, q
  <1>4. \A k \in Keys : b[k] = IF k = q THEN Told(Rec(i)) ELSE a[k]
    <2>1. SUFFICES ASSUME NEW k \in Keys PROVE b[k] = IF k = q THEN Told(Rec(i)) ELSE a[k]
      OBVIOUS
    <2>2. CASE k = q
      BY <1>1, <1>2, <2>2
    <2>3. CASE k # q
      <3>1. OfKey(S \cup {i}, k) = OfKey(S, k)
        BY <1>1, <2>3
      <3>2. QED  BY <1>2, <2>3, <3>1
    <2>4. QED  BY <2>2, <2>3
  <1>5. DOMAIN a = Keys /\ DOMAIN b = Keys /\ b = [k \in Keys |-> b[k]]
    BY <1>2
  <1>6. b = Put(a, q, Told(Rec(i)))
    BY <1>4, <1>5 DEF Put
  <1>7. QED  BY <1>6 DEF a, b, q

LEMMA ReplayTwice ==
  ASSUME kind \in Kinds, NEW S \in SUBSET DOMAIN Records, NEW T \in SUBSET DOMAIN Records,
         \A i \in S : \A j \in T : i < j, NEW c
  PROVE  Replay(Replay(c, S), T) = Replay(c, S \cup T)
  <1>1. ASSUME NEW k
        PROVE  /\ OfKey(T, k) = {} => OfKey(S \cup T, k) = OfKey(S, k)
               /\ OfKey(T, k) # {} => OfKey(S \cup T, k) # {}
                                      /\ Max(OfKey(S \cup T, k)) = Max(OfKey(T, k))
    <2>1. CASE OfKey(T, k) = {}
      BY <2>1 DEF OfKey
    <2>2. CASE OfKey(T, k) # {}
      <3> DEFINE P == OfKey(T, k)
                 U == OfKey(S \cup T, k)
                 n == Len(Records)
      <3>1. /\ P \subseteq 1..n /\ n \in Nat /\ U \subseteq Nat /\ P \subseteq U
            /\ \A i \in U : i \in P \/ i \in OfKey(S, k)
        BY RecordsAreParsed DEF OfKey
      <3>2. Max(P) \in P /\ \A j \in P : j <= Max(P)
        <4> HIDE DEF P, n
        <4>1. QED  BY <2>2, <3>1, MaxIs DEF P
      <3>3. \A i \in OfKey(S, k) : i < Max(P)
        BY <3>2 DEF OfKey
      <3>4. Max(P) \in U /\ \A j \in U : j <= Max(P)
        <4> DEFINE m == Max(P)
        <4>1. m \in Nat /\ \A j \in OfKey(S, k) : j \in Nat
          BY <3>1, <3>2 DEF OfKey
        <4> HIDE DEF P, U, m
        <4>2. \A j \in U : j <= m
          BY <3>1, <3>2, <3>3, <4>1 DEF m
        <4>3. QED  BY <3>1, <3>2, <4>2 DEF m
      <3>5. Max(U) = Max(P)
        <4> DEFINE m == Max(P)
        <4> HIDE DEF P, U, m
        <4>1. m \in U /\ \A j \in U : j <= m
          BY <3>4 DEF m
        <4>2. U \subseteq Nat
          BY <3>1
        <4>3. Max(U) = m
          BY <4>1, <4>2, MaxIsUnique, Zenon
        <4>4. QED  BY <4>3 DEF m
      <3>6. QED  BY <2>2, <3>4, <3>5
    <2>3. QED  BY <2>1, <2>2
  <1>2. Replay(c, S) = [k \in Keys |-> IF OfKey(S, k) = {} THEN c[k]
                                       ELSE Told(Rec(Max(OfKey(S, k))))]
    BY ReplayIs
  <1>3. Replay(Replay(c, S), T) =
          [k \in Keys |-> IF OfKey(T, k) = {} THEN Replay(c, S)[k]
                          ELSE Told(Rec(Max(OfKey(T, k))))]
    BY ReplayIs
  <1>4. Replay(c, S \cup T) = [k \in Keys |-> IF OfKey(S \cup T, k) = {} THEN c[k]
                                              ELSE Told(Rec(Max(OfKey(S \cup T, k))))]
    BY ReplayIs
  <1>5. QED  BY <1>1, <1>2, <1>3, <1>4

-----------------------------------------------------------------------------
\* The statements of a batch.
LEMMA BatchIs ==
  ASSUME kind \in Kinds, pos \in Nat, NEW n \in pos + 1 .. Len(Records)
  PROVE  /\ n - pos \in Nat /\ n - pos >= 1 /\ Len(Batch(n)) = n - pos
         /\ Batch(n) \in Seq(DOMAIN Records) /\ Batch(n) # <<>>
         /\ \A i \in 1..n - pos : Batch(n)[i] = pos + i /\ pos + i \in DOMAIN Records
         /\ Range(Batch(n)) = pos + 1 .. n
         /\ pos + 1 .. n \subseteq DOMAIN Records
  <1> DEFINE m == n - pos
             B == Batch(n)
  <1>1. /\ Len(Records) \in Nat /\ DOMAIN Records = 1..Len(Records)
    BY RecordsAreParsed
  <1>2. m \in Nat /\ m >= 1 /\ \A i \in 1..m : pos + i \in DOMAIN Records
    BY <1>1
  <1>3. B = [i \in 1..m |-> pos + i]
    BY DEF Batch
  <1>4. B \in Seq(DOMAIN Records) /\ Len(B) = m /\ B # <<>> /\ DOMAIN B = 1..m
    <2> HIDE DEF m, B
    <2>1. B \in Seq(DOMAIN Records) /\ Len(B) = m /\ DOMAIN B = 1..m
      BY <1>2, <1>3
    <2>2. QED  BY <1>2, <2>1
  <1>5. Range(B) = pos + 1 .. n
    <2>1. Range(B) = {B[i] : i \in DOMAIN B}
      BY DEF Range
    <2>2. ASSUME NEW j \in pos + 1 .. n PROVE j \in Range(B)
      <3>1. j - pos \in 1..m /\ pos + (j - pos) = j
        BY <1>1
      <3>2. B[j - pos] = j
        BY <1>3, <3>1
      <3> HIDE DEF B, m
      <3>3. QED  BY <1>4, <2>1, <3>1, <3>2
    <2>3. \A i \in 1..m : B[i] \in pos + 1 .. n
      BY <1>1, <1>3
    <2> HIDE DEF B, m
    <2>4. QED  BY <1>4, <2>1, <2>2, <2>3
  <1>6. pos + 1 .. n \subseteq DOMAIN Records
    BY <1>1
  <1>7. QED  BY <1>2, <1>3, <1>4, <1>5, <1>6

LEMMA LeadsFurther ==
  ASSUME NEW c, NEW T, NEW Z, NEW W, NEW d, Leads(d, c, T, Z), Z \subseteq W
  PROVE  Leads(d, c, T, W)
  BY DEF Leads

\* Script after script, through the rows X[i].
LEMMA ScriptsLead ==
  ASSUME NEW m \in Nat, NEW X \in [0..m -> Contents], NEW T, Len(T) = m, NEW d,
         \A i \in 1..m : LeadsTo(d, X[i - 1], T[i], {X[i]})
  PROVE  Leads(d, X[0], T, {X[m]})
  <1> DEFINE Y == [i \in 1..m + 1 |-> {X[i - 1]}]
  <1>1. /\ Y \in [1..Len(T) + 1 -> SUBSET Contents]
        /\ X[0] \in Y[1] /\ Y[Len(T) + 1] \subseteq {X[m]}
    <2>1. \A i \in 1..m + 1 : i - 1 \in 0..m
      OBVIOUS
    <2>2. 1 \in 1..m + 1 /\ 1 - 1 = 0 /\ m + 1 \in 1..m + 1 /\ (m + 1) - 1 = m
      OBVIOUS
    <2>3. QED  BY <2>1, <2>2
  <1>2. ASSUME NEW i \in 1..m, NEW x \in Y[i]
        PROVE  LeadsTo(d, x, T[i], Y[i + 1])
    <2>1. i \in 1..m + 1 /\ i + 1 \in 1..m + 1 /\ (i + 1) - 1 = i
      OBVIOUS
    <2>2. Y[i] = {X[i - 1]} /\ Y[i + 1] = {X[i]}
      BY <2>1
    <2>3. QED  BY <1>2, <2>2
  <1> HIDE DEF Y
  <1>3. QED  BY <1>1, <1>2 DEF Leads

LEMMA OrdinaryLeads ==
  ASSUME kind \in Kinds, pos \in Nat, NEW n \in pos + 1 .. Len(Records),
         \A i \in pos + 1 .. n : Prepared(kind, Rec(i)), NEW c \in WholeRows, NEW d
  PROVE  Leads(d, c, [i \in 1..Len(Batch(n)) |-> Script(kind, Rec(Batch(n)[i]))],
               {Replay(c, pos + 1 .. n)})
  <1> DEFINE m == n - pos
             S(i) == pos + 1 .. pos + i
             X == [i \in 0..m |-> Replay(c, S(i))]
             T == [i \in 1..Len(Batch(n)) |-> Script(kind, Rec(Batch(n)[i]))]
  <1>1. /\ m \in Nat /\ m >= 1 /\ Len(Batch(n)) = m
        /\ \A i \in 1..m : Batch(n)[i] = pos + i /\ pos + i \in DOMAIN Records
        /\ DOMAIN Records = 1..Len(Records) /\ Len(Records) \in Nat
    BY BatchIs, RecordsAreParsed
  <1>2. Len(T) = m /\ \A i \in 1..m : T[i] = Script(kind, Rec(pos + i))
    BY <1>1
  <1>3. ASSUME NEW i \in 0..m
        PROVE  S(i) \subseteq DOMAIN Records /\ Replay(c, S(i)) \in WholeRows
    <2>1. S(i) \subseteq DOMAIN Records /\ S(i) \subseteq pos + 1 .. n
      BY <1>1
    <2>2. QED  BY <2>1, ReplayIsWhole
  <1>4. X \in [0..m -> Contents]
    <2>1. \A i \in 0..m : Replay(c, S(i)) \in Contents
      BY <1>3 DEF WholeRows
    <2>2. QED  BY <2>1
  <1>5. ASSUME NEW i \in 1..m PROVE LeadsTo(d, X[i - 1], T[i], {X[i]})
    <2>1. i - 1 \in 0..m /\ i \in 0..m /\ pos + i \in pos + 1 .. n /\ pos + i \in DOMAIN Records
      BY <1>1
    <2>2. S(i) = S(i - 1) \cup {pos + i} /\ \A j \in S(i - 1) : j < pos + i
      BY <1>1
    <2>3. X[i - 1] = Replay(c, S(i - 1)) /\ X[i] = Replay(c, S(i))
      BY <2>1
    <2>4. S(i - 1) \subseteq DOMAIN Records /\ Replay(c, S(i - 1)) \in WholeRows /\ c \in Contents
      BY <1>3, <2>1 DEF WholeRows
    <2> HIDE DEF S, X, T
    <2>5. Replay(c, S(i)) = Put(Replay(c, S(i - 1)), Rec(pos + i).key, Told(Rec(pos + i)))
      BY <2>1, <2>2, <2>4, ReplayAnother
    <2>6. Prepared(kind, Rec(pos + i))
      BY <2>1
    <2>7. LeadsTo(d, Replay(c, S(i - 1)), Script(kind, Rec(pos + i)),
                  {Put(Replay(c, S(i - 1)), Rec(pos + i).key, Told(Rec(pos + i)))})
      BY <2>1, <2>4, <2>6, ScriptWrites
    <2>8. QED  BY <1>2, <2>3, <2>5, <2>7
  <1>6. X[0] = c /\ X[m] = Replay(c, pos + 1 .. n)
    <2>1. S(0) = {} /\ S(m) = pos + 1 .. n /\ 0 \in 0..m /\ m \in 0..m
      BY <1>1
    <2>2. Replay(c, {}) = c
      BY ReplayNothing DEF WholeRows
    <2>3. QED  BY <2>1, <2>2
  <1> HIDE DEF X, T, m
  <1>7. Leads(d, X[0], T, {X[m]})
    BY <1>1, <1>2, <1>4, <1>5, ScriptsLead
  <1>8. QED  BY <1>6, <1>7 DEF T

LEMMA ReheadedIs ==
  ASSUME NEW H, NEW A, NEW B, NEW v
  PROVE  Reheaded(EntryOf(H, A, B), v) = EntryOf(Sealed(v), A, B)
  <1> DEFINE e == EntryOf(H, A, B)
             g == [ver |-> v, sealed |-> TRUE]
  <1>1. e \in [head : {H}, kids : {KidsOf(A, B)}]
    BY DEF EntryOf
  <1> HIDE DEF e, g
  <1>2. [e EXCEPT !.head = g] = [head |-> g, kids |-> KidsOf(A, B)]
    BY <1>1
  <1>3. QED  BY <1>2, Zenon DEF Reheaded, EntryOf, Sealed, e, g

\* One insert of many rows does what their scripts do.
LEMMA ManyWrites ==
  ASSUME kind \in {"rows", "wfnative"}, kind \in Kinds, pos \in Nat,
         NEW n \in pos + 1 .. Len(Records), \A i \in pos + 1 .. n : ~Erases(Rec(i)),
         NEW c \in WholeRows, NEW d
  PROVE  LET s == ManyRows([i \in 1..Len(Batch(n)) |-> Rec(Batch(n)[i])])
         IN s \in Stmts /\ Apply(d, c, s) = Replay(c, pos + 1 .. n)
  <1> DEFINE m == n - pos
             R == [i \in 1..Len(Batch(n)) |-> Rec(Batch(n)[i])]
             Q == pos + 1 .. n
             s == ManyRows(R)
             K == {R[i].key : i \in DOMAIN R}
             Latest(k) == CHOOSE i \in DOMAIN R : R[i].key = k
                          /\ \A j \in DOMAIN R : R[j].key = k => j <= i
  <1>1. /\ m \in Nat /\ m >= 1 /\ Len(Batch(n)) = m /\ Q \subseteq DOMAIN Records
        /\ \A i \in 1..m : Batch(n)[i] = pos + i /\ pos + i \in DOMAIN Records
    BY BatchIs
  <1>2. DOMAIN R = 1..m /\ \A i \in 1..m : R[i] = Rec(pos + i)
    BY <1>1
  <1>3. s.do = "many" /\ s.new = [k \in K |-> R[Latest(k)].ver]
        /\ s = [do |-> "many", new |-> [k \in K |-> R[Latest(k)].ver]]
    BY DEF ManyRows
  <1>4. \A i \in 1..m : R[i].key \in Keys /\ R[i].ver \in Nat
    BY <1>1, <1>2, RecordsAreParsed
  <1> HIDE DEF R, s
  <1>5. ASSUME NEW k
        PROVE  /\ k \notin K => OfKey(Q, k) = {}
               /\ k \in K => /\ OfKey(Q, k) # {} /\ Latest(k) \in 1..m
                             /\ Max(OfKey(Q, k)) = pos + Latest(k)
    <2>1. CASE k \notin K
      <3>1. ASSUME NEW i \in Q PROVE Rec(i).key # k
        <4>1. i - pos \in 1..m /\ pos + (i - pos) = i
          BY <1>1
        <4>2. QED  BY <1>2, <2>1, <4>1
      <3>2. QED  BY <2>1, <3>1 DEF OfKey
    <2>2. CASE k \in K
      <3> DEFINE P == OfKey(Q, k)
                 l == Max(P)
      <3>1. PICK i \in 1..m : R[i].key = k
        BY <1>2, <2>2
      <3>2. pos + i \in Q /\ Rec(pos + i).key = k
        BY <1>1, <1>2, <3>1
      <3>3. pos + i \in P
        BY <3>2 DEF OfKey
      <3>4. P \subseteq 1..n /\ n \in Nat /\ P \subseteq Q
        BY DEF OfKey
      <3>5. l \in P /\ \A j \in P : j <= l
        <4> HIDE DEF P
        <4>1. P # {}
          BY <3>3
        <4>2. QED  BY <3>4, <4>1, MaxIs
      <3>6. l - pos \in 1..m /\ pos + (l - pos) = l /\ Rec(l).key = k
        BY <3>4, <3>5 DEF OfKey
      <3> HIDE DEF l
      <3>7. R[l - pos].key = k
        BY <1>2, <3>6
      <3>8. ASSUME NEW j \in 1..m, R[j].key = k PROVE j <= l - pos
        <4>1. pos + j \in Q /\ Rec(pos + j).key = k
          BY <1>1, <1>2, <3>8
        <4>2. pos + j \in P
          BY <4>1 DEF OfKey
        <4>3. pos + j <= l /\ l \in Nat
          BY <3>4, <3>5, <4>2
        <4>4. QED  BY <4>3
      <3>9. \E x \in DOMAIN R : R[x].key = k /\ \A j \in DOMAIN R : R[j].key = k => j <= x
        BY <1>2, <3>6, <3>7, <3>8
      <3>10. /\ Latest(k) \in DOMAIN R /\ R[Latest(k)].key = k
             /\ \A j \in DOMAIN R : R[j].key = k => j <= Latest(k)
        BY <3>9
      <3> HIDE DEF Latest
      <3>11. Latest(k) <= l - pos /\ l - pos <= Latest(k) /\ Latest(k) \in 1..m
        BY <1>2, <3>6, <3>7, <3>8, <3>10
      <3>12. pos + Latest(k) = l
        BY <3>4, <3>5, <3>11
      <3>13. QED  BY <2>2, <3>3, <3>11, <3>12 DEF l
    <2>3. QED  BY <2>1, <2>2
  <1> HIDE DEF Latest, K, Q, m
  <1>6. s \in Stmts
    <2>1. K \subseteq Keys
      BY <1>2, <1>4 DEF K
    <2>2. [k \in K |-> R[Latest(k)].ver] \in [K -> Nat]
      BY <1>4, <1>5
    <2> DEFINE f == [k \in K |-> R[Latest(k)].ver]
    <2> HIDE DEF f
    <2>3. f \in UNION {[L -> Nat] : L \in SUBSET Keys}
      BY <2>1, <2>2 DEF f
    <2>4. s = [do |-> "many", new |-> f]
      BY <1>3 DEF f
    <2>5. QED  BY <2>3, <2>4 DEF Manys, Stmts
  <1>7. ASSUME NEW k \in Keys
        PROVE  (IF k \in DOMAIN s.new THEN Reheaded(c[k], s.new[k]) ELSE c[k])
               = IF OfKey(Q, k) = {} THEN c[k] ELSE Told(Rec(Max(OfKey(Q, k))))
    <2>1. DOMAIN s.new = K
      BY <1>3
    <2>2. CASE k \notin K
      BY <1>5, <2>1, <2>2
    <2>3. CASE k \in K
      <3> DEFINE l == pos + Latest(k)
      <3>1. OfKey(Q, k) # {} /\ l = Max(OfKey(Q, k)) /\ Latest(k) \in 1..m
        BY <1>5, <2>3
      <3>2. s.new[k] = Rec(l).ver
        BY <1>2, <1>3, <2>3, <3>1
      <3>3. l \in DOMAIN Records /\ l \in Q
        BY <1>1, <3>1 DEF Q, m
      <3>4. Rec(l) \in Parsed /\ ~Erases(Rec(l))
        BY <3>3, RecordsAreParsed DEF Q
      <3> HIDE DEF l
      <3>5. Told(Rec(l)) = EntryOf(Sealed(Rec(l).ver), {}, {})
        <4>1. Told(Rec(l)) = Entry(Rec(l))
          BY <3>4 DEF Told
        <4>2. ChildTables = {} /\ kind # "snapshot"
          BY DEF ChildTables, Split
        <4>3. HeadOf(Rec(l)) = Sealed(Rec(l).ver) /\ RowsIn("a", Rec(l)) = {} /\ RowsIn("b", Rec(l)) = {}
          BY <4>2 DEF HeadOf, RowsIn, Sealed
        <4>4. QED  BY <3>4, <4>1, <4>3, ToldIs
      <3>6. PICK H \in Heads, A \in Children, B \in Children :
              c[k] = EntryOf(H, A, B) /\ A = {} /\ B = {}
        <4>1. WholeEntry(c[k], k) /\ ChildTables = {}
          BY DEF WholeRows, ChildTables, Split
        <4>2. QED  BY <4>1, WholeEntryIs
      <3>7. Reheaded(c[k], s.new[k]) = EntryOf(Sealed(Rec(l).ver), {}, {})
        BY <3>2, <3>6, ReheadedIs
      <3>8. QED  BY <2>1, <2>3, <3>1, <3>5, <3>7 DEF l
    <2>4. QED  BY <2>2, <2>3
  <1>8. Apply(d, c, s) =
          [k \in Keys |-> IF k \in DOMAIN s.new THEN Reheaded(c[k], s.new[k]) ELSE c[k]]
    BY <1>3, ManyApplies
  <1>9. Replay(c, Q) =
          [k \in Keys |-> IF OfKey(Q, k) = {} THEN c[k] ELSE Told(Rec(Max(OfKey(Q, k))))]
    BY ReplayIs
  <1>10. Apply(d, c, s) = Replay(c, Q)
    BY <1>7, <1>8, <1>9
  <1>11. QED  BY <1>6, <1>10 DEF s, R, Q

\* A CH batch writes all headers first: the rows c with the headers of the
\* records at S, and the child rows of those at U.
HeadAfter(c, S, k) == IF OfKey(S, k) = {} THEN c[k].head ELSE Sealed(Rec(Max(OfKey(S, k))).ver)
KidsAfter(c, U, k) == IF OfKey(U, k) = {} THEN c[k].kids["a"] ELSE Version(Rec(Max(OfKey(U, k))))
Half(c, S, U) == [k \in Keys |-> EntryOf(HeadAfter(c, S, k), KidsAfter(c, U, k), {})]

LEMMA ChEntries ==
  ASSUME kind \in Kinds, kind = "ch", NEW c \in WholeRows, NEW k \in Keys
  PROVE  /\ c[k] = EntryOf(c[k].head, c[k].kids["a"], {})
         /\ c[k].head \in Heads /\ c[k].kids["a"] \in Children
         /\ \/ c[k].kids["a"] = {}
            \/ \E r \in Parsed : r.rows = FullRows /\ c[k].kids["a"] = Version(r)
  <1>1. WholeEntry(c[k], k) /\ "b" \notin ChildTables
    BY DEF WholeRows, ChildTables, Split
  <1>2. PICK H \in Heads, A \in Children, B \in Children :
           /\ c[k] = EntryOf(H, A, B)
           /\ B = {}
           /\ A = {} \/ \E r \in Parsed : r.rows = FullRows /\ A = Version(r)
    BY <1>1, WholeEntryIs
  <1>3. c[k].head = H /\ c[k].kids["a"] = A
    BY <1>2, EntryOfIs
  <1>4. QED  BY <1>2, <1>3

LEMMA AfterIs ==
  ASSUME kind \in Kinds, kind = "ch", NEW c \in WholeRows, NEW k \in Keys,
         NEW S, S \subseteq DOMAIN Records, \A i \in S : Prepared(kind, Rec(i))
  PROVE  /\ HeadAfter(c, S, k) \in Heads /\ KidsAfter(c, S, k) \in Children
         /\ \/ KidsAfter(c, S, k) = {}
            \/ \E r \in Parsed : r.rows = FullRows /\ KidsAfter(c, S, k) = Version(r)
  <1>1. CASE OfKey(S, k) = {}
    BY <1>1, ChEntries DEF HeadAfter, KidsAfter
  <1>2. CASE OfKey(S, k) # {}
    <2> DEFINE l == Max(OfKey(S, k))
    <2>1. l \in S /\ l \in DOMAIN Records
      BY <1>2, LastOfKey
    <2>2. Rec(l) \in Parsed /\ Rec(l).ver \in Nat /\ Prepared(kind, Rec(l))
      BY <2>1, RecordsAreParsed
    <2>3. Rec(l).rows = FullRows
      BY <2>2 DEF Prepared, PreparedCh
    <2>4. HeadAfter(c, S, k) = Sealed(Rec(l).ver) /\ KidsAfter(c, S, k) = Version(Rec(l))
      BY <1>2 DEF HeadAfter, KidsAfter
    <2> HIDE DEF l
    <2>5. Sealed(Rec(l).ver) \in Heads
      BY <2>2 DEF Sealed, Heads
    <2>6. QED  BY <2>2, <2>3, <2>4, <2>5, VersionIs
  <1>3. QED  BY <1>1, <1>2

LEMMA HalfIs ==
  ASSUME kind \in Kinds, kind = "ch", NEW c \in WholeRows,
         NEW S, S \subseteq DOMAIN Records, \A i \in S : Prepared(kind, Rec(i)),
         NEW U, U \subseteq DOMAIN Records, \A i \in U : Prepared(kind, Rec(i))
  PROVE  Half(c, S, U) \in Contents
  <1>1. ASSUME NEW k \in Keys
        PROVE  EntryOf(HeadAfter(c, S, k), KidsAfter(c, U, k), {}) \in Entries
    <2>1. HeadAfter(c, S, k) \in Heads /\ KidsAfter(c, U, k) \in Children /\ {} \in Children
      BY AfterIs DEF Children
    <2>2. QED  BY <2>1, EntryOfIs
  <1>2. QED  BY <1>1 DEF Half, Contents

LEMMA HalfEnds ==
  ASSUME kind \in Kinds, kind = "ch", NEW c \in WholeRows,
         NEW S, S \subseteq DOMAIN Records, \A i \in S : Prepared(kind, Rec(i))
  PROVE  Half(c, {}, {}) = c /\ Half(c, S, S) = Replay(c, S)
  <1>1. c \in Contents
    BY DEF WholeRows
  <1>2. ASSUME NEW k \in Keys
        PROVE  /\ EntryOf(HeadAfter(c, {}, k), KidsAfter(c, {}, k), {}) = c[k]
               /\ EntryOf(HeadAfter(c, S, k), KidsAfter(c, S, k), {})
                    = IF OfKey(S, k) = {} THEN c[k] ELSE Told(Rec(Max(OfKey(S, k))))
    <2>1. c[k] = EntryOf(c[k].head, c[k].kids["a"], {}) /\ OfKey({}, k) = {}
      BY ChEntries DEF OfKey
    <2>2. CASE OfKey(S, k) = {}
      BY <2>1, <2>2 DEF HeadAfter, KidsAfter
    <2>3. CASE OfKey(S, k) # {}
      <3> DEFINE l == Max(OfKey(S, k))
      <3>1. l \in DOMAIN Records
        BY <2>3, LastOfKey
      <3>2. HeadAfter(c, S, k) = Sealed(Rec(l).ver) /\ KidsAfter(c, S, k) = Version(Rec(l))
        BY <2>3 DEF HeadAfter, KidsAfter
      <3> HIDE DEF l
      <3>3. Rec(l) \in Parsed
        BY <3>1, RecordsAreParsed
      <3>4. Told(Rec(l)) = EntryOf(HeadOf(Rec(l)), RowsIn("a", Rec(l)), RowsIn("b", Rec(l)))
        BY <3>3, ToldIs DEF Told
      <3>5. HeadOf(Rec(l)) = Sealed(Rec(l).ver) /\ RowsIn("a", Rec(l)) = Version(Rec(l))
            /\ RowsIn("b", Rec(l)) = {}
        BY DEF HeadOf, Sealed, RowsIn, ChildTables, Split
      <3>6. QED  BY <2>1, <2>3, <3>2, <3>4, <3>5 DEF HeadAfter, KidsAfter, l
    <2>4. QED  BY <2>2, <2>3
  <1>3. Half(c, {}, {}) = [k \in Keys |-> c[k]]
    BY <1>2 DEF Half
  <1>4. [k \in Keys |-> c[k]] = c
    BY <1>1 DEF Contents
  <1>5. QED  BY <1>2, <1>3, <1>4, ReplayIs DEF Half

\* The header of one more record, and its child rows.
LEMMA HalfHead ==
  ASSUME kind \in Kinds, kind = "ch", NEW c \in WholeRows,
         NEW S, S \subseteq DOMAIN Records, \A i \in S : Prepared(kind, Rec(i)),
         NEW i \in DOMAIN Records, \A j \in S : j < i, NEW d
  PROVE  Apply(d, Half(c, S, {}), PutHead(Rec(i))) = Half(c, S \cup {i}, {})
  <1> DEFINE r == Rec(i)
             k == r.key
             x == Half(c, S, {})
             A == KidsAfter(c, {}, k)
  <1>1. r \in Parsed /\ k \in Keys /\ r.ver \in Nat
    BY RecordsAreParsed
  <1>2. x \in Contents /\ x[k] = EntryOf(HeadAfter(c, S, k), A, {})
    <2>1. x \in Contents
      BY HalfIs
    <2>2. QED  BY <1>1, <2>1 DEF Half
  <1>3. HeadAfter(c, S, k) \in Heads /\ A \in Children /\ {} \in Children
    <2>1. \A j \in {} : Prepared(kind, Rec(j))
      OBVIOUS
    <2>2. QED  BY <1>1, <2>1, AfterIs DEF Children
  <1>4. /\ \A q : q # k => OfKey(S \cup {i}, q) = OfKey(S, q)
        /\ OfKey(S \cup {i}, k) # {} /\ Max(OfKey(S \cup {i}, k)) = i
    BY LastAdded
  <1>5. HeadAfter(c, S \cup {i}, k) = Sealed(r.ver)
        /\ \A q \in Keys : q # k => HeadAfter(c, S \cup {i}, q) = HeadAfter(c, S, q)
    <2>1. HeadAfter(c, S \cup {i}, k) = Sealed(Rec(i).ver)
      BY <1>4, Zenon DEF HeadAfter
    <2>2. \A q \in Keys : q # k => HeadAfter(c, S \cup {i}, q) = HeadAfter(c, S, q)
      <3>1. ASSUME NEW q \in Keys, q # k
            PROVE  HeadAfter(c, S \cup {i}, q) = HeadAfter(c, S, q)
        <4>1. OfKey(S \cup {i}, q) = OfKey(S, q)
          BY <1>4, <3>1
        <4>2. QED  BY <4>1, Zenon DEF HeadAfter
      <3>2. QED  BY <3>1, Zenon
    <2>3. QED  BY <2>1, <2>2
  <1> HIDE DEF x
  <1>6. x = At(x, k, HeadAfter(c, S, k), A, {})
    BY <1>1, <1>2 DEF At, Put, Contents
  <1>7. Apply(d, At(x, k, HeadAfter(c, S, k), A, {}), PutHead(r)) = At(x, k, Sealed(r.ver), A, {})
    BY <1>1, <1>2, <1>3, HeadPut
  <1>8. At(x, k, Sealed(r.ver), A, {}) = Half(c, S \cup {i}, {})
    <2> HIDE DEF A
    <2>1. At(x, k, Sealed(r.ver), A, {})
            = [q \in Keys |-> IF q = k THEN EntryOf(Sealed(r.ver), A, {}) ELSE x[q]]
      BY <1>1, <1>2 DEF At, Put, Contents
    <2>2. \A q \in Keys : x[q] = EntryOf(HeadAfter(c, S, q), KidsAfter(c, {}, q), {})
      BY DEF Half, x
    <2>3. QED  BY <1>1, <1>5, <2>1, <2>2 DEF Half, A
  <1>9. QED  BY <1>6, <1>7, <1>8 DEF x

LEMMA HalfKids ==
  ASSUME kind \in Kinds, kind = "ch", NEW c \in WholeRows,
         NEW S, S \subseteq DOMAIN Records, \A i \in S : Prepared(kind, Rec(i)),
         NEW U, U \subseteq DOMAIN Records, \A i \in U : Prepared(kind, Rec(i)),
         NEW i \in DOMAIN Records, Prepared(kind, Rec(i)), \A j \in U : j < i, NEW d
  PROVE  Apply(d, Half(c, S, U), PutKids(Rec(i), "a")) = Half(c, S, U \cup {i})
  <1> DEFINE r == Rec(i)
             k == r.key
             x == Half(c, S, U)
             H == HeadAfter(c, S, k)
             A == KidsAfter(c, U, k)
             V == Version(r)
  <1>1. r \in Parsed /\ k \in Keys /\ r.rows = FullRows
    BY RecordsAreParsed DEF Prepared, PreparedCh
  <1>2. x \in Contents /\ x[k] = EntryOf(H, A, {})
    <2>1. x \in Contents
      BY HalfIs
    <2>2. QED  BY <1>1, <2>1 DEF Half
  <1>3. H \in Heads /\ A \in Children /\ {} \in Children
        /\ (A = {} \/ \E q \in Parsed : q.rows = FullRows /\ A = Version(q))
    BY <1>1, AfterIs DEF Children
  <1>4. /\ \A q : q # k => OfKey(U \cup {i}, q) = OfKey(U, q)
        /\ OfKey(U \cup {i}, k) # {} /\ Max(OfKey(U \cup {i}, k)) = i
    BY LastAdded
  <1>5. KidsAfter(c, U \cup {i}, k) = V
        /\ \A q \in Keys : q # k => KidsAfter(c, U \cup {i}, q) = KidsAfter(c, U, q)
    BY <1>4 DEF KidsAfter
  <1> HIDE DEF x
  <1>6. x = At(x, k, H, A, {})
    BY <1>1, <1>2 DEF At, Put, Contents
  <1> HIDE DEF H, A
  <1>7. Apply(d, At(x, k, H, A, {}), PutKids(r, "a")) = At(x, k, H, Merge(A, V), {})
    BY <1>1, <1>2, <1>3, KidsPutA
  <1>8. Merge(A, V) = V
    BY <1>1, <1>3, MergeNothing, MergeReplaces
  <1>9. At(x, k, H, V, {}) = Half(c, S, U \cup {i})
    <2>1. At(x, k, H, V, {})
            = [q \in Keys |-> IF q = k THEN EntryOf(H, V, {}) ELSE x[q]]
      BY <1>1, <1>2 DEF At, Put, Contents
    <2>2. \A q \in Keys : x[q] = EntryOf(HeadAfter(c, S, q), KidsAfter(c, U, q), {})
      BY DEF Half, x
    <2>3. QED  BY <1>1, <1>5, <2>1, <2>2 DEF Half, H
  <1>10. QED  BY <1>6, <1>7, <1>8, <1>9 DEF x

LEMMA FunctionIsSequence ==
  ASSUME NEW S, NEW m \in Nat, NEW f \in [1..m -> S]
  PROVE  f \in Seq(S) /\ Len(f) = m
  OBVIOUS

LEMMA ChIs ==
  ASSUME kind \in Kinds, pos \in Nat, NEW n \in pos + 1 .. Len(Records)
  PROVE  LET m == n - pos
             T == ChStatements(Batch(n))
         IN /\ T \in Seq(Scripts) /\ Len(T) = m + m
            /\ \A i \in 1..m : T[i] = <<PutHead(Rec(pos + i))>>
                            /\ T[m + i] = <<PutKids(Rec(pos + i), "a")>>
  <1> DEFINE m == n - pos
             B == Batch(n)
             S == [i \in 1..Len(B) |-> <<PutHead(Rec(B[i]))>>]
             U == [i \in 1..Len(B) |-> <<PutKids(Rec(B[i]), "a")>>]
  <1>1. /\ m \in Nat /\ m >= 1 /\ Len(B) = m
        /\ \A i \in 1..m : B[i] = pos + i /\ pos + i \in DOMAIN Records
    BY BatchIs
  <1> HIDE DEF m, B
  <1>2. ASSUME NEW i \in 1..m
        PROVE  <<PutHead(Rec(B[i]))>> \in Scripts /\ <<PutKids(Rec(B[i]), "a")>> \in Scripts
    <2>1. Rec(B[i]) \in Parsed
      BY <1>1, RecordsAreParsed
    <2>2. PutHead(Rec(B[i])) \in Stmts /\ PutKids(Rec(B[i]), "a") \in Stmts
      BY <2>1, StatementsAreSimple DEF PutHead, PutKids, Stmts, Tabs
    <2>3. QED  BY <2>2, TuplesAreScripts
  <1>3. /\ S \in Seq(Scripts) /\ Len(S) = m /\ \A i \in 1..m : S[i] = <<PutHead(Rec(B[i]))>>
        /\ U \in Seq(Scripts) /\ Len(U) = m /\ \A i \in 1..m : U[i] = <<PutKids(Rec(B[i]), "a")>>
    <2>1. S = [i \in 1..m |-> <<PutHead(Rec(B[i]))>>] /\ U = [i \in 1..m |-> <<PutKids(Rec(B[i]), "a")>>]
      BY <1>1
    <2> HIDE DEF S, U
    <2>2. S \in [1..m -> Scripts] /\ U \in [1..m -> Scripts]
      BY <1>2, <2>1
    <2>3. S \in Seq(Scripts) /\ Len(S) = m /\ U \in Seq(Scripts) /\ Len(U) = m
      BY <1>1, <2>2, FunctionIsSequence
    <2>4. QED  BY <2>1, <2>3
  <1>4. ChStatements(B) = S \o U
    BY DEF ChStatements
  <1> HIDE DEF S, U
  <1>5. /\ S \o U \in Seq(Scripts) /\ Len(S \o U) = m + m
        /\ \A i \in 1..m + m : (S \o U)[i] = IF i <= m THEN S[i] ELSE U[i - m]
    <2>1. S \in Seq(Scripts) /\ U \in Seq(Scripts) /\ Len(S) = m /\ Len(U) = m
      BY <1>3
    <2>2. /\ S \o U \in Seq(Scripts) /\ Len(S \o U) = Len(S) + Len(U)
          /\ \A i \in 1..Len(S) + Len(U) :
               (S \o U)[i] = IF i <= Len(S) THEN S[i] ELSE U[i - Len(S)]
      BY <2>1, ConcatProperties, Zenon
    <2>3. QED  BY <2>1, <2>2, Zenon
  <1>6. ASSUME NEW i \in 1..m
        PROVE  /\ (S \o U)[i] = <<PutHead(Rec(pos + i))>>
               /\ (S \o U)[m + i] = <<PutKids(Rec(pos + i), "a")>>
    <2>1. i \in 1..m + m /\ i <= m /\ m + i \in 1..m + m /\ ~(m + i <= m) /\ (m + i) - m = i
      BY <1>1
    <2>2. (S \o U)[i] = S[i] /\ (S \o U)[m + i] = U[i]
      BY <1>5, <2>1
    <2>3. S[i] = <<PutHead(Rec(B[i]))>> /\ U[i] = <<PutKids(Rec(B[i]), "a")>> /\ B[i] = pos + i
      BY <1>1, <1>3
    <2>4. QED  BY <2>2, <2>3
  <1>7. QED  BY <1>4, <1>5, <1>6 DEF m, B

LEMMA ChLeads ==
  ASSUME kind \in Kinds, kind = "ch", pos \in Nat, NEW n \in pos + 1 .. Len(Records),
         \A i \in pos + 1 .. n : Prepared(kind, Rec(i)), NEW c \in WholeRows, NEW d
  PROVE  Leads(d, c, ChStatements(Batch(n)), {Replay(c, pos + 1 .. n)})
  <1> DEFINE m == n - pos
             S(i) == pos + 1 .. pos + i
             X == [i \in 0..m + m |-> IF i <= m THEN Half(c, S(i), {}) ELSE Half(c, S(m), S(i - m))]
             T == ChStatements(Batch(n))
  <1>1. /\ m \in Nat /\ m >= 1
        /\ \A i \in 1..m : pos + i \in DOMAIN Records
        /\ DOMAIN Records = 1..Len(Records) /\ Len(Records) \in Nat
    BY BatchIs, RecordsAreParsed
  <1>2. /\ Len(T) = m + m
        /\ \A i \in 1..m : T[i] = <<PutHead(Rec(pos + i))>>
                        /\ T[m + i] = <<PutKids(Rec(pos + i), "a")>>
    BY ChIs
  <1> HIDE DEF T
  <1>3. ASSUME NEW i \in 0..m
        PROVE  S(i) \subseteq DOMAIN Records /\ \A j \in S(i) : Prepared(kind, Rec(j))
    BY <1>1
  <1>4. S(0) = {} /\ S(m) = pos + 1 .. n /\ 0 \in 0..m /\ m \in 0..m
    BY <1>1
  <1>5. ASSUME NEW i \in 1..m
        PROVE  /\ S(i) = S(i - 1) \cup {pos + i} /\ \A j \in S(i - 1) : j < pos + i
               /\ i - 1 \in 0..m /\ i \in 0..m /\ pos + i \in DOMAIN Records
               /\ pos + i \in S(i)
    BY <1>1
  <1>6. /\ X[0] = Half(c, S(0), {})
        /\ \A i \in 0..m : X[i] = Half(c, S(i), {})
        /\ \A i \in 0..m : X[m + i] = Half(c, S(m), S(i))
    <2>1. ASSUME NEW i \in 0..m PROVE X[i] = Half(c, S(i), {})
      <3>1. i \in 0..m + m /\ i <= m
        BY <1>1
      <3>2. QED  BY <3>1
    <2>2. ASSUME NEW i \in 0..m PROVE X[m + i] = Half(c, S(m), S(i))
      <3>1. CASE i = 0
        BY <1>1, <1>4, <2>1, <3>1
      <3>2. CASE i # 0
        <4>1. m + i \in 0..m + m /\ ~(m + i <= m) /\ (m + i) - m = i
          BY <1>1, <3>2
        <4>2. X[m + i] = Half(c, S(m), S((m + i) - m))
          BY <4>1
        <4>3. QED  BY <4>1, <4>2
      <3>3. QED  BY <3>1, <3>2
    <2>3. QED  BY <1>4, <2>1, <2>2
  <1>7. \A i \in 0..m : Half(c, S(i), {}) \in Contents /\ Half(c, S(m), S(i)) \in Contents
    <2>1. \A j \in {} : Prepared(kind, Rec(j))
      OBVIOUS
    <2> HIDE DEF S
    <2>2. QED  BY <1>3, <1>4, <2>1, HalfIs
  <1>8. X \in [0..m + m -> Contents]
    <2>1. ASSUME NEW i \in 0..m + m
          PROVE  (IF i <= m THEN Half(c, S(i), {}) ELSE Half(c, S(m), S(i - m))) \in Contents
      <3>1. CASE i <= m
        <4>1. i \in 0..m
          BY <3>1
        <4>2. QED  BY <1>7, <3>1, <4>1
      <3>2. CASE ~(i <= m)
        <4>1. i - m \in 0..m
          BY <1>1, <3>2
        <4>2. QED  BY <1>7, <3>2, <4>1
      <3>3. QED  BY <3>1, <3>2
    <2>2. QED  BY <2>1
  <1> HIDE DEF X, S
  <1>9. ASSUME NEW i \in 1..m
        PROVE  /\ LeadsTo(d, X[i - 1], T[i], {X[i]})
               /\ LeadsTo(d, X[m + (i - 1)], T[m + i], {X[m + i]})
    <2>1. /\ X[i - 1] = Half(c, S(i - 1), {}) /\ X[i] = Half(c, S(i), {})
          /\ X[m + (i - 1)] = Half(c, S(m), S(i - 1)) /\ X[m + i] = Half(c, S(m), S(i))
      BY <1>5, <1>6
    <2>2. Apply(d, Half(c, S(i - 1), {}), PutHead(Rec(pos + i))) = Half(c, S(i), {})
      BY <1>3, <1>5, HalfHead
    <2>3. Prepared(kind, Rec(pos + i))
      BY <1>3, <1>5
    <2>4. Apply(d, Half(c, S(m), S(i - 1)), PutKids(Rec(pos + i), "a")) = Half(c, S(m), S(i))
      <3>1. /\ S(m) \subseteq DOMAIN Records /\ \A j \in S(m) : Prepared(kind, Rec(j))
            /\ S(i - 1) \subseteq DOMAIN Records /\ \A j \in S(i - 1) : Prepared(kind, Rec(j))
            /\ pos + i \in DOMAIN Records /\ \A j \in S(i - 1) : j < pos + i
            /\ S(i) = S(i - 1) \cup {pos + i}
        BY <1>3, <1>4, <1>5
      <3>2. Apply(d, Half(c, S(m), S(i - 1)), PutKids(Rec(pos + i), "a"))
              = Half(c, S(m), S(i - 1) \cup {pos + i})
        BY <2>3, <3>1, HalfKids
      <3>3. QED  BY <3>1, <3>2
    <2>5. T[i] = <<PutHead(Rec(pos + i))>> /\ T[m + i] = <<PutKids(Rec(pos + i), "a")>>
      BY <1>2
    <2>6. QED  BY <2>1, <2>2, <2>4, <2>5, Through1
  <1>10. ASSUME NEW j \in 1..m + m PROVE LeadsTo(d, X[j - 1], T[j], {X[j]})
    <2>1. CASE j <= m
      <3>1. j \in 1..m
        BY <2>1
      <3>2. QED  BY <1>9, <3>1
    <2>2. CASE ~(j <= m)
      <3>1. /\ j - m \in 1..m /\ m + (j - m) = j /\ m + ((j - m) - 1) = j - 1
        BY <1>1, <2>2
      <3>2. LeadsTo(d, X[m + ((j - m) - 1)], T[m + (j - m)], {X[m + (j - m)]})
        BY <1>9, <3>1
      <3>3. QED  BY <3>1, <3>2
    <2>3. QED  BY <2>1, <2>2
  <1>11. X[0] = c /\ X[m + m] = Replay(c, S(m))
    <2>1. Half(c, {}, {}) = c /\ Half(c, S(m), S(m)) = Replay(c, S(m))
      BY <1>3, <1>4, HalfEnds
    <2>2. QED  BY <1>4, <1>6, <2>1
  <1>12. Leads(d, X[0], T, {X[m + m]})
    <2>1. m + m \in Nat
      BY <1>1
    <2>2. QED  BY <1>2, <1>8, <1>10, <2>1, ScriptsLead
  <1>13. QED  BY <1>4, <1>11, <1>12 DEF T

\* The statements of a batch, whatever its writer: they are known, and they
\* replay its records.
LEMMA StatementsReplay ==
  ASSUME kind \in Kinds, pos \in Nat, NEW n, Flushes(n),
         \A i \in pos + 1 .. n : Prepared(kind, Rec(i))
  PROVE  /\ n \in pos + 1 .. Len(Records)
         /\ Statements(Batch(n)) \in Seq(Scripts) /\ Statements(Batch(n)) # <<>>
         /\ pos + 1 .. n \subseteq DOMAIN Records
         /\ \A d : \A c \in WholeRows :
              Leads(d, c, Statements(Batch(n)), {Replay(c, pos + 1 .. n)})
  <1> DEFINE B == Batch(n)
             m == n - pos
             P == pos + 1 .. n
             T == [i \in 1..Len(B) |-> Script(kind, Rec(B[i]))]
             s == ManyRows([i \in 1..Len(B) |-> Rec(B[i])])
  <1>1. n \in pos + 1 .. Len(Records) /\ Len(Records) \in Nat
    BY RecordsAreParsed DEF Flushes
  <1>2. /\ m \in Nat /\ m >= 1 /\ Len(B) = m
        /\ \A i \in 1..m : B[i] = pos + i /\ pos + i \in DOMAIN Records
        /\ P \subseteq DOMAIN Records /\ pos + 1 \in P
    BY <1>1, BatchIs
  <1>3. \A c \in WholeRows : {Replay(c, P)} \subseteq WholeRows
    BY <1>2, ReplayIsWhole
  <1> HIDE DEF B
  <1>4. CASE kind = "ch"
    <2>1. Statements(B) = ChStatements(B)
      BY <1>4 DEF Statements
    <2>2. ChStatements(B) \in Seq(Scripts) /\ ChStatements(B) # <<>>
      <3>1. /\ ChStatements(Batch(n)) \in Seq(Scripts)
            /\ Len(ChStatements(Batch(n))) = m + m
        BY <1>1, ChIs
      <3>2. Len(ChStatements(B)) # 0
        BY <1>2, <3>1 DEF B
      <3>3. QED  BY <3>1, <3>2 DEF B
    <2>3. ASSUME NEW c \in WholeRows, NEW d PROVE Leads(d, c, ChStatements(B), {Replay(c, P)})
      BY <1>1, <1>4, ChLeads DEF B
    <2>4. QED  BY <1>1, <1>2, <2>1, <2>2, <2>3 DEF B
  <1>5. CASE kind \in {"rows", "wfnative"} /\ ~Direct(B[1])
    <2>1. Statements(B) = <<<<s>>>>
      BY <1>5 DEF Statements
    <2>2. \A i \in P : ~Erases(Rec(i))
      <3>1. \A i \in P : ~Direct(i)
        <4>1. CASE n > pos + 1
          BY <1>5, <4>1 DEF Flushes
        <4>2. CASE ~(n > pos + 1)
          <5>1. n = pos + 1 /\ B[1] = pos + 1
            BY <1>1, <1>2, <4>2
          <5>2. \A i \in P : i = B[1]
            BY <5>1
          <5>3. QED  BY <1>5, <5>2
        <4>3. QED  BY <4>1, <4>2
      <3>2. QED  BY <1>5, <3>1 DEF Direct
    <2>3. ASSUME NEW c \in WholeRows, NEW d
          PROVE  s \in Stmts /\ Apply(d, c, s) = Replay(c, P)
      BY <1>1, <1>5, <2>2, ManyWrites DEF B
    <2>4. s \in Stmts
      <3>1. NoRows \in WholeRows
        BY DEF NoRows, WholeRows, WholeEntry, NoEntry, Contents, Entries, Heads, NoHead, Children
      <3> HIDE DEF s, P
      <3>2. QED  BY <2>3, <3>1
    <2>5. <<<<s>>>> \in Seq(Scripts)
      <3>1. <<s>> \in Scripts
        BY <2>4, TuplesAreScripts
      <3> HIDE DEF s
      <3>2. QED  BY <3>1
    <2>6. ASSUME NEW c \in WholeRows, NEW d PROVE Leads(d, c, <<<<s>>>>, {Replay(c, P)})
      <3> DEFINE X == [i \in 0..1 |-> IF i = 0 THEN c ELSE Replay(c, P)]
                 U == <<<<s>>>>
      <3>1. Apply(d, c, s) \in {Replay(c, P)}
        BY <2>3
      <3> HIDE DEF s, P
      <3>2. LeadsTo(d, c, <<s>>, {Replay(c, P)})
        BY <3>1, Through1
      <3>3. c \in Contents /\ Replay(c, P) \in Contents
        BY <1>3 DEF WholeRows
      <3>4. X \in [0..1 -> Contents] /\ X[0] = c /\ X[1] = Replay(c, P)
        BY <3>3
      <3>5. Len(U) = 1 /\ U[1] = <<s>>
        OBVIOUS
      <3> HIDE DEF X, U
      <3>6. \A i \in 1..1 : LeadsTo(d, X[i - 1], U[i], {X[i]})
        BY <3>2, <3>4, <3>5
      <3>7. Leads(d, X[0], U, {X[1]})
        BY <3>4, <3>5, <3>6, ScriptsLead
      <3>8. QED  BY <3>4, <3>7 DEF U
    <2>7. QED  BY <1>1, <1>2, <2>1, <2>5, <2>6 DEF B
  <1>6. CASE kind # "ch" /\ ~(kind \in {"rows", "wfnative"} /\ ~Direct(B[1]))
    <2>1. Statements(B) = T
      BY <1>6, Zenon DEF Statements
    <2>2. \A i \in 1..m : Script(kind, Rec(B[i])) \in Scripts
      BY <1>2, RecordsAreParsed, ScriptIsKnown
    <2>3. T \in [1..m -> Scripts]
      BY <1>2, <2>2
    <2>4. T \in Seq(Scripts) /\ T # <<>>
      <3> HIDE DEF T
      <3>1. T \in Seq(Scripts) /\ Len(T) = m
        BY <1>2, <2>3, FunctionIsSequence
      <3>2. QED  BY <1>2, <3>1
    <2>5. ASSUME NEW c \in WholeRows, NEW d PROVE Leads(d, c, T, {Replay(c, P)})
      BY <1>1, OrdinaryLeads DEF B
    <2>6. QED  BY <1>1, <1>2, <2>1, <2>4, <2>5 DEF B
  <1>7. QED  BY <1>4, <1>5, <1>6

\* From whole rows to whole rows.
LEMMA StatementsLead ==
  ASSUME kind \in Kinds, pos \in Nat, NEW n, Flushes(n),
         \A i \in pos + 1 .. n : Prepared(kind, Rec(i))
  PROVE  /\ n \in pos + 1 .. Len(Records)
         /\ Statements(Batch(n)) \in Seq(Scripts)
         /\ \A d : \A c \in WholeRows : Leads(d, c, Statements(Batch(n)), WholeRows)
  <1>1. /\ n \in pos + 1 .. Len(Records) /\ pos + 1 .. n \subseteq DOMAIN Records
        /\ Statements(Batch(n)) \in Seq(Scripts)
        /\ \A d : \A c \in WholeRows :
             Leads(d, c, Statements(Batch(n)), {Replay(c, pos + 1 .. n)})
    BY StatementsReplay
  <1>2. \A c \in WholeRows : {Replay(c, pos + 1 .. n)} \subseteq WholeRows
    BY <1>1, ReplayIsWhole
  <1>3. ASSUME NEW c \in WholeRows, NEW d
        PROVE  Leads(d, c, Statements(Batch(n)), WholeRows)
    BY <1>1, <1>2, LeadsFurther, Zenon
  <1>4. QED  BY <1>1, <1>3

\* A record of its own.
LEMMA ScriptReplays ==
  ASSUME kind \in Kinds, NEW i \in DOMAIN Records, Prepared(kind, Rec(i)),
         NEW c \in WholeRows, NEW d
  PROVE  LET w == Put(c, Rec(i).key, Told(Rec(i)))
         IN w \in WholeRows /\ Leads(d, c, <<Script(kind, Rec(i))>>, {w})
  <1> DEFINE w == Put(c, Rec(i).key, Told(Rec(i)))
             X == [j \in 0..1 |-> IF j = 0 THEN c ELSE w]
             U == <<Script(kind, Rec(i))>>
  <1>1. c \in Contents /\ w = Replay(c, {i})
    <2>1. c \in Contents /\ Replay(c, {}) = c
      BY ReplayNothing DEF WholeRows
    <2>2. {} \subseteq DOMAIN Records /\ {} \cup {i} = {i} /\ \A j \in {} : j < i
      OBVIOUS
    <2>3. Replay(c, {} \cup {i}) = Put(Replay(c, {}), Rec(i).key, Told(Rec(i)))
      BY <2>1, <2>2, ReplayAnother
    <2>4. QED  BY <2>1, <2>2, <2>3
  <1>2. w \in WholeRows /\ w \in Contents
    BY <1>1, ReplayIsWhole DEF WholeRows
  <1>3. LeadsTo(d, c, Script(kind, Rec(i)), {w})
    BY ScriptWrites
  <1> HIDE DEF w
  <1>4. X \in [0..1 -> Contents] /\ X[0] = c /\ X[1] = w
    BY <1>1, <1>2
  <1>5. Len(U) = 1 /\ U[1] = Script(kind, Rec(i))
    OBVIOUS
  <1> HIDE DEF X, U
  <1>6. \A j \in 1..1 : LeadsTo(d, X[j - 1], U[j], {X[j]})
    BY <1>3, <1>4, <1>5
  <1>7. Leads(d, X[0], U, {X[1]})
    BY <1>4, <1>5, <1>6, ScriptsLead
  <1>8. QED  BY <1>2, <1>4, <1>7 DEF U, w

LEMMA ScriptLeads ==
  ASSUME kind \in Kinds, NEW i \in DOMAIN Records, Prepared(kind, Rec(i)),
         NEW c \in WholeRows, NEW d
  PROVE  Leads(d, c, <<Script(kind, Rec(i))>>, WholeRows)
  <1> DEFINE w == Put(c, Rec(i).key, Told(Rec(i)))
  <1>1. {w} \subseteq WholeRows /\ Leads(d, c, <<Script(kind, Rec(i))>>, {w})
    BY ScriptReplays
  <1> HIDE DEF w
  <1>2. QED  BY <1>1, LeadsFurther

-----------------------------------------------------------------------------
\* A dual transaction is one in both databases.
Transacted(k) == k.dual /\ k.active => InTransaction(k.p) /\ InTransaction(k.s)

\* What is durable is left alone, and what is seen is as it was or forgotten.
Spares(hd, k) ==
  /\ k.dual = hd.dual /\ Durable(hd.p, k.p) /\ k.p.seen \in {hd.p.seen, hd.p.store}
  /\ (k.p.open => hd.p.open) /\ (k.sync => hd.sync)
  /\ Durable(hd.s, k.s) /\ k.s.seen \in {hd.s.seen, hd.s.store}
  /\ Transacted(hd) => Transacted(k)

LEMMA SparesItself == ASSUME NEW k PROVE Spares(k, k)
  BY DEF Spares, Durable

LEMMA SparesTwice ==
  ASSUME NEW a, NEW b, NEW c, Spares(a, b), Spares(b, c)
  PROVE  Spares(a, c)
  BY DEF Spares, Durable

LEMMA UndoSpares ==
  ASSUME NEW a, NEW b, Undoes(a, b)
  PROVE  Spares(a, b)
  BY DEF Spares, Undoes, Durable, Transacted

LEMMA BeginSpares ==
  ASSUME NEW C, NEW a \in HandlesOf(C), NEW b \in HandlesOf(C), NEW ok \in BOOLEAN,
         BeginsHandle(C, a, b, ok)
  PROVE  /\ Spares(a, b) /\ (ok => is_transaction_active(b))
         /\ ok /\ a.p.open => b.p.open /\ b.p.seen = a.p.seen /\ (a.dual => b.s.seen = a.s.seen)
         /\ ok => b.p.failed = a.p.failed /\ (a.dual => b.s.failed = a.s.failed)
  <1>1. CASE is_transaction_active(a)
    BY <1>1, SparesItself DEF BeginsHandle
  <1>2. CASE ~is_transaction_active(a)
    <2>1. CASE /\ ok /\ BeginsTo(a.p, b.p, TRUE) /\ b.active = a.dual /\ b.sync = a.sync
               /\ IF a.dual THEN BeginsTo(a.s, b.s, TRUE) ELSE b.s = a.s
      BY <1>2, <2>1 DEF BeginsHandle, BeginsTo, Spares, Durable, Transacted, InTransaction,
                        is_transaction_active
    <2>2. CASE ~ok /\ BeginsTo(a.p, b.p, FALSE) /\ Kept(a, b)
      BY <1>2, <2>2 DEF BeginsHandle, BeginsTo, Spares, Durable, Transacted, InTransaction, Kept,
                        is_transaction_active
    <2>3. CASE /\ ~ok /\ a.dual /\ BeginsTo(a.s, b.s, FALSE) /\ b.active = a.active /\ ~b.sync
               /\ \E x \in Sessions(C), q \in BOOLEAN :
                    BeginsTo(a.p, x, TRUE) /\ RollsBackTo(x, b.p, q)
      BY <1>2, <2>3 DEF BeginsHandle, BeginsTo, RollsBackTo, Spares, Durable, Transacted,
                        is_transaction_active
    <2>4. QED  BY <1>2, <2>1, <2>2, <2>3 DEF BeginsHandle
  <1>3. QED  BY <1>1, <1>2

LEMMA CommitTransacted ==
  ASSUME NEW a, NEW b, NEW ok \in BOOLEAN, CommitsHandle(a, b, ok), Transacted(a)
  PROVE  Transacted(b)
  BY DEF CommitsHandle, CommitsTo, Kept, Transacted, InTransaction

LEMMA ExecuteTransacted ==
  ASSUME NEW a, NEW b, NEW s, NEW ok \in BOOLEAN, ExecutesHandle(a, s, b, ok), Transacted(a)
  PROVE  /\ Transacted(b)
         /\ ok => (is_transaction_active(a) <=> is_transaction_active(b))
  BY DEF ExecutesHandle, ExecutesTo, Kept, Transacted, InTransaction, is_transaction_active

\* A statement in a transaction leaves what is durable alone.
LEMMA ExecuteWaits ==
  ASSUME NEW a, NEW b, NEW s, NEW ok \in BOOLEAN, ExecutesHandle(a, s, b, ok), Transacted(a),
         is_transaction_active(a)
  PROVE  b.p.store = a.p.store /\ b.s.store = a.s.store
  BY DEF ExecutesHandle, ExecutesTo, Kept, Transacted, InTransaction, is_transaction_active

-----------------------------------------------------------------------------
Phases == {"idle", "loop", "write", "undo", "each", "retry", "unretry", "over", "out"}
Retries == {"each", "retry", "unretry"}

\* The records of the batch are records of the stream, and were prepared.
BatchInv ==
  /\ pos \in 0..Len(Records)
  /\ batch \in Seq(DOMAIN Records)
  /\ \A i \in DOMAIN batch : Prepared(kind, Rec(batch[i]))
  /\ ~DirectBatch => \A i \in DOMAIN batch : ~Direct(batch[i])
  /\ phase \in Retries \cup {"write", "undo"} => batch # <<>>
  /\ at \in Nat /\ (phase \in Retries => at >= 1)
  /\ phase \in {"retry", "unretry"} => at <= Len(batch)

TypeInv ==
  /\ h \in HandlesOf(Contents)
  /\ importer \in {"plain", "optimized"} /\ kind \in Kinds /\ auto \in BOOLEAN
  /\ single \in BOOLEAN /\ phase \in Phases /\ raised \in BOOLEAN
  /\ generic \in BOOLEAN /\ stuck \in BOOLEAN /\ carried \in BOOLEAN
  /\ todo \in Seq(Scripts) /\ base \in Contents

\* The transaction of the writer or of its caller covers what is written, unless
\* it is one statement of a writer that has none.
Light == (phase = "write" /\ ~Coupled) \/ (phase = "retry" /\ generic)

FlowInv ==
  /\ phase # "out" => Transacted(h)
  /\ ~auto => phase \notin Retries
  /\ ~auto /\ (phase = "write" \/ (phase = "loop" /\ ~single)) => is_transaction_active(h)
  /\ phase \in {"write", "retry"} /\ ~Light => is_transaction_active(h)
  /\ phase \in Retries =>
       IF generic THEN kind \in {"rows", "ck"} /\ ~DirectBatch ELSE Retrying

LEMMA StartHandle ==
  ASSUME h \in HandlesOf(Contents), Start
  PROVE  /\ h' \in HandlesOf(Contents) /\ phase' \in {"loop", "over"}
         /\ auto => h' = h /\ phase' = "loop"
         /\ ~auto => BeginsHandle(Contents, h, h', phase' = "loop")
         /\ phase' = "over" => raised' = TRUE
  <1>1. CASE auto
    BY <1>1 DEF Start, Ok
  <1>2. CASE ~auto
    <2>1. PICK o \in Begin(h) : /\ h' = o.db /\ raised' = ~o.ok
                           /\ phase' = IF o.ok THEN "loop" ELSE "over"
      BY <1>2 DEF Start
    <2>2. o \in Results(Contents) /\ BeginsHandle(Contents, h, o.db, o.ok)
      BY BeginIs
    <2>3. o.ok \in BOOLEAN /\ h' \in HandlesOf(Contents)
      BY <2>1, <2>2, FieldsOfResults
    <2>4. o.ok = (phase' = "loop") /\ phase' \in {"loop", "over"}
      BY <2>1, <2>3
    <2>5. QED  BY <1>2, <2>1, <2>2, <2>3, <2>4
  <1>3. QED  BY <1>1, <1>2

LEMMA BeginSingleHandle ==
  ASSUME h \in HandlesOf(Contents), BeginSingle
  PROVE  /\ h' \in HandlesOf(Contents) /\ phase' \in {"loop", "over"}
         /\ BeginsHandle(Contents, h, h', phase' = "loop")
         /\ IF phase' = "loop" THEN raised' = raised ELSE raised' = TRUE
  <1>1. PICK o \in Begin(h) :
          h' = o.db /\ IF o.ok THEN UNCHANGED <<phase, raised>> ELSE End(TRUE)
    BY DEF BeginSingle
  <1>2. o \in Results(Contents) /\ BeginsHandle(Contents, h, o.db, o.ok)
    BY BeginIs
  <1>3. o.ok \in BOOLEAN /\ h' \in HandlesOf(Contents)
    BY <1>1, <1>2, FieldsOfResults
  <1>4. /\ o.ok = (phase' = "loop") /\ phase' \in {"loop", "over"}
        /\ IF o.ok THEN raised' = raised ELSE raised' = TRUE
    BY <1>1, <1>3 DEF BeginSingle, End
  <1>5. QED  BY <1>1, <1>2, <1>3, <1>4

\* A writer with a transaction of its own begins it under auto_commit.
Owns(n) == auto /\ kind # "rows" /\ ~Direct(n)

LEMMA TakeHandle ==
  ASSUME h \in HandlesOf(Contents), NEW n, Take(n)
  PROVE  /\ h' \in HandlesOf(Contents) /\ phase' \in {"write", "undo"}
         /\ ~Owns(n) => h' = h /\ phase' = "write"
         /\ Owns(n) => BeginsHandle(Contents, h, h', phase' = "write")
  <1>1. CASE ~Owns(n)
    BY <1>1 DEF Take, Ok, Owns
  <1>2. CASE Owns(n)
    <2>1. PICK o \in Begin(h) : h' = o.db /\ phase' = IF o.ok THEN "write" ELSE "undo"
      BY <1>2 DEF Take, Owns
    <2>2. o \in Results(Contents) /\ BeginsHandle(Contents, h, o.db, o.ok)
      BY BeginIs
    <2>3. o.ok \in BOOLEAN /\ h' \in HandlesOf(Contents)
      BY <2>1, <2>2, FieldsOfResults
    <2>4. o.ok = (phase' = "write") /\ phase' \in {"write", "undo"}
      BY <2>1, <2>3
    <2>5. QED  BY <1>2, <2>1, <2>2, <2>3, <2>4
  <1>3. QED  BY <1>1, <1>2

LEMMA EachHandle ==
  ASSUME h \in HandlesOf(Contents), Each
  PROVE  /\ h' \in HandlesOf(Contents) /\ phase' \in {"retry", "unretry"}
         /\ generic => h' = h /\ phase' = "retry"
         /\ ~generic => BeginsHandle(Contents, h, h', phase' = "retry")
  <1>1. CASE generic
    BY <1>1 DEF Each, Ok
  <1>2. CASE ~generic
    <2>1. PICK o \in Begin(h) : h' = o.db /\ phase' = IF o.ok THEN "retry" ELSE "unretry"
      BY <1>2 DEF Each
    <2>2. o \in Results(Contents) /\ BeginsHandle(Contents, h, o.db, o.ok)
      BY BeginIs
    <2>3. o.ok \in BOOLEAN /\ h' \in HandlesOf(Contents)
      BY <2>1, <2>2, FieldsOfResults
    <2>4. o.ok = (phase' = "retry") /\ phase' \in {"retry", "unretry"}
      BY <2>1, <2>3
    <2>5. QED  BY <1>2, <2>1, <2>2, <2>3, <2>4
  <1>3. QED  BY <1>1, <1>2

LEMMA CurrentIs ==
  ASSUME todo \in Seq(Scripts), todo # <<>>
  PROVE  Current \in Stmts /\ Remaining \in Seq(Scripts)
  <1>1. Head(todo) \in Scripts /\ Tail(todo) \in Seq(Scripts)
    BY HeadTailProperties
  <1>2. Head(todo) \in Seq(Stmts) /\ Head(todo) # <<>>
    BY <1>1 DEF Scripts
  <1>3. /\ Head(Head(todo)) \in Stmts /\ Tail(Head(todo)) \in Seq(Stmts)
        /\ Len(Head(todo)) \in Nat
        /\ Len(Tail(Head(todo))) = Len(Head(todo)) - 1 /\ Len(Head(todo)) # 0
    BY <1>2, HeadTailProperties, EmptySeq, LenProperties
  <1>4. CASE Len(Head(todo)) = 1
    BY <1>1, <1>3, <1>4 DEF Current, Remaining
  <1>5. CASE Len(Head(todo)) # 1
    <2>1. Tail(Head(todo)) # <<>>
      <3>1. Len(Tail(Head(todo))) # 0
        BY <1>3, <1>5
      <3>2. Tail(Head(todo)) \in Seq(Stmts)
        BY <1>3
      <3>3. QED  BY <3>1, <3>2, EmptySeq, Zenon
    <2>2. Tail(Head(todo)) \in Scripts
      BY <1>3, <2>1 DEF Scripts
    <2>3. <<Tail(Head(todo))>> \in Seq(Scripts)
      BY <2>2
    <2>4. <<Tail(Head(todo))>> \o Tail(todo) \in Seq(Scripts)
      BY <1>1, <2>3, ConcatProperties
    <2>5. QED  BY <1>3, <1>5, <2>4 DEF Current, Remaining
  <1>6. QED  BY <1>4, <1>5

LEMMA StepHandle ==
  ASSUME h \in HandlesOf(Contents), todo \in Seq(Scripts), Step
  PROVE  /\ h' \in HandlesOf(Contents)
         /\ phase' = phase \/ (phase = "write" /\ phase' = "undo")
                           \/ (phase = "retry" /\ phase' = "unretry")
         /\ ExecutesHandle(h, Current, h', phase' = phase)
         /\ todo' = IF phase' = phase THEN Remaining ELSE todo
  <1>1. Current \in Stmts /\ phase \in {"write", "retry"}
    BY CurrentIs DEF Step
  <1>2. Applies(Contents, h.p, Current) /\ Applies(Contents, h.s, Current)
    <2>1. h.p \in Sessions(Contents) /\ h.s \in Sessions(Contents)
      BY FieldsOfHandles
    <2>2. h.p.seen \in Contents /\ h.s.seen \in Contents
      BY <2>1 DEF Sessions, SessionRecords
    <2>3. QED  BY <1>1, <2>2, StatementApplies DEF Applies
  <1>3. PICK o \in (IF Current.do \in {"many", "head", "open", "kids"} THEN InsertMany(h, Current)
                    ELSE Execute(h, Current)) :
          /\ h' = o.db
          /\ todo' = IF o.ok THEN Remaining ELSE todo
          /\ phase' = IF o.ok THEN phase ELSE IF phase = "write" THEN "undo" ELSE "unretry"
    BY DEF Step
  <1>4. o \in Results(Contents) /\ ExecutesHandle(h, Current, o.db, o.ok)
    BY <1>2, <1>3, ExecutesIs, InsertsIs
  <1>5. o.ok \in BOOLEAN /\ h' \in HandlesOf(Contents)
    BY <1>3, <1>4, FieldsOfResults
  <1>6. o.ok = (phase' = phase)
    BY <1>1, <1>3, <1>5
  <1>7. QED  BY <1>1, <1>3, <1>4, <1>5, <1>6

LEMMA FinishHandle ==
  ASSUME h \in HandlesOf(Contents), Finish
  PROVE  /\ h' \in HandlesOf(Contents) /\ phase' \in {"loop", "undo"}
         /\ ~auto => h' = h /\ phase' = "loop"
         /\ auto => CommitsHandle(h, h', phase' = "loop")
  <1>1. CASE ~auto
    BY <1>1 DEF Finish, Ok
  <1>2. CASE auto
    <2>1. PICK o \in Commit(h) : h' = o.db /\ phase' = IF o.ok THEN "loop" ELSE "undo"
      BY <1>2 DEF Finish
    <2>2. o \in Results(Contents) /\ CommitsHandle(h, o.db, o.ok)
      BY CommitIs
    <2>3. o.ok \in BOOLEAN /\ h' \in HandlesOf(Contents)
      BY <2>1, <2>2, FieldsOfResults
    <2>4. o.ok = (phase' = "loop") /\ phase' \in {"loop", "undo"}
      BY <2>1, <2>3
    <2>5. QED  BY <1>2, <2>1, <2>2, <2>3, <2>4
  <1>3. QED  BY <1>1, <1>2

LEMMA RetriedHandle ==
  ASSUME h \in HandlesOf(Contents), Retried
  PROVE  /\ h' \in HandlesOf(Contents) /\ phase' \in {"each", "unretry"}
         /\ CommitsHandle(h, h', phase' = "each")
  <1>1. PICK o \in Commit(h) : h' = o.db /\ phase' = IF o.ok THEN "each" ELSE "unretry"
    BY DEF Retried
  <1>2. o \in Results(Contents) /\ CommitsHandle(h, o.db, o.ok)
    BY CommitIs
  <1>3. o.ok \in BOOLEAN /\ h' \in HandlesOf(Contents)
    BY <1>1, <1>2, FieldsOfResults
  <1>4. o.ok = (phase' = "each") /\ phase' \in {"each", "unretry"}
    BY <1>1, <1>3
  <1>5. QED  BY <1>1, <1>2, <1>3, <1>4

LEMMA CallerCommitsHandle ==
  ASSUME h \in HandlesOf(Contents), CallerCommits
  PROVE  /\ h' \in HandlesOf(Contents) /\ raised' \in BOOLEAN
         /\ CommitsHandle(h, h', ~raised')
  <1>1. PICK o \in Commit(h) : h' = o.db /\ raised' = ~o.ok
    BY DEF CallerCommits
  <1>2. o \in Results(Contents) /\ CommitsHandle(h, o.db, o.ok)
    BY CommitIs
  <1>3. o.ok \in BOOLEAN /\ h' \in HandlesOf(Contents)
    BY <1>1, <1>2, FieldsOfResults
  <1>4. o.ok = ~raised'
    BY <1>1, <1>3
  <1>5. QED  BY <1>1, <1>2, <1>3, <1>4

\* The writers undo what they wrote.
Undone(k) == Clean(k) \/ ~k.p.open

\* The writer's handler had something to undo.
Wrote == Coupled /\ (todo # <<>> \/ kind # "snapshot")

LEMMA WriterSpares ==
  ASSUME h \in HandlesOf(Contents), NEW o \in WriterUndo(h)
  PROVE  /\ o \in Results(Contents) /\ o.db \in HandlesOf(Contents) /\ o.ok \in BOOLEAN
         /\ Spares(h, o.db)
         /\ Wrote /\ ~Stuck(o) => Undone(o.db)
         /\ Wrote /\ o.ok => Clean(o.db)
         /\ Wrote => UndoesAll(h, o.db, o.ok)
         /\ ~Coupled => o.db = h /\ o.ok
  <1>1. /\ o \in Results(Contents) /\ (~Coupled => o.db = h /\ o.ok)
        /\ Coupled => Undoes(h, o.db)
        /\ Wrote => UndoesAll(h, o.db, o.ok)
    BY WriterUndoIs DEF Wrote
  <1>2. Spares(h, o.db)
    BY <1>1, SparesItself, UndoSpares
  <1>3. QED  BY <1>1, <1>2, FieldsOfResults DEF UndoesAll, Stuck, Undone, is_connected

LEMMA PendingSpares ==
  ASSUME NEW g \in HandlesOf(Contents), NEW p \in RollbackPendingOrRaise(g)
  PROVE  /\ p \in Results(Contents) /\ p.db \in HandlesOf(Contents) /\ p.ok \in BOOLEAN
         /\ Spares(g, p.db) /\ (~Stuck(p) => Undone(p.db))
         /\ p.ok => Clean(p.db) /\ Calm(p.db)
         /\ p.db.p.open => g.p.open
  BY RollbackPendingOrRaiseIs, FieldsOfResults, UndoSpares
     DEF UndoesAll, Undoes, Stuck, Undone, is_connected

LEMMA FailedSpares ==
  ASSUME NEW g \in HandlesOf(Contents), NEW p \in RollbackFailedImport(g)
  PROVE  /\ p \in Results(Contents) /\ p.db \in HandlesOf(Contents) /\ p.ok \in BOOLEAN
         /\ Spares(g, p.db) /\ (~Stuck(p) => Undone(p.db)) /\ (p.ok => Calm(p.db))
  BY RollbackFailedImportIs, FieldsOfResults, UndoSpares
     DEF UndoesAll, Undoes, Stuck, Undone, is_connected

LEMMA UndoAndRetryHandle ==
  ASSUME h \in HandlesOf(Contents), kind \in Kinds, UndoAndRetry
  PROVE  /\ h' \in HandlesOf(Contents) /\ Spares(h, h')
         /\ Retrying /\ Undone(h') /\ Calm(h')
  <1>1. PICK o \in WriterUndo(h) : o.ok /\ h' = o.db
    BY DEF UndoAndRetry
  <1>2. Retrying /\ Wrote /\ o \in RollbackOrInvalidate(h)
    <2>1. kind \in {"ch", "ks", "ck"}
      BY DEF UndoAndRetry, MayRetry, Retrying
    <2>2. Coupled
      BY <2>1 DEF Coupled, DirectBatch, Direct
    <2>3. WriterUndo(h) = RollbackOrInvalidate(h)
      BY <2>1, <2>2 DEF WriterUndo
    <2>4. QED  BY <2>1, <2>2, <2>3 DEF Retrying, Wrote
  <1>3. Calm(o.db)
    BY <1>1, <1>2, RollbackOrInvalidateIs
  <1>4. QED  BY <1>1, <1>2, <1>3, WriterSpares DEF Undone

\* AutoUndo ends the import or goes on to the generic fallback.
LEMMA AutoUndoHandle ==
  ASSUME h \in HandlesOf(Contents), AutoUndo
  PROVE  /\ h' \in HandlesOf(Contents) /\ Spares(h, h') /\ phase' \in {"each", "over"}
         /\ stuck' \in BOOLEAN /\ (~stuck' => ~stuck)
         /\ (Wrote \/ FallsBack) /\ ~stuck' => Undone(h')
         /\ phase' = "each" => /\ FallsBack /\ generic' = TRUE /\ at' = 1
                               /\ Clean(h') /\ Calm(h')
         /\ phase' = "each" /\ kind = "ck" /\ auto /\ ~stuck' => ~h'.p.open
         /\ phase' = "over" => UNCHANGED <<generic, at>> /\ raised' = TRUE
         /\ batch' = batch
  <1>1. PICK o \in WriterRaises :
         IF FallsBack
           THEN \E p \in RollbackPendingOrRaise(o.db) :
                  /\ Spent([p EXCEPT !.faults = @ + o.faults]) /\ h' = p.db
                  /\ stuck' = (stuck \/ Stuck(o) \/ Stuck(p))
                  /\ IF p.ok THEN Continue(batch) /\ generic' = TRUE
                     ELSE End(TRUE) /\ UNCHANGED <<batch, at, generic>>
         ELSE /\ Spent(o) /\ h' = o.db /\ stuck' = (stuck \/ Stuck(o))
              /\ End(TRUE) /\ UNCHANGED <<batch, at, generic>>
    BY DEF AutoUndo
  <1>2. o \in WriterUndo(h) /\ ~(o.ok /\ MayRetry)
    BY DEF WriterRaises
  <1>3. /\ o \in Results(Contents) /\ o.db \in HandlesOf(Contents) /\ o.ok \in BOOLEAN
        /\ Spares(h, o.db)
        /\ Wrote /\ ~Stuck(o) => Undone(o.db)
    BY <1>2, WriterSpares
  <1>4. CASE FallsBack
    <2>1. PICK p \in RollbackPendingOrRaise(o.db) :
            /\ h' = p.db
            /\ stuck' = (stuck \/ Stuck(o) \/ Stuck(p))
            /\ IF p.ok THEN Continue(batch) /\ generic' = TRUE
               ELSE End(TRUE) /\ UNCHANGED <<batch, at, generic>>
      BY <1>1, <1>4
    <2>2. /\ p \in Results(Contents) /\ p.db \in HandlesOf(Contents) /\ p.ok \in BOOLEAN
          /\ Spares(o.db, p.db) /\ (~Stuck(p) => Undone(p.db))
          /\ p.ok => Clean(p.db) /\ Calm(p.db)
          /\ p.db.p.open => o.db.p.open
      BY <1>3, PendingSpares
    <2>3. Spares(h, h')
      BY <1>3, <2>1, <2>2, SparesTwice
    <2>4. kind = "ck" /\ auto /\ ~stuck' => ~h'.p.open
      BY <1>2, <2>1, <2>2 DEF MayRetry, Retrying, Stuck, is_connected
    <2>5. QED
      BY <1>4, <2>1, <2>2, <2>3, <2>4 DEF Continue, End, Stuck
  <1>5. CASE ~FallsBack
    BY <1>1, <1>3, <1>5 DEF End, Stuck
  <1>6. QED  BY <1>4, <1>5

\* The import that does not own the commit, and the single record.
LEMMA OwnedUndoHandle ==
  ASSUME h \in HandlesOf(Contents), OwnedUndo
  PROVE  /\ h' \in HandlesOf(Contents) /\ Spares(h, h') /\ phase' = "over" /\ raised' = TRUE
         /\ stuck' \in BOOLEAN /\ (~stuck' => ~stuck /\ Undone(h'))
  <1>1. PICK o \in WriterRaises :
         \E p \in (IF Unrecovered(o) THEN {Err(o.db, 0)} ELSE RollbackFailedImport(o.db)) :
           h' = p.db /\ stuck' = (stuck \/ Stuck(p))
    BY DEF OwnedUndo
  <1>2. PICK p \in (IF Unrecovered(o) THEN {Err(o.db, 0)} ELSE RollbackFailedImport(o.db)) :
           h' = p.db /\ stuck' = (stuck \/ Stuck(p))
    BY <1>1
  <1>3. o \in WriterUndo(h)
    BY DEF WriterRaises
  <1>4. o.db \in HandlesOf(Contents) /\ Spares(h, o.db)
    BY <1>3, WriterSpares
  <1>5. CASE Unrecovered(o)
    <2>1. p.db = o.db /\ ~p.ok
      BY <1>2, <1>5 DEF Err
    <2>2. phase' = "over" /\ raised' = TRUE
      BY DEF OwnedUndo, End
    <2>3. QED  BY <1>2, <1>4, <2>1, <2>2 DEF Stuck, Undone, is_connected
  <1>6. CASE ~Unrecovered(o)
    <2>1. p.db \in HandlesOf(Contents) /\ Spares(o.db, p.db) /\ (~Stuck(p) => Undone(p.db))
      BY <1>2, <1>4, <1>6, FailedSpares
    <2>2. QED  BY <1>2, <1>4, <2>1, SparesTwice DEF Stuck, OwnedUndo, End
  <1>7. QED  BY <1>5, <1>6

LEMMA SingleUndoHandle ==
  ASSUME h \in HandlesOf(Contents), SingleUndo
  PROVE  /\ h' \in HandlesOf(Contents) /\ Spares(h, h') /\ phase' \in {"loop", "over"}
         /\ stuck' \in BOOLEAN /\ (~stuck' => ~stuck)
         /\ (Wrote \/ ~auto) /\ ~stuck' => Undone(h')
         /\ phase' = "loop" /\ ~auto => Calm(h')
         /\ phase' = "over" => raised' = TRUE
         /\ single
  <1>1. PICK o \in WriterRaises :
         \E p \in (IF Unrecovered(o) THEN {Err(o.db, 0)}
                  ELSE IF auto THEN {Ok(o.db, 0)} ELSE RollbackFailedImport(o.db)) :
           /\ h' = p.db
           /\ IF p.ok THEN phase' = "loop" ELSE phase' = "over" /\ raised' = TRUE
           /\ stuck' = (stuck \/ Stuck(IF auto THEN o ELSE p))
    BY DEF SingleUndo, End
  <1>2. PICK p \in (IF Unrecovered(o) THEN {Err(o.db, 0)}
                    ELSE IF auto THEN {Ok(o.db, 0)} ELSE RollbackFailedImport(o.db)) :
           /\ h' = p.db
           /\ IF p.ok THEN phase' = "loop" ELSE phase' = "over" /\ raised' = TRUE
           /\ stuck' = (stuck \/ Stuck(IF auto THEN o ELSE p))
    BY <1>1
  <1>3. o \in WriterUndo(h) /\ single
    BY DEF WriterRaises, SingleUndo
  <1>4. /\ o.db \in HandlesOf(Contents) /\ Spares(h, o.db) /\ o.ok \in BOOLEAN
        /\ Wrote /\ ~Stuck(o) => Undone(o.db)
    BY <1>3, WriterSpares
  <1>5. CASE Unrecovered(o)
    <2>1. p.db = o.db /\ ~p.ok
      BY <1>2, <1>5 DEF Err
    <2>2. ~o.ok
      BY <1>5 DEF Unrecovered
    <2>3. ~stuck' => ~stuck /\ ~h'.p.open
      BY <1>2, <2>1, <2>2 DEF Stuck, is_connected
    <2>4. QED  BY <1>2, <1>3, <1>4, <2>1, <2>3 DEF Undone
  <1>6. CASE ~Unrecovered(o) /\ auto
    <2>1. p.db = o.db
      BY <1>2, <1>6 DEF Ok
    <2>2. stuck' = (stuck \/ Stuck(o))
      BY <1>2, <1>6
    <2>3. QED  BY <1>2, <1>3, <1>4, <1>6, <2>1, <2>2
  <1>7. CASE ~Unrecovered(o) /\ ~auto
    <2>1. /\ p.db \in HandlesOf(Contents) /\ Spares(o.db, p.db) /\ (~Stuck(p) => Undone(p.db))
          /\ p.ok => Calm(p.db)
      BY <1>2, <1>4, <1>7, FailedSpares
    <2>2. stuck' = (stuck \/ Stuck(p))
      BY <1>2, <1>7
    <2>3. Spares(h, p.db)
      BY <1>4, <2>1, SparesTwice
    <2>4. QED  BY <1>2, <1>3, <1>7, <2>1, <2>2, <2>3
  <1>8. QED  BY <1>5, <1>6, <1>7

LEMMA RetryUndoSpares ==
  ASSUME h \in HandlesOf(Contents), NEW o \in RetryUndo
  PROVE  /\ o \in Results(Contents) /\ o.db \in HandlesOf(Contents) /\ o.ok \in BOOLEAN
         /\ Spares(h, o.db) /\ (~Stuck(o) => Undone(o.db))
         /\ o.ok => Clean(o.db) /\ Calm(o.db)
         /\ o.db.p.open => h.p.open
  <1>1. CASE generic
    BY <1>1, PendingSpares DEF RetryUndo
  <1>2. CASE ~generic
    BY <1>2, RollbackOrInvalidateIs, FieldsOfResults, UndoSpares
       DEF RetryUndo, UndoesAll, Undoes, Stuck, Undone, is_connected
  <1>3. QED  BY <1>1, <1>2

LEMMA RetryFailsHandle ==
  ASSUME h \in HandlesOf(Contents), RetryFails
  PROVE  /\ h' \in HandlesOf(Contents) /\ Spares(h, h') /\ Clean(h') /\ Calm(h')
         /\ h'.p.open => h.p.open
  <1>1. PICK o \in RetryUndo : o.ok /\ h' = o.db
    BY DEF RetryFails
  <1>2. QED  BY <1>1, RetryUndoSpares

LEMMA RetryRaisesHandle ==
  ASSUME h \in HandlesOf(Contents), RetryRaises
  PROVE  /\ h' \in HandlesOf(Contents) /\ Spares(h, h')
         /\ phase' \in {"each", "loop", "over"}
         /\ stuck' \in BOOLEAN /\ (~stuck' => ~stuck /\ Undone(h'))
         /\ phase' = "each" => /\ FallsBack /\ ~generic /\ generic' = TRUE /\ at' = 1
                               /\ ~stuck' => ~h'.p.open
         /\ phase' = "loop" => single
         /\ phase' = "over" => raised' = TRUE
         /\ phase' # "each" => UNCHANGED <<generic, at>>
         /\ batch' = batch
  <1>1. PICK o \in RetryUndo :
         /\ ~o.ok
         /\ IF FallsBack /\ ~generic /\ ~single
              THEN \E p \in RollbackPendingOrRaise(o.db) :
                     /\ h' = p.db
                     /\ stuck' = (stuck \/ Stuck(o) \/ Stuck(p))
                     /\ IF p.ok THEN Continue(batch) /\ generic' = TRUE
                        ELSE End(TRUE) /\ UNCHANGED <<batch, at, generic>>
            ELSE /\ h' = o.db /\ UNCHANGED <<batch, at, generic>>
                 /\ stuck' = (stuck \/ Stuck(o))
                 /\ IF single THEN phase' = "loop" ELSE phase' = "over" /\ raised' = TRUE
    BY DEF RetryRaises, End
  <1>2. /\ o \in Results(Contents) /\ o.db \in HandlesOf(Contents) /\ o.ok \in BOOLEAN
        /\ Spares(h, o.db) /\ (~Stuck(o) => Undone(o.db))
    BY RetryUndoSpares
  <1>3. CASE FallsBack /\ ~generic /\ ~single
    <2>1. PICK p \in RollbackPendingOrRaise(o.db) :
            /\ h' = p.db
            /\ stuck' = (stuck \/ Stuck(o) \/ Stuck(p))
            /\ IF p.ok THEN Continue(batch) /\ generic' = TRUE
               ELSE End(TRUE) /\ UNCHANGED <<batch, at, generic>>
      BY <1>1, <1>3
    <2>2. /\ p \in Results(Contents) /\ p.db \in HandlesOf(Contents) /\ p.ok \in BOOLEAN
          /\ Spares(o.db, p.db) /\ (~Stuck(p) => Undone(p.db))
          /\ p.db.p.open => o.db.p.open
      BY <1>2, PendingSpares
    <2>3. Spares(h, h')
      BY <1>2, <2>1, <2>2, SparesTwice
    <2>4. ~Stuck(o) => ~h'.p.open
      BY <1>1, <2>1, <2>2 DEF Stuck, is_connected
    <2>5. QED
      BY <1>3, <2>1, <2>2, <2>3, <2>4 DEF Continue, End, Stuck
  <1>4. CASE ~(FallsBack /\ ~generic /\ ~single)
    BY <1>1, <1>2, <1>4 DEF Stuck
  <1>5. QED  BY <1>3, <1>4

\* A malformed record is refused: what had begun is undone.
LEMMA RefuseUndoSpares ==
  ASSUME h \in HandlesOf(Contents), NEW o \in RefuseUndo(h)
  PROVE  o \in Results(Contents) /\ Spares(h, o.db)
  <1> DEFINE More(S, p) == \E q \in S : p = q
             B == IF auto THEN Begin(h) ELSE {Ok(h, 0)}
             Again(q) == {[p EXCEPT !.faults = @ + q.faults] : p \in RollbackOrInvalidate(q.db)}
             Failed(q) == {[p EXCEPT !.faults = @ + q.faults] : p \in RollbackFailedImport(q.db)}
             U == IF kind \notin Split THEN {Ok(h, 0)} ELSE UNION {Again(q) : q \in B}
             V == IF auto THEN U ELSE UNION {Failed(q) : q \in U}
             Good(q) == q \in Results(Contents) /\ Spares(h, q.db)
  <1>1. RefuseUndo(h) = V
    BY Zenon DEF RefuseUndo
  <1>2. Good(Ok(h, 0))
    <2>1. Ok(h, 0) \in Results(Contents) /\ Ok(h, 0).db = h
      BY DEF Ok, Results
    <2>2. QED  BY <2>1, SparesItself
  <1>3. \A q \in B : Good(q)
    <2>1. ASSUME NEW q \in Begin(h) PROVE Good(q)
      <3>1. q \in Results(Contents) /\ BeginsHandle(Contents, h, q.db, q.ok)
        BY BeginIs
      <3>2. QED  BY <3>1, BeginSpares, FieldsOfResults
    <2>2. QED  BY <1>2, <2>1
  <1>4. ASSUME NEW q, Good(q), NEW e \in Again(q) PROVE Good(e)
    <2>1. PICK p \in RollbackOrInvalidate(q.db) : e = [p EXCEPT !.faults = @ + q.faults]
      BY <1>4
    <2>2. q.db \in HandlesOf(Contents) /\ q.faults \in Nat
      BY <1>4, FieldsOfResults
    <2>3. p \in Results(Contents) /\ Spares(q.db, p.db)
      BY <2>2, RollbackOrInvalidateIs, UndoSpares DEF UndoesAll
    <2>4. e \in Results(Contents) /\ e.db = p.db
      BY <2>1, <2>2, <2>3, CountedIs
    <2>5. QED  BY <1>4, <2>3, <2>4, SparesTwice
  <1>5. ASSUME NEW q, Good(q), NEW e \in Failed(q) PROVE Good(e)
    <2>1. PICK p \in RollbackFailedImport(q.db) : e = [p EXCEPT !.faults = @ + q.faults]
      BY <1>5
    <2>2. q.db \in HandlesOf(Contents) /\ q.faults \in Nat
      BY <1>5, FieldsOfResults
    <2>3. p \in Results(Contents) /\ Spares(q.db, p.db)
      BY <2>2, FailedSpares
    <2>4. e \in Results(Contents) /\ e.db = p.db
      BY <2>1, <2>2, <2>3, CountedIs
    <2>5. QED  BY <1>5, <2>3, <2>4, SparesTwice
  <1> HIDE DEF Good, Again, Failed, B
  <1>6. \A q \in U : Good(q)
    BY <1>2, <1>3, <1>4
  <1> HIDE DEF U
  <1>7. \A q \in V : Good(q)
    BY <1>5, <1>6
  <1>8. QED  BY <1>1, <1>7 DEF Good

LEMMA RefuseHandle ==
  ASSUME h \in HandlesOf(Contents), NEW n, Refuse(n)
  PROVE  /\ h' \in HandlesOf(Contents) /\ Spares(h, h') /\ phase' = "over" /\ raised' = TRUE
         /\ stuck' \in BOOLEAN /\ (~stuck' => ~stuck)
  <1>1. PICK o \in RefuseUndo(h) : h' = o.db /\ stuck' = (stuck \/ Stuck(o))
    BY DEF Refuse
  <1>2. QED  BY <1>1, RefuseUndoSpares, FieldsOfResults DEF Refuse, End, Stuck

\* What the exit of the context leaves durable was durable, or was seen.
Leaves(hd, k) ==
  /\ k.dual = hd.dual
  /\ k.p.store \in {hd.p.store, hd.p.seen} /\ k.s.store \in {hd.s.store, hd.s.seen}
  /\ ~hd.p.open => k.p.store = hd.p.store /\ k.s.store = hd.s.store

LEMMA SessionIs ==
  ASSUME NEW C, NEW b \in Sessions(C), ~b.open
  PROVE  b.seen = b.store
  BY DEF Sessions, Settled, Holding

LEMMA CommitLeaves ==
  ASSUME NEW C, NEW a \in HandlesOf(C), NEW b, NEW ok \in BOOLEAN, CommitsHandle(a, b, ok)
  PROVE  Leaves(a, b)
  <1>1. a.p \in Sessions(C) /\ (~a.p.open => a.p.seen = a.p.store)
    BY FieldsOfHandles, SessionIs
  <1>2. CASE ~ok /\ CommitsTo(a.p, b.p, FALSE) /\ Kept(a, b)
    BY <1>1, <1>2 DEF CommitsHandle, CommitsTo, Kept, Leaves
  <1>3. CASE ok /\ ~a.dual /\ CommitsTo(a.p, b.p, TRUE) /\ Kept(a, b)
    BY <1>1, <1>3 DEF CommitsHandle, CommitsTo, Kept, Leaves
  <1>4. CASE /\ ok /\ a.dual /\ CommitsTo(a.p, b.p, TRUE)
             /\ \E q \in BOOLEAN : CommitsTo(a.s, b.s, q)
    BY <1>1, <1>4 DEF CommitsHandle, CommitsTo, Leaves
  <1>5. QED  BY <1>2, <1>3, <1>4 DEF CommitsHandle

LEMMA SparesLeaves ==
  ASSUME NEW a, NEW b, NEW c, Leaves(a, b), b.dual = c.dual,
         Durable(b.p, c.p), Durable(b.s, c.s)
  PROVE  Leaves(a, c)
  BY DEF Leaves, Durable

LEMMA ExitLeaves ==
  ASSUME h \in HandlesOf(Contents), raised \in BOOLEAN, NEW o \in ContextExit(h, raised)
  PROVE  o.db \in HandlesOf(Contents) /\ Leaves(h, o.db)
  <1> DEFINE E == IF raised THEN Rollback(h) ELSE Commit(h)
             g == [h EXCEPT !.invalid = FALSE]
  <1>1. g \in HandlesOf(Contents) /\ g.dual = h.dual /\ g.p = h.p /\ g.s = h.s
    BY DEF HandlesOf
  <1>2. \/ o = Ok(g, 0)
        \/ \E x \in E : ~x.ok /\ o = x
        \/ \E x \in E : x.ok /\ \E p \in Disconnect(x.db) : o = [p EXCEPT !.faults = @ + x.faults]
    BY Zenon DEF ContextExit, Then
  <1>3. ASSUME NEW x \in E
        PROVE  x \in Results(Contents) /\ x.db \in HandlesOf(Contents) /\ Leaves(h, x.db)
    <2>1. CASE raised
      <3>1. x \in Results(Contents) /\ RollsBackHandle(h, x.db, x.ok)
        BY <2>1, RollbackIs
      <3>2. x.db \in HandlesOf(Contents) /\ x.ok \in BOOLEAN
        BY <3>1, FieldsOfResults
      <3>3. Spares(h, x.db)
        BY <3>1, <3>2, RollbackUndoes, UndoSpares
      <3>4. QED  BY <3>1, <3>2, <3>3 DEF Spares, Durable, Leaves
    <2>2. CASE ~raised
      <3>1. x \in Results(Contents) /\ CommitsHandle(h, x.db, x.ok)
        BY <2>2, CommitIs
      <3>2. x.db \in HandlesOf(Contents) /\ x.ok \in BOOLEAN
        BY <3>1, FieldsOfResults
      <3>3. QED  BY <3>1, <3>2, CommitLeaves
    <2>3. QED  BY <2>1, <2>2
  <1>4. CASE o = Ok(g, 0)
    <2>1. o.db = g
      BY <1>4 DEF Ok
    <2>2. QED  BY <1>1, <2>1 DEF Leaves
  <1> HIDE DEF E
  <1>5. CASE \E x \in E : ~x.ok /\ o = x
    BY <1>3, <1>5
  <1>6. CASE \E x \in E : x.ok /\ \E p \in Disconnect(x.db) : o = [p EXCEPT !.faults = @ + x.faults]
    <2>1. PICK x \in E : \E p \in Disconnect(x.db) : o = [p EXCEPT !.faults = @ + x.faults]
      BY <1>6
    <2>2. PICK p \in Disconnect(x.db) : o = [p EXCEPT !.faults = @ + x.faults]
      BY <2>1
    <2>3. x.db \in HandlesOf(Contents) /\ x.faults \in Nat /\ Leaves(h, x.db)
      BY <1>3, FieldsOfResults
    <2>4. p \in Results(Contents) /\ ClosesHandle(x.db, p.db, p.ok)
      BY <2>3, DisconnectIs
    <2>5. o.db = p.db /\ p.db \in HandlesOf(Contents)
      BY <2>2, <2>3, <2>4, CountedIs, FieldsOfResults
    <2>6. /\ p.db.dual = x.db.dual /\ Durable(x.db.p, p.db.p)
          /\ Durable(x.db.s, p.db.s)
      BY <2>4 DEF ClosesHandle, ClosesTo, Kept, Durable
    <2>7. QED  BY <2>3, <2>5, <2>6, SparesLeaves
  <1>7. QED  BY <1>2, <1>4, <1>5, <1>6

LEMMA ClosedSession ==
  ASSUME NEW C, NEW b \in Sessions(C)
  PROVE  Closed(b) \in Sessions(C) /\ Closed(b).store = b.store /\ Closed(b).open = FALSE
  BY ClosedIs DEF Sessions, Settled

LEMMA ExitHandle ==
  ASSUME h \in HandlesOf(Contents), raised \in BOOLEAN, Exit
  PROVE  h' \in HandlesOf(Contents) /\ Leaves(h, h') /\ phase' = "out" /\ ~h'.p.open
  <1>1. PICK o \in ContextExit(h, raised) : h' = [o.db EXCEPT !.p = Closed(@), !.s = Closed(@)]
    BY Zenon DEF Exit
  <1>2. o.db \in HandlesOf(Contents) /\ Leaves(h, o.db)
    BY ExitLeaves
  <1>3. /\ Closed(o.db.p) \in Sessions(Contents) /\ Closed(o.db.p).store = o.db.p.store
        /\ Closed(o.db.s) \in Sessions(Contents) /\ Closed(o.db.s).store = o.db.s.store
        /\ Closed(o.db.p).open = FALSE
    BY <1>2, FieldsOfHandles, ClosedSession
  <1> DEFINE x == Closed(o.db.p)
             y == Closed(o.db.s)
             g == o.db
  <1>4. h' = [g EXCEPT !.p = x, !.s = y]
    BY <1>1
  <1> HIDE DEF x, y
  <1>5. /\ h' \in HandlesOf(Contents) /\ h'.p = x /\ h'.s = y /\ h'.dual = g.dual
    BY <1>2, <1>3, <1>4 DEF HandlesOf, x, y
  <1>6. Leaves(h, h')
    BY <1>2, <1>3, <1>5 DEF Leaves, x, y
  <1>7. QED  BY <1>3, <1>5, <1>6 DEF Exit, x

-----------------------------------------------------------------------------
\* The writer does not change.
LEMMA Stays ==
  ASSUME Next
  PROVE  importer' = importer /\ kind' = kind /\ auto' = auto /\ single' = single
  <1>1. Start => what' = what
    BY DEF Start
  <1>2. BeginSingle => what' = what
    BY DEF BeginSingle
  <1>3. Return => what' = what
    BY DEF Return
  <1>4. Step => what' = what
    BY DEF Step
  <1>5. Finish => what' = what
    BY DEF Finish
  <1>6. UndoAndRetry => what' = what
    BY DEF UndoAndRetry
  <1>7. AutoUndo => what' = what
    BY DEF AutoUndo
  <1>8. OwnedUndo => what' = what
    BY DEF OwnedUndo
  <1>9. SingleUndo => what' = what
    BY DEF SingleUndo
  <1>10. Each => what' = what
    BY DEF Each
  <1>11. EachDone => what' = what
    BY DEF EachDone
  <1>12. Retried => what' = what
    BY DEF Retried
  <1>13. RetryFails => what' = what
    BY DEF RetryFails
  <1>14. RetryRaises => what' = what
    BY DEF RetryRaises
  <1>15. CallerCommits => what' = what
    BY DEF CallerCommits
  <1>16. Exit => what' = what
    BY DEF Exit
  <1>17. \A n : Take(n) \/ Refuse(n) => what' = what
    BY DEF Take, Refuse
  <1>18. what' = what
    BY <1>1, <1>2, <1>3, <1>4, <1>5, <1>6, <1>7, <1>8, <1>9, <1>10, <1>11, <1>12, <1>13, <1>14, <1>15, <1>16, <1>17 DEF Next, NextBatch
  <1>19. QED  BY <1>18 DEF what

LEMMA KindStays ==
  ASSUME kind' = kind
  PROVE  /\ WholeRows' = WholeRows /\ Records' = Records /\ \A i : Rec(i)' = Rec(i)
         /\ \A i : Direct(i)' = Direct(i)
  BY DEF WholeRows, WholeEntry, Told, Entry, ChildTables, Records, Rec, Direct

\* The scripts of a record that is retried.
LEMMA EachWrites ==
  ASSUME TypeInv, BatchInv, phase = "each", at <= Len(batch)
  PROVE  LET r == Rec(batch[at]) IN
         /\ batch[at] \in DOMAIN Records /\ r \in Parsed /\ Prepared(kind, r)
         /\ <<Stmt("parent", r, "a")>> \in Scripts /\ <<PutHead(r)>> \in Scripts
         /\ Script(kind, r) \in Scripts
  <1> DEFINE r == Rec(batch[at])
  <1>1. at \in DOMAIN batch
    BY DEF BatchInv, Retries
  <1>2. batch[at] \in DOMAIN Records /\ Prepared(kind, r)
    BY <1>1 DEF BatchInv
  <1>3. r \in Parsed /\ kind \in Kinds
    BY <1>2, RecordsAreParsed DEF TypeInv
  <1> HIDE DEF r
  <1>4. Stmt("parent", r, "a") \in Stmts /\ PutHead(r) \in Stmts
    BY <1>3, StatementsAreSimple DEF PutHead, Stmts, Tabs
  <1>5. QED  BY <1>2, <1>3, <1>4, TuplesAreScripts, ScriptIsKnown DEF r

LEMMA TypeStep ==
  ASSUME TypeInv, BatchInv, Next
  PROVE  TypeInv'
  <1> SUFFICES /\ h' \in HandlesOf(Contents)
               /\ phase' \in Phases /\ raised' \in BOOLEAN
               /\ generic' \in BOOLEAN /\ stuck' \in BOOLEAN /\ carried' \in BOOLEAN
               /\ todo' \in Seq(Scripts) /\ base' \in Contents
    BY Stays DEF TypeInv
  <1> USE DEF TypeInv, Phases
  <1>1. CASE Start
    <2>1. h' \in HandlesOf(Contents) /\ phase' \in {"loop", "over"}
      BY <1>1, StartHandle
    <2>2. base' \in Contents
      <3>1. base' = h.p.store /\ h.p \in Sessions(Contents)
        BY <1>1, FieldsOfHandles DEF Start
      <3>2. QED  BY <3>1 DEF Sessions, SessionRecords
    <2>3. /\ raised' \in BOOLEAN /\ generic' \in BOOLEAN /\ stuck' \in BOOLEAN
          /\ carried' \in BOOLEAN /\ todo' = <<>>
      BY <1>1 DEF Start
    <2>4. QED  BY <2>1, <2>2, <2>3
  <1>2. CASE BeginSingle
    <2>1. /\ raised' \in BOOLEAN
          /\ UNCHANGED <<generic, stuck, carried, todo, base>>
      BY <1>2 DEF BeginSingle, work, aux, End
    <2>2. QED  BY <1>2, <2>1, BeginSingleHandle
  <1>3. ASSUME NEW n, Flushes(n), Take(n) PROVE TypeInv'
    <2>1. kind \in Kinds /\ pos \in Nat /\ \A i \in pos + 1 .. n : Prepared(kind, Rec(i))
      BY <1>3 DEF BatchInv, Take
    <2>2. todo' \in Seq(Scripts)
      BY <1>3, <2>1, StatementsLead DEF Take
    <2>3. UNCHANGED <<raised, generic, stuck, carried, base>> /\ TypeInv
      BY <1>3 DEF Take, aux
    <2>4. h' \in HandlesOf(Contents) /\ phase' \in {"write", "undo"}
      BY <1>3, TakeHandle
    <2>5. QED  BY <2>2, <2>3, <2>4, Stays
  <1>4. ASSUME NEW n, Refuse(n) PROVE TypeInv'
    <2>1. raised' \in BOOLEAN /\ UNCHANGED <<generic, carried, todo, base>>
      BY <1>4 DEF Refuse, End, work
    <2>2. QED  BY <1>4, <2>1, RefuseHandle, Stays
  <1>5. CASE Return
    BY <1>5 DEF Return, End, work, aux
  <1>6. CASE Step
    <2>1. UNCHANGED <<raised, generic, stuck, carried, base>>
      BY <1>6 DEF Step, aux
    <2>2. todo # <<>>
      BY <1>6 DEF Step
    <2>3. h' \in HandlesOf(Contents) /\ phase' \in Phases
          /\ todo' = IF phase' = phase THEN Remaining ELSE todo
      BY <1>6, StepHandle
    <2>4. Remaining \in Seq(Scripts)
      BY <2>2, CurrentIs
    <2>5. QED  BY <2>1, <2>3, <2>4
  <1>7. CASE Finish
    <2>1. UNCHANGED <<raised, generic, stuck, carried, base, todo>>
      BY <1>7 DEF Finish, aux, work
    <2>2. QED  BY <1>7, <2>1, FinishHandle
  <1>8. CASE UndoAndRetry
    <2>1. /\ UNCHANGED <<raised, stuck, carried, base, todo>> /\ generic' \in BOOLEAN
          /\ phase' = "each"
      BY <1>8 DEF UndoAndRetry, aux, Continue
    <2>2. QED  BY <1>8, <2>1, UndoAndRetryHandle
  <1>9. CASE AutoUndo
    <2>1. /\ UNCHANGED <<carried, base, todo>> /\ raised' \in BOOLEAN
      BY <1>9 DEF AutoUndo, Continue, End
    <2>2. h' \in HandlesOf(Contents) /\ stuck' \in BOOLEAN /\ phase' \in {"each", "over"}
          /\ generic' \in BOOLEAN
      BY <1>9, AutoUndoHandle
    <2>3. QED  BY <2>1, <2>2
  <1>10. CASE OwnedUndo
    <2>1. /\ UNCHANGED <<generic, carried, base, todo>> /\ raised' \in BOOLEAN
      BY <1>10 DEF OwnedUndo, End, work
    <2>2. QED  BY <1>10, <2>1, OwnedUndoHandle
  <1>11. CASE SingleUndo
    <2>1. /\ UNCHANGED <<generic, carried, base, todo>> /\ raised' \in BOOLEAN
      BY <1>11 DEF SingleUndo, End, work
    <2>2. QED  BY <1>11, <2>1, SingleUndoHandle
  <1>12. CASE Each
    <2>1. UNCHANGED <<raised, generic, stuck, carried, base>>
      BY <1>12 DEF Each, aux
    <2>2. todo' \in Seq(Scripts)
      <3> DEFINE r == Rec(batch[at])
      <3>1. /\ <<Stmt("parent", r, "a")>> \in Scripts /\ <<PutHead(r)>> \in Scripts
            /\ Script(kind, r) \in Scripts
        BY <1>12, EachWrites DEF Each
      <3>2. todo' \in {<<<<Stmt("parent", r, "a")>>>>, <<<<PutHead(r)>>>>, <<Script(kind, r)>>}
        BY <1>12 DEF Each
      <3> DEFINE x == <<Stmt("parent", r, "a")>>
                 y == <<PutHead(r)>>
                 z == Script(kind, r)
      <3>3. todo' \in {<<x>>, <<y>>, <<z>>} /\ x \in Scripts /\ y \in Scripts /\ z \in Scripts
        BY <3>1, <3>2
      <3> HIDE DEF x, y, z
      <3>4. QED  BY <3>3
    <2>3. h' \in HandlesOf(Contents) /\ phase' \in {"retry", "unretry"}
      BY <1>12, EachHandle
    <2>4. QED  BY <2>1, <2>2, <2>3
  <1>13. CASE EachDone
    BY <1>13 DEF EachDone, aux
  <1>14. CASE Retried
    <2>1. UNCHANGED <<raised, generic, stuck, carried, base, todo>>
      BY <1>14 DEF Retried, aux
    <2>2. QED  BY <1>14, <2>1, RetriedHandle
  <1>15. CASE RetryFails
    <2>1. UNCHANGED <<raised, generic, stuck, carried, base, todo>> /\ phase' = "each"
      BY <1>15 DEF RetryFails, aux
    <2>2. QED  BY <1>15, <2>1, RetryFailsHandle
  <1>16. CASE RetryRaises
    <2>1. /\ UNCHANGED <<carried, base, todo>> /\ raised' \in BOOLEAN
      BY <1>16 DEF RetryRaises, Continue, End
    <2>2. h' \in HandlesOf(Contents) /\ stuck' \in BOOLEAN /\ phase' \in {"each", "loop", "over"}
          /\ generic' \in BOOLEAN
      BY <1>16, RetryRaisesHandle
    <2>3. QED  BY <2>1, <2>2
  <1>17. CASE CallerCommits
    <2>1. UNCHANGED <<generic, stuck, carried, base, todo, phase>>
      BY <1>17 DEF CallerCommits, aux, work
    <2>2. QED  BY <1>17, <2>1, CallerCommitsHandle
  <1>18. CASE Exit
    <2>1. UNCHANGED <<raised, generic, stuck, carried, base, todo>>
      BY <1>18 DEF Exit, aux, work
    <2>2. QED  BY <1>18, <2>1, ExitHandle
  <1>19. QED
    BY <1>1, <1>2, <1>3, <1>4, <1>5, <1>6, <1>7, <1>8, <1>9, <1>10, <1>11, <1>12, <1>13,
       <1>14, <1>15, <1>16, <1>17, <1>18 DEF Next, NextBatch

LEMMA BatchStep ==
  ASSUME TypeInv, BatchInv, Next
  PROVE  BatchInv'
  <1>1. /\ kind' = kind /\ Records' = Records /\ \A i : Rec(i)' = Rec(i)
        /\ \A i : Direct(i)' = Direct(i)
    BY Stays, KindStays
  <1>2. Len(Records) \in Nat
    BY RecordsAreParsed DEF TypeInv
  <1>3. CASE Start
    <2>1. pos' = 0 /\ batch' = <<>> /\ at' = 0 /\ phase' \in {"loop", "over"}
      BY <1>3, StartHandle DEF Start, TypeInv
    <2>2. QED  BY <1>1, <1>2, <2>1 DEF BatchInv, DirectBatch, Retries
  <1>4. ASSUME NEW n, Flushes(n), Take(n) PROVE BatchInv'
    <2>1. kind \in Kinds /\ pos \in Nat /\ \A i \in pos + 1 .. n : Prepared(kind, Rec(i))
      BY <1>4 DEF BatchInv, Take, TypeInv
    <2>2. n \in pos + 1 .. Len(Records)
      BY <1>4, <2>1, StatementsLead
    <2>3. /\ n - pos \in Nat /\ n - pos >= 1 /\ Len(Batch(n)) = n - pos
          /\ Batch(n) \in Seq(DOMAIN Records) /\ Batch(n) # <<>>
          /\ \A i \in 1..n - pos : Batch(n)[i] = pos + i /\ pos + i \in DOMAIN Records
      BY <2>1, <2>2, BatchIs
    <2>4. /\ pos' = n /\ batch' = Batch(n) /\ at' = at /\ phase' \in {"write", "undo"}
      BY <1>4, TakeHandle DEF Take, TypeInv
    <2>5. DOMAIN Batch(n) = 1..n - pos
      BY DEF Batch
    <2>6. \A i \in DOMAIN Batch(n) : Prepared(kind, Rec(Batch(n)[i]))
      BY <1>2, <2>1, <2>2, <2>3, <2>5
    <2>7. ~Direct(Batch(n)[1]) => \A i \in DOMAIN Batch(n) : ~Direct(Batch(n)[i])
      <3>1. CASE n > pos + 1
        <4>1. \A i \in pos + 1 .. n : ~Direct(i)
          BY <1>4, <3>1 DEF Flushes
        <4>2. QED  BY <1>2, <2>1, <2>2, <2>3, <2>5, <4>1
      <3>2. CASE ~(n > pos + 1)
        <4>1. n - pos = 1
          BY <1>2, <2>1, <2>2, <3>2
        <4>2. \A i \in DOMAIN Batch(n) : i = 1
          BY <2>5, <4>1
        <4>3. QED  BY <4>2
      <3>3. QED  BY <3>1, <3>2
    <2>8. at \in Nat
      BY DEF BatchInv
    <2>9. pos' \in 0..Len(Records)
      BY <1>2, <2>1, <2>2, <2>4
    <2>10. DirectBatch' <=> Direct(Batch(n)[1])
      BY <1>1, <2>3, <2>4 DEF DirectBatch
    <2>11. QED
      BY <1>1, <2>3, <2>4, <2>6, <2>7, <2>8, <2>9, <2>10 DEF BatchInv, Retries
  <1>5. ASSUME pos' = pos, batch' = batch, at' \in Nat,
               phase' \in Retries \cup {"write", "undo"} => batch # <<>>,
               phase' \in Retries => at' >= 1,
               phase' \in {"retry", "unretry"} => at' <= Len(batch)
        PROVE  BatchInv'
    <2>1. DirectBatch' <=> DirectBatch
      BY <1>1, <1>5 DEF DirectBatch
    <2>2. QED  BY <1>1, <1>5, <2>1 DEF BatchInv
  <1>6. ASSUME UNCHANGED <<pos, batch, at>>, phase' \notin Retries,
               phase \in {"write", "undo"} \/ phase' \in {"idle", "loop", "over", "out"}
        PROVE  BatchInv'
    BY <1>5, <1>6 DEF BatchInv, Retries
  <1>7. ASSUME NEW n, Refuse(n) PROVE BatchInv'
    BY <1>6, <1>7 DEF Refuse, End, work, Retries
  <1>8. CASE BeginSingle
    BY <1>6, <1>8, BeginSingleHandle DEF BeginSingle, work, Retries, TypeInv
  <1>9. CASE Return
    BY <1>6, <1>9 DEF Return, End, work, Retries
  <1>10. CASE Step
    <2>1. /\ phase' = phase \/ (phase = "write" /\ phase' = "undo")
                            \/ (phase = "retry" /\ phase' = "unretry")
          /\ UNCHANGED <<pos, batch, at>> /\ phase \in {"write", "retry"}
      BY <1>10, StepHandle DEF Step, TypeInv
    <2>2. QED  BY <1>5, <2>1 DEF BatchInv, Retries
  <1>11. CASE Finish
    BY <1>6, <1>11, FinishHandle DEF Finish, work, Retries, TypeInv
  <1>12. CASE UndoAndRetry
    BY <1>5, <1>12 DEF UndoAndRetry, Continue, BatchInv, Retries
  <1>13. CASE AutoUndo
    <2>1. /\ pos' = pos /\ batch' = batch /\ phase = "undo" /\ phase' \in {"each", "over"}
          /\ phase' = "each" => at' = 1
          /\ phase' = "over" => at' = at
      BY <1>13, AutoUndoHandle DEF AutoUndo, TypeInv
    <2>2. QED  BY <1>5, <2>1 DEF BatchInv, Retries
  <1>14. CASE OwnedUndo
    BY <1>6, <1>14 DEF OwnedUndo, End, work, Retries
  <1>15. CASE SingleUndo
    BY <1>6, <1>15, SingleUndoHandle DEF SingleUndo, work, Retries, TypeInv
  <1>16. CASE Each
    <2>1. /\ phase' \in {"retry", "unretry"} /\ UNCHANGED <<pos, batch, at>>
          /\ phase = "each" /\ at <= Len(batch)
      BY <1>16, EachHandle DEF Each, TypeInv
    <2>2. QED  BY <1>5, <2>1 DEF BatchInv, Retries
  <1>17. CASE EachDone
    BY <1>5, <1>17 DEF EachDone, BatchInv, Retries
  <1>18. CASE Retried
    <2>1. /\ phase' \in {"each", "unretry"} /\ UNCHANGED <<pos, batch>> /\ phase = "retry"
          /\ at' \in {at, at + 1} /\ (phase' = "unretry" => at' = at)
      <3>1. PICK o \in Commit(h) : /\ phase' = IF o.ok THEN "each" ELSE "unretry"
                                   /\ at' = IF o.ok THEN at + 1 ELSE at
        BY <1>18 DEF Retried
      <3>2. QED  BY <1>18, <3>1 DEF Retried
    <2>2. QED  BY <1>5, <2>1 DEF BatchInv, Retries
  <1>19. CASE RetryFails
    BY <1>5, <1>19 DEF RetryFails, BatchInv, Retries
  <1>20. CASE RetryRaises
    <2>1. /\ pos' = pos /\ batch' = batch /\ phase = "unretry"
          /\ phase' \in {"each", "loop", "over"}
          /\ phase' = "each" => at' = 1
          /\ phase' # "each" => at' = at
      BY <1>20, RetryRaisesHandle DEF RetryRaises, TypeInv
    <2>2. QED  BY <1>5, <2>1 DEF BatchInv, Retries
  <1>21. CASE CallerCommits
    BY <1>6, <1>21 DEF CallerCommits, work, Retries
  <1>22. CASE Exit
    BY <1>6, <1>22 DEF Exit, work, Retries
  <1>23. QED
    BY <1>3, <1>4, <1>7, <1>8, <1>9, <1>10, <1>11, <1>12, <1>13, <1>14, <1>15, <1>16, <1>17,
       <1>18, <1>19, <1>20, <1>21, <1>22 DEF Next, NextBatch

LEMMA FlowStep ==
  ASSUME TypeInv, BatchInv, FlowInv, Next
  PROVE  FlowInv'
  <1>1. /\ importer' = importer /\ kind' = kind /\ auto' = auto /\ single' = single
        /\ \A i : Direct(i)' = Direct(i)
    BY Stays, KindStays
  <1>2. /\ h \in HandlesOf(Contents) /\ kind \in Kinds /\ auto \in BOOLEAN /\ raised \in BOOLEAN
        /\ todo \in Seq(Scripts)
    BY DEF TypeInv
  <1>3. Spares(h, h') /\ phase # "out" => Transacted(h')
    BY DEF FlowInv, Spares
  <1>4. ASSUME Transacted(h') \/ phase' = "out",
               phase' \in {"loop", "over", "undo", "out"},
               ~auto /\ phase' = "loop" /\ ~single => is_transaction_active(h')
        PROVE  FlowInv'
    BY <1>1, <1>4 DEF FlowInv, Retries, Transacted, is_transaction_active, InTransaction
  <1>5. CASE Start
    <2>1. /\ h' \in HandlesOf(Contents) /\ phase' \in {"loop", "over"} /\ phase # "out"
          /\ auto => h' = h /\ phase' = "loop"
          /\ ~auto => BeginsHandle(Contents, h, h', phase' = "loop")
      BY <1>2, <1>5, StartHandle DEF Start
    <2>2. ~auto => Spares(h, h') /\ (phase' = "loop" => is_transaction_active(h'))
      BY <1>2, <2>1, BeginSpares
    <2>3. Spares(h, h')
      BY <2>1, <2>2, SparesItself
    <2>4. QED  BY <1>3, <1>4, <2>1, <2>2, <2>3
  <1>6. CASE BeginSingle
    <2>1. /\ h' \in HandlesOf(Contents) /\ phase' \in {"loop", "over"} /\ phase # "out" /\ single
          /\ BeginsHandle(Contents, h, h', phase' = "loop")
      BY <1>2, <1>6, BeginSingleHandle DEF BeginSingle
    <2>2. Spares(h, h')
      BY <1>2, <2>1, BeginSpares
    <2>3. QED  BY <1>3, <1>4, <2>1, <2>2
  <1>7. ASSUME NEW n, NextBatch, Flushes(n), Take(n) PROVE FlowInv'
    <2>1. /\ phase = "loop" /\ (single /\ ~auto => is_transaction_active(h))
          /\ phase' \in {"write", "undo"} /\ h' \in HandlesOf(Contents)
          /\ ~Owns(n) => h' = h /\ phase' = "write"
          /\ Owns(n) => BeginsHandle(Contents, h, h', phase' = "write")
          /\ batch' = Batch(n)
      BY <1>2, <1>7, TakeHandle DEF NextBatch, Take
    <2>2. ~auto => is_transaction_active(h)
      BY <2>1 DEF FlowInv
    <2>3. Owns(n) => Spares(h, h') /\ (phase' = "write" => is_transaction_active(h'))
      BY <1>2, <2>1, BeginSpares
    <2>4. Spares(h, h')
      BY <2>1, <2>3, SparesItself
    <2>5. n \in pos + 1 .. Len(Records) /\ pos \in Nat /\ Len(Records) \in Nat
      BY <1>2, <1>7, RecordsAreParsed DEF Flushes, BatchInv
    <2>6. Batch(n) # <<>> /\ Batch(n)[1] = pos + 1
      <3>1. 1 \in 1..n - pos
        BY <2>5
      <3>2. QED  BY <1>2, <2>5, <3>1, BatchIs
    <2>7. DirectBatch' <=> Direct(pos + 1)
      BY <1>1, <2>1, <2>6 DEF DirectBatch
    <2>8. Direct(pos + 1) <=> Direct(n)
      <3>1. CASE n > pos + 1
        <4>1. pos + 1 \in pos + 1 .. n /\ n \in pos + 1 .. n
          BY <2>5
        <4>2. QED  BY <1>7, <3>1, <4>1 DEF Flushes
      <3>2. CASE ~(n > pos + 1)
        <4>1. n = pos + 1
          BY <2>5, <3>2
        <4>2. QED  BY <4>1
      <3>3. QED  BY <3>1, <3>2
    <2>9. Coupled' <=> kind # "rows" /\ ~Direct(n)
      BY <1>1, <2>7, <2>8 DEF Coupled
    <2>10. phase' = "write" /\ Coupled' => is_transaction_active(h')
      BY <2>1, <2>2, <2>3, <2>9 DEF Owns
    <2>11. phase' = "write" /\ ~auto => is_transaction_active(h')
      BY <2>1, <2>2 DEF Owns
    <2>12. Transacted(h')
      BY <1>3, <2>1, <2>4
    <2>13. QED
      BY <1>1, <2>1, <2>10, <2>11, <2>12
         DEF FlowInv, Light, Retries, Transacted, is_transaction_active, InTransaction
  <1>8. ASSUME NEW n, NextBatch, Refuse(n) PROVE FlowInv'
    <2>1. Spares(h, h') /\ phase' = "over" /\ phase # "out"
      BY <1>2, <1>8, RefuseHandle DEF NextBatch
    <2>2. QED  BY <1>3, <1>4, <2>1
  <1>9. CASE Return
    <2>1. h' = h /\ phase' = "over" /\ phase # "out"
      BY <1>9 DEF Return, End
    <2>2. QED  BY <1>3, <1>4, <2>1, SparesItself
  <1>10. CASE Step
    <2>1. /\ h' \in HandlesOf(Contents) /\ phase \in {"write", "retry"}
          /\ phase' = phase \/ (phase = "write" /\ phase' = "undo")
                            \/ (phase = "retry" /\ phase' = "unretry")
          /\ ExecutesHandle(h, Current, h', phase' = phase)
          /\ UNCHANGED <<batch, generic>>
      BY <1>2, <1>10, StepHandle DEF Step
    <2>2. Transacted(h) /\ (phase' = phase) \in BOOLEAN
      BY <2>1 DEF FlowInv
    <2>3. /\ Transacted(h')
          /\ phase' = phase => (is_transaction_active(h) <=> is_transaction_active(h'))
      BY <2>1, <2>2, ExecuteTransacted
    <2>4. (DirectBatch' <=> DirectBatch) /\ (Coupled' <=> Coupled)
      BY <1>1, <2>1 DEF DirectBatch, Coupled
    <2>5. is_transaction_active(h') <=> is_transaction_active(h)'
      BY DEF is_transaction_active
    <2>6. QED
      BY <1>1, <2>1, <2>3, <2>4, <2>5
         DEF FlowInv, Light, Retries, Retrying, Transacted, InTransaction
  <1>11. CASE Finish
    <2>1. /\ h' \in HandlesOf(Contents) /\ phase' \in {"loop", "undo"} /\ phase = "write"
          /\ ~auto => h' = h /\ phase' = "loop"
          /\ auto => CommitsHandle(h, h', phase' = "loop")
      BY <1>2, <1>11, FinishHandle DEF Finish
    <2>2. Transacted(h) /\ (~auto => is_transaction_active(h)) /\ (phase' = "loop") \in BOOLEAN
      BY <2>1 DEF FlowInv
    <2>3. Transacted(h')
      BY <1>2, <2>1, <2>2, CommitTransacted
    <2>4. QED  BY <1>4, <2>1, <2>2, <2>3
  <1>12. CASE UndoAndRetry
    <2>1. /\ Spares(h, h') /\ phase = "undo" /\ phase' = "each" /\ Retrying
          /\ auto /\ generic' = FALSE
      BY <1>2, <1>12, UndoAndRetryHandle DEF UndoAndRetry, MayRetry, Continue
    <2>2. QED
      BY <1>1, <1>3, <2>1
         DEF FlowInv, Light, Retries, Retrying, Transacted, InTransaction
  <1>13. CASE AutoUndo
    <2>1. /\ Spares(h, h') /\ phase = "undo" /\ phase' \in {"each", "over"} /\ auto
          /\ phase' = "each" => FallsBack /\ generic' = TRUE
          /\ batch' = batch
      BY <1>2, <1>13, AutoUndoHandle DEF AutoUndo
    <2>2. FallsBack => kind \in {"rows", "ck"} /\ ~DirectBatch
      BY DEF FallsBack, PlainFallsBack, OptimizedFallsBack, DirectBatch, Direct
    <2>3. (DirectBatch' <=> DirectBatch)
      BY <1>1, <2>1 DEF DirectBatch
    <2>4. CASE phase' = "over"
      BY <1>3, <1>4, <2>1, <2>4
    <2>5. CASE phase' = "each"
      BY <1>1, <1>3, <2>1, <2>2, <2>3, <2>5
         DEF FlowInv, Light, Retries, Transacted, InTransaction
    <2>6. QED  BY <2>1, <2>4, <2>5
  <1>14. CASE OwnedUndo
    <2>1. Spares(h, h') /\ phase' = "over" /\ phase # "out"
      BY <1>2, <1>14, OwnedUndoHandle DEF OwnedUndo
    <2>2. QED  BY <1>3, <1>4, <2>1
  <1>15. CASE SingleUndo
    <2>1. Spares(h, h') /\ phase' \in {"loop", "over"} /\ phase # "out" /\ single
      BY <1>2, <1>15, SingleUndoHandle DEF SingleUndo
    <2>2. QED  BY <1>3, <1>4, <2>1
  <1>16. ASSUME phase \in Retries, Transacted(h'), phase' \in Retries, batch' = batch,
                generic' = generic,
                phase' = "retry" /\ ~generic => is_transaction_active(h')
         PROVE  FlowInv'
    <2>1. (DirectBatch' <=> DirectBatch)
      BY <1>1, <1>16 DEF DirectBatch
    <2>2. QED
      BY <1>1, <1>16, <2>1
         DEF FlowInv, Light, Retries, Retrying, Transacted, InTransaction, is_transaction_active
  <1>17. CASE Each
    <2>1. /\ phase' \in {"retry", "unretry"} /\ UNCHANGED <<batch, generic>> /\ phase = "each"
          /\ h' \in HandlesOf(Contents)
          /\ generic => h' = h
          /\ ~generic => BeginsHandle(Contents, h, h', phase' = "retry")
      BY <1>2, <1>17, EachHandle DEF Each
    <2>2. ~generic => Spares(h, h') /\ (phase' = "retry" => is_transaction_active(h'))
      BY <1>2, <2>1, BeginSpares
    <2>3. Spares(h, h')
      BY <2>1, <2>2, SparesItself
    <2>4. QED  BY <1>3, <1>16, <2>1, <2>2, <2>3 DEF Retries
  <1>18. CASE EachDone
    <2>1. h' = h /\ phase' = "loop" /\ phase = "each" /\ (phase = "each" => auto)
      BY <1>2, <1>18 DEF EachDone, FlowInv, Retries
    <2>2. QED  BY <1>3, <1>4, <2>1, SparesItself
  <1>19. CASE Retried
    <2>1. /\ h' \in HandlesOf(Contents) /\ phase' \in {"each", "unretry"} /\ phase = "retry"
          /\ CommitsHandle(h, h', phase' = "each") /\ UNCHANGED <<batch, generic>>
      BY <1>2, <1>19, RetriedHandle DEF Retried
    <2>2. Transacted(h) /\ (phase' = "each") \in BOOLEAN
      BY <2>1 DEF FlowInv
    <2>3. Transacted(h')
      BY <2>1, <2>2, CommitTransacted
    <2>4. QED  BY <1>16, <2>1, <2>3 DEF Retries
  <1>20. CASE RetryFails
    <2>1. Spares(h, h') /\ phase = "unretry" /\ phase' = "each" /\ UNCHANGED <<batch, generic>>
      BY <1>2, <1>20, RetryFailsHandle DEF RetryFails
    <2>2. QED  BY <1>3, <1>16, <2>1 DEF Retries
  <1>21. CASE RetryRaises
    <2>1. /\ Spares(h, h') /\ phase = "unretry" /\ phase' \in {"each", "loop", "over"}
          /\ phase' = "each" => FallsBack /\ generic' = TRUE
          /\ phase' = "loop" => single
          /\ batch' = batch
      BY <1>2, <1>21, RetryRaisesHandle DEF RetryRaises
    <2>2. FallsBack => kind \in {"rows", "ck"} /\ ~DirectBatch
      BY DEF FallsBack, PlainFallsBack, OptimizedFallsBack, DirectBatch, Direct
    <2>3. (DirectBatch' <=> DirectBatch) /\ auto
      BY <1>1, <1>2, <2>1 DEF DirectBatch, FlowInv, Retries
    <2>4. CASE phase' # "each"
      BY <1>3, <1>4, <2>1, <2>4
    <2>5. CASE phase' = "each"
      BY <1>1, <1>3, <2>1, <2>2, <2>3, <2>5
         DEF FlowInv, Light, Retries, Transacted, InTransaction
    <2>6. QED  BY <2>4, <2>5
  <1>22. CASE CallerCommits
    <2>1. /\ CommitsHandle(h, h', ~raised') /\ phase = "over" /\ phase' = "over"
          /\ (~raised') \in BOOLEAN
      BY <1>2, <1>22, CallerCommitsHandle DEF CallerCommits
    <2>2. Transacted(h')
      BY <2>1, CommitTransacted DEF FlowInv
    <2>3. QED  BY <1>4, <2>1, <2>2
  <1>23. CASE Exit
    <2>1. phase' = "out"
      BY <1>23 DEF Exit
    <2>2. QED  BY <1>4, <2>1
  <1>24. QED
    BY <1>5, <1>6, <1>7, <1>8, <1>9, <1>10, <1>11, <1>12, <1>13, <1>14, <1>15, <1>17,
       <1>18, <1>19, <1>20, <1>21, <1>22, <1>23 DEF Next, NextBatch

LEMMA Unchanged ==
  ASSUME UNCHANGED vars
  PROVE  (TypeInv => TypeInv') /\ (BatchInv => BatchInv') /\ (FlowInv => FlowInv')
  <1>1. /\ UNCHANGED <<h, phase, raised, pos, importer, kind, auto, single, batch, todo, at, generic>>
        /\ UNCHANGED <<base, stuck, carried>>
    BY DEF vars, what, work, aux
  <1>2. TypeInv => TypeInv'
    BY <1>1 DEF TypeInv
  <1>3. /\ Records' = Records /\ \A i : Rec(i)' = Rec(i)
        /\ \A i : Direct(i)' = Direct(i)
    BY <1>1, KindStays
  <1>4. BatchInv => BatchInv'
    BY <1>1, <1>3 DEF BatchInv, DirectBatch
  <1>5. FlowInv => FlowInv'
    BY <1>1, <1>3 DEF FlowInv, Light, Coupled, DirectBatch, Transacted, InTransaction,
                      is_transaction_active, Retrying
  <1>6. QED  BY <1>2, <1>4, <1>5

LEMMA NoRowsIs == NoRows \in Contents /\ NoRows \in WholeRows
  BY DEF NoRows, WholeRows, WholeEntry, NoEntry, Contents, Entries, Heads, NoHead, Children

LEMMA InitHandle ==
  ASSUME Init
  PROVE  h \in HandlesOf(Contents) /\ Opened(h, NoRows)
  <1>1. PICK c \in Handles : \E o \in Connect(Handle(c[1], c[2], c[3], NoRows)) :
          o.ok /\ h = o.db
    BY DEF Init
  <1>2. PICK o \in Connect(Handle(c[1], c[2], c[3], NoRows)) : o.ok /\ h = o.db
    BY <1>1
  <1>3. c[1] \in BOOLEAN /\ c[2] \in Drivers /\ c[3] \in Drivers
    BY HandlesAreKnown
  <1>4. o \in Results(Contents) /\ Opened(o.db, NoRows)
    BY <1>2, <1>3, NoRowsIs, ConnectIs
  <1>5. QED  BY <1>2, <1>4, FieldsOfResults

LEMMA InitInv == Init => TypeInv /\ BatchInv /\ FlowInv
  <1> SUFFICES ASSUME Init PROVE TypeInv /\ BatchInv /\ FlowInv
    OBVIOUS
  <1>1. h \in HandlesOf(Contents) /\ ~h.active
    BY InitHandle DEF Opened
  <1>2. /\ importer \in {"plain", "optimized"} /\ kind \in Kinds /\ auto \in BOOLEAN
        /\ single \in BOOLEAN /\ phase = "idle" /\ raised = FALSE
        /\ pos = 0 /\ batch = <<>> /\ todo = <<>> /\ at = 0 /\ generic = FALSE
        /\ base = NoRows /\ stuck = FALSE /\ carried = FALSE
    BY DEF Init
  <1>3. TypeInv
    <2>1. <<>> \in Seq(Scripts) /\ base \in Contents
      BY <1>2, NoRowsIs
    <2>2. raised \in BOOLEAN /\ generic \in BOOLEAN /\ stuck \in BOOLEAN /\ carried \in BOOLEAN
      BY <1>2
    <2>3. phase \in Phases
      BY <1>2 DEF Phases
    <2>4. QED  BY <1>1, <1>2, <2>1, <2>2, <2>3, Zenon DEF TypeInv
  <1>4. BatchInv
    BY <1>2, RecordsAreParsed DEF BatchInv, DirectBatch, Retries
  <1>5. FlowInv
    BY <1>1, <1>2 DEF FlowInv, Retries, Light, Transacted
  <1>6. QED  BY <1>3, <1>4, <1>5

\* The handle, the batch and the statements left are what the phase of the import
\* says: statements and retries of a writer that opens a transaction are inside
\* one, and nothing is retried in the transaction of a caller.
THEOREM FlowHolds == Spec => [](TypeInv /\ BatchInv /\ FlowInv)
  <1>1. TypeInv /\ BatchInv /\ FlowInv /\ [Next]_vars => (TypeInv /\ BatchInv /\ FlowInv)'
    <2>1. TypeInv /\ BatchInv /\ FlowInv /\ Next => (TypeInv /\ BatchInv /\ FlowInv)'
      BY TypeStep, BatchStep, FlowStep, Zenon
    <2>2. ASSUME TypeInv, BatchInv, FlowInv, UNCHANGED vars
          PROVE  (TypeInv /\ BatchInv /\ FlowInv)'
      BY <2>2, Unchanged
    <2>3. QED  BY <2>1, <2>2
  <1>2. QED  BY InitInv, <1>1, PTL DEF Spec

\* An import whose caller owns the commit leaves what is durable alone, in both
\* databases: every statement it issues is inside the caller's transaction, and
\* nothing it undoes was durable.  Only the caller's commit and the exit of its
\* context make rows durable.
THEOREM CallerOwnsCommit == Spec => OwnedWaits
  <1>1. ASSUME TypeInv, BatchInv, FlowInv, Next, ~auto, ~(CallerCommits \/ Exit)
        PROVE  <<h.p.store, h.s.store>>' = <<h.p.store, h.s.store>>
    <2>1. h \in HandlesOf(Contents) /\ todo \in Seq(Scripts)
      BY <1>1 DEF TypeInv
    <2>2. ASSUME Spares(h, h') \/ h' = h
          PROVE  <<h.p.store, h.s.store>>' = <<h.p.store, h.s.store>>
      BY <2>2 DEF Spares, Durable
    <2>3. CASE Start
      BY <1>1, <2>1, <2>2, <2>3, StartHandle, BeginSpares
    <2>4. CASE BeginSingle
      BY <2>1, <2>2, <2>4, BeginSingleHandle, BeginSpares
    <2>5. CASE NextBatch
      <3>1. PICK n : Take(n) \/ Refuse(n)
        BY <2>5 DEF NextBatch
      <3>2. CASE Take(n)
        BY <1>1, <2>1, <2>2, <3>2, TakeHandle DEF Owns
      <3>3. CASE Refuse(n)
        BY <2>1, <2>2, <3>3, RefuseHandle
      <3>4. QED  BY <3>1, <3>2, <3>3
    <2>6. CASE Return
      BY <2>2, <2>6 DEF Return
    <2>7. CASE Step
      <3>1. /\ ExecutesHandle(h, Current, h', phase' = phase) /\ phase \in {"write", "retry"}
            /\ (phase' = phase) \in BOOLEAN
        BY <2>1, <2>7, StepHandle DEF Step
      <3>2. is_transaction_active(h) /\ Transacted(h)
        BY <1>1, <3>1 DEF FlowInv, Retries
      <3>3. h'.p.store = h.p.store /\ h'.s.store = h.s.store
        BY <3>1, <3>2, ExecuteWaits
      <3>4. QED  BY <3>3
    <2>8. CASE Finish
      BY <1>1, <2>1, <2>2, <2>8, FinishHandle
    <2>9. CASE UndoAndRetry \/ AutoUndo
      BY <1>1, <2>9 DEF UndoAndRetry, MayRetry, AutoUndo
    <2>10. CASE OwnedUndo
      BY <2>1, <2>2, <2>10, OwnedUndoHandle
    <2>11. CASE SingleUndo
      BY <2>1, <2>2, <2>11, SingleUndoHandle
    <2>12. CASE Each \/ EachDone \/ Retried \/ RetryFails \/ RetryRaises
      BY <1>1, <2>12 DEF Each, EachDone, Retried, RetryFails, RetryRaises, FlowInv, Retries
    <2>13. QED
      BY <1>1, <2>3, <2>4, <2>5, <2>6, <2>7, <2>8, <2>9, <2>10, <2>11, <2>12 DEF Next
  <1>2. ASSUME TypeInv /\ BatchInv /\ FlowInv, [Next]_vars
        PROVE  [(~auto /\ <<h.p.store, h.s.store>>' # <<h.p.store, h.s.store>>)
                  => CallerCommits \/ Exit]_vars
    BY <1>1, <1>2
  <1>3. QED  BY FlowHolds, <1>2, PTL DEF Spec, OwnedWaits

-----------------------------------------------------------------------------
\* What is durable, and what the open connections see, are whole rows.
StoreWhole(k) == k.p.store \in WholeRows /\ (k.dual => k.s.store \in WholeRows)
SeenWhole(k) == k.p.open => k.p.seen \in WholeRows /\ (k.dual => k.s.seen \in WholeRows)

\* The statements T make them whole.
EndsWhole(k, T) ==
  /\ Leads(k.p.driver, k.p.seen, T, WholeRows)
  /\ k.dual => Leads(k.s.driver, k.s.seen, T, WholeRows)

OneLeft == todo = <<>> \/ (Len(todo) = 1 /\ Len(Head(todo)) = 1)

\* In the middle of a record the connections see less than the whole of it, in a
\* transaction that is undone or lost with its connection.
WholeInv ==
  ~stuck =>
    /\ StoreWhole(h)
    /\ phase \in {"idle", "loop", "over", "each"} => SeenWhole(h)
    /\ phase \in {"write", "retry"} /\ h.p.open => EndsWhole(h, todo)
    /\ phase \in {"write", "retry"} /\ Light => SeenWhole(h) /\ OneLeft
    /\ phase = "undo" /\ ~Wrote => SeenWhole(h)
    /\ phase \in Retries /\ generic /\ kind = "ck" => ~h.p.open

LEMMA WholeFrom ==
  ASSUME kind' = kind,
         ~stuck' => StoreWhole(h'),
         ~stuck' /\ phase' \in {"idle", "loop", "over", "each"} => SeenWhole(h'),
         ~stuck' /\ phase' \in {"write", "retry"} /\ h'.p.open => EndsWhole(h', todo'),
         ~stuck' /\ phase' \in {"write", "retry"} /\ Light' => SeenWhole(h') /\ OneLeft',
         ~stuck' /\ phase' = "undo" /\ ~Wrote' => SeenWhole(h'),
         ~stuck' /\ phase' \in Retries /\ generic' /\ kind = "ck" => ~h'.p.open
  PROVE  WholeInv'
  <1>1. WholeRows' = WholeRows
    BY KindStays
  <1>2. /\ StoreWhole(h)' <=> StoreWhole(h')
        /\ SeenWhole(h)' <=> SeenWhole(h')
        /\ EndsWhole(h, todo)' <=> EndsWhole(h', todo')
    BY <1>1 DEF StoreWhole, SeenWhole, EndsWhole
  <1>3. Retries' = Retries
    BY DEF Retries
  <1>4. QED  BY <1>2, <1>3, Zenon DEF WholeInv

LEMMA SparesWhole ==
  ASSUME NEW a, NEW b, Spares(a, b), StoreWhole(a)
  PROVE  StoreWhole(b) /\ (SeenWhole(a) \/ Undone(b) => SeenWhole(b))
  BY DEF Spares, Durable, StoreWhole, SeenWhole, Undone, Clean

LEMMA LeavesWhole ==
  ASSUME NEW a, NEW b, Leaves(a, b), StoreWhole(a), SeenWhole(a)
  PROVE  StoreWhole(b)
  BY DEF Leaves, StoreWhole, SeenWhole

LEMMA CommitsWhole ==
  ASSUME NEW C, NEW a \in HandlesOf(C), NEW b, NEW ok \in BOOLEAN, CommitsHandle(a, b, ok),
         StoreWhole(a), SeenWhole(a)
  PROVE  StoreWhole(b) /\ SeenWhole(b) /\ b.p.open = a.p.open
  <1>1. StoreWhole(b)
    BY CommitLeaves, LeavesWhole
  <1>2. CASE ~ok /\ CommitsTo(a.p, b.p, FALSE) /\ Kept(a, b)
    BY <1>1, <1>2 DEF CommitsTo, Kept, SeenWhole, StoreWhole
  <1>3. CASE ok /\ ~a.dual /\ CommitsTo(a.p, b.p, TRUE) /\ Kept(a, b)
    BY <1>1, <1>3 DEF CommitsTo, Kept, SeenWhole, StoreWhole
  <1>4. CASE /\ ok /\ a.dual /\ CommitsTo(a.p, b.p, TRUE) /\ b.dual = a.dual
             /\ \E q \in BOOLEAN : CommitsTo(a.s, b.s, q)
    BY <1>1, <1>4 DEF CommitsTo, SeenWhole, StoreWhole
  <1>5. QED  BY <1>2, <1>3, <1>4 DEF CommitsHandle

\* With nothing left to execute what is seen is whole.
LEMMA EndedWhole ==
  ASSUME NEW k, k.p.open => EndsWhole(k, <<>>)
  PROVE  SeenWhole(k)
  BY NothingLeft DEF EndsWhole, SeenWhole

LEMMA EndsNow ==
  ASSUME NEW k, k \in HandlesOf(Contents), SeenWhole(k), k.p.open
  PROVE  EndsWhole(k, <<>>)
  <1>1. WholeRows \subseteq Contents
    BY DEF WholeRows
  <1>2. k.p.seen \in WholeRows \cap Contents /\ (k.dual => k.s.seen \in WholeRows \cap Contents)
    BY <1>1 DEF SeenWhole
  <1>3. QED  BY <1>2, NothingLeft DEF EndsWhole

\* One statement, in a transaction or on its own.
LEMMA StepSees ==
  ASSUME h \in HandlesOf(Contents), todo \in Seq(Scripts), todo # <<>>, EndsWhole(h, todo)
  PROVE  /\ Leads(h.p.driver, Apply(h.p.driver, h.p.seen, Current), Remaining, WholeRows)
         /\ h.dual =>
              Leads(h.s.driver, Apply(h.s.driver, h.s.seen, Current), Remaining, WholeRows)
  <1>1. h.p \in Sessions(Contents) /\ h.s \in Sessions(Contents)
    BY FieldsOfHandles
  <1>2. h.p.seen \in Contents /\ h.s.seen \in Contents
    BY <1>1 DEF Sessions, SessionRecords
  <1>3. QED  BY <1>2, LeadsStep DEF EndsWhole

LEMMA StepCovered ==
  ASSUME h \in HandlesOf(Contents), todo \in Seq(Scripts), todo # <<>>, NEW k, NEW ok \in BOOLEAN,
         ExecutesHandle(h, Current, k, ok), Transacted(h), is_transaction_active(h),
         StoreWhole(h), h.p.open => EndsWhole(h, todo)
  PROVE  StoreWhole(k) /\ (ok => EndsWhole(k, Remaining))
  <1>1. StoreWhole(k)
    <2>1. k.p.store = h.p.store /\ k.s.store = h.s.store /\ k.dual = h.dual
      BY ExecuteWaits DEF ExecutesHandle
    <2>2. QED  BY <2>1 DEF StoreWhole
  <1>2. CASE ok
    <2>1. h.p.open /\ k.p.seen = Apply(h.p.driver, h.p.seen, Current) /\ k.p.driver = h.p.driver
      BY <1>2 DEF ExecutesHandle, ExecutesTo
    <2>2. h.dual => k.s.seen = Apply(h.s.driver, h.s.seen, Current) /\ k.s.driver = h.s.driver
      BY <1>2 DEF ExecutesHandle, ExecutesTo, is_transaction_active
    <2>3. k.dual = h.dual
      BY DEF ExecutesHandle
    <2>4. QED  BY <1>1, <2>1, <2>2, <2>3, StepSees DEF EndsWhole
  <1>3. QED  BY <1>1, <1>2

\* After the one statement that is left nothing is.
LEMMA LastOne ==
  ASSUME todo \in Seq(Scripts), todo # <<>>, OneLeft
  PROVE  Remaining = <<>>
  <1>1. Len(todo) = 1 /\ Len(Head(todo)) = 1
    BY DEF OneLeft
  <1>2. Tail(todo) \in Seq(Scripts) /\ Len(Tail(todo)) = Len(todo) - 1
    BY HeadTailProperties
  <1>3. Len(Tail(todo)) = 0
    BY <1>1, <1>2
  <1>4. Tail(todo) = <<>>
    BY <1>2, <1>3, EmptySeq, Zenon
  <1>5. QED  BY <1>1, <1>4 DEF Remaining

LEMMA StepAlone ==
  ASSUME h \in HandlesOf(Contents), todo \in Seq(Scripts), todo # <<>>, NEW k, NEW ok \in BOOLEAN,
         ExecutesHandle(h, Current, k, ok), StoreWhole(h), SeenWhole(h), OneLeft,
         h.p.open => EndsWhole(h, todo)
  PROVE  /\ StoreWhole(k) /\ SeenWhole(k) /\ Remaining = <<>>
         /\ k.p.open => h.p.open
  <1> DEFINE a == Apply(h.p.driver, h.p.seen, Current)
             b == Apply(h.s.driver, h.s.seen, Current)
  <1>1. Remaining = <<>>
    BY LastOne
  <1>2. k.p.open => h.p.open
    BY DEF ExecutesHandle, ExecutesTo
  <1>3. CASE h.p.open
    <2>1. a \in WholeRows /\ (h.dual => b \in WholeRows)
      BY <1>1, <1>3, StepSees, NothingLeft
    <2>2. \A q \in BOOLEAN : ExecutesTo(h.p, Current, k.p, q)
                               => k.p.store \in WholeRows /\ k.p.seen \in WholeRows
      BY <1>3, <2>1 DEF ExecutesTo, StoreWhole, SeenWhole
    <2>3. h.dual => \A q \in BOOLEAN : ExecutesTo(h.s, Current, k.s, q)
                               => k.s.store \in WholeRows /\ k.s.seen \in WholeRows
      BY <1>3, <2>1 DEF ExecutesTo, StoreWhole, SeenWhole
    <2>4. /\ k.dual = h.dual /\ \E q \in BOOLEAN : ExecutesTo(h.p, Current, k.p, q)
          /\ h.dual => k.s = h.s \/ \E q \in BOOLEAN : ExecutesTo(h.s, Current, k.s, q)
      BY DEF ExecutesHandle, Kept
    <2>5. QED  BY <1>1, <1>2, <1>3, <2>2, <2>3, <2>4 DEF StoreWhole, SeenWhole
  <1>4. CASE ~h.p.open
    <2>1. k.dual = h.dual /\ k.p.store = h.p.store /\ k.s = h.s
      BY <1>4 DEF ExecutesHandle, ExecutesTo, Kept
    <2>2. QED  BY <1>1, <1>2, <1>4, <2>1 DEF StoreWhole, SeenWhole
  <1>5. QED  BY <1>3, <1>4

\* What is written without a transaction of the writer is one statement.
LEMMA WritesAlone ==
  ASSUME kind \in Kinds, pos \in Nat, NEW n, Flushes(n), kind = "rows" \/ Direct(pos + 1)
  PROVE  /\ Len(Statements(Batch(n))) = 1
         /\ Len(Head(Statements(Batch(n)))) = 1
  <1> DEFINE B == Batch(n)
             r == Rec(B[1])
             s == ManyRows([i \in 1..Len(B) |-> Rec(B[i])])
             T == [i \in 1..Len(B) |-> Script(kind, Rec(B[i]))]
  <1>1. n \in pos + 1 .. Len(Records) /\ Len(Records) \in Nat
    BY RecordsAreParsed DEF Flushes
  <1>2. Len(B) = n - pos /\ B[1] = pos + 1
    <2>1. 1 \in 1..n - pos
      BY <1>1
    <2>2. QED  BY <1>1, <2>1, BatchIs
  <1>3. CASE ~Direct(B[1])
    <2>1. kind = "rows"
      BY <1>2, <1>3
    <2>2. Statements(B) = <<<<s>>>>
      BY <1>3, <2>1 DEF Statements
    <2> HIDE DEF s
    <2>3. QED  BY <2>2
  <1>4. CASE Direct(B[1])
    <2>1. n = pos + 1
      <3>1. n > pos + 1 => ~Direct(pos + 1)
        <4>1. pos + 1 \in pos + 1 .. n
          BY <1>1
        <4>2. QED  BY <4>1 DEF Flushes
      <3>2. QED  BY <1>1, <1>2, <1>4, <3>1
    <2>2. Statements(B) = T
      BY <1>4, Zenon DEF Statements, Direct
    <2>3. Len(B) = 1
      BY <1>2, <2>1
    <2>4. \E x : Script(kind, r) = <<x>>
      BY <1>4, ScriptShapes DEF Direct
    <2>5. T \in [1..1 -> {Script(kind, r)}] /\ T[1] = Script(kind, r)
      BY <2>3
    <2> HIDE DEF T, B
    <2>6. T \in Seq({Script(kind, r)}) /\ Len(T) = 1 /\ Head(T) = Script(kind, r)
      <3>1. Len(T) = 1 /\ T \in Seq({Script(kind, r)})
        BY <2>5, FunctionIsSequence
      <3>2. Head(T) = T[1]
        OBVIOUS
      <3>3. QED  BY <2>5, <3>1, <3>2
    <2>7. Len(Script(kind, r)) = 1
      BY <2>4
    <2>8. QED  BY <2>2, <2>6, <2>7 DEF B
  <1>5. QED  BY <1>3, <1>4

\* What the handle sees is whole before a script begins: it ends whole.
LEMMA BeginsWhole ==
  ASSUME NEW k, SeenWhole(k), k.p.open, NEW T,
         \A d : \A c \in WholeRows : Leads(d, c, T, WholeRows)
  PROVE  EndsWhole(k, T)
  BY DEF SeenWhole, EndsWhole

LEMMA WholeStep ==
  ASSUME TypeInv, BatchInv, FlowInv, WholeInv, Next
  PROVE  WholeInv'
  <1>1. /\ importer' = importer /\ kind' = kind /\ auto' = auto /\ single' = single
        /\ \A i : Direct(i)' = Direct(i)
    BY Stays, KindStays
  <1>2. /\ h \in HandlesOf(Contents) /\ kind \in Kinds /\ auto \in BOOLEAN /\ raised \in BOOLEAN
        /\ todo \in Seq(Scripts) /\ pos \in Nat
    BY DEF TypeInv, BatchInv
  <1>3. ~stuck =>
          /\ StoreWhole(h)
          /\ phase \in {"idle", "loop", "over", "each"} => SeenWhole(h)
          /\ phase \in {"write", "retry"} /\ h.p.open => EndsWhole(h, todo)
          /\ phase \in {"write", "retry"} /\ Light => SeenWhole(h) /\ OneLeft
          /\ phase = "undo" /\ ~Wrote => SeenWhole(h)
          /\ phase \in Retries /\ generic /\ kind = "ck" => ~h.p.open
    BY Zenon DEF WholeInv
  \* The step ends whole.
  <1>4. ASSUME phase' \in {"loop", "over", "undo"}, ~stuck' => StoreWhole(h') /\ SeenWhole(h')
        PROVE  WholeInv'
    BY <1>1, <1>4, WholeFrom DEF Retries
  <1>5. ASSUME phase' \in {"loop", "over", "undo"}, ~stuck' => ~stuck /\ SeenWhole(h),
               Spares(h, h')
        PROVE  WholeInv'
    BY <1>3, <1>4, <1>5, SparesWhole
  \* What was written is undone.
  <1>6. ASSUME phase' \in {"loop", "over"}, ~stuck' => ~stuck /\ (Undone(h') \/ SeenWhole(h)),
               Spares(h, h')
        PROVE  WholeInv'
    BY <1>3, <1>4, <1>6, SparesWhole
  <1>7. ASSUME phase' = "each", ~stuck' => ~stuck /\ (Undone(h') \/ SeenWhole(h)),
               Spares(h, h'), generic' /\ kind = "ck" /\ ~stuck' => ~h'.p.open
        PROVE  WholeInv'
    <2>1. ~stuck' => StoreWhole(h') /\ SeenWhole(h')
      BY <1>3, <1>7, SparesWhole
    <2>2. QED  BY <1>1, <1>7, <2>1, WholeFrom DEF Retries
  <1>8. CASE Start
    <2>1. /\ h' \in HandlesOf(Contents) /\ phase' \in {"loop", "over"}
          /\ phase \in {"idle", "over"} /\ stuck' = stuck
          /\ auto => h' = h
          /\ ~auto => BeginsHandle(Contents, h, h', phase' = "loop")
      BY <1>2, <1>8, StartHandle DEF Start
    <2>2. Spares(h, h')
      BY <1>2, <2>1, BeginSpares, SparesItself
    <2>3. QED  BY <1>3, <1>5, <2>1, <2>2
  <1>9. CASE BeginSingle
    <2>1. /\ h' \in HandlesOf(Contents) /\ phase' \in {"loop", "over"}
          /\ phase = "loop" /\ stuck' = stuck
          /\ BeginsHandle(Contents, h, h', phase' = "loop")
      BY <1>2, <1>9, BeginSingleHandle DEF BeginSingle, aux
    <2>2. Spares(h, h')
      BY <1>2, <2>1, BeginSpares
    <2>3. QED  BY <1>3, <1>5, <2>1, <2>2
  <1>10. ASSUME NEW n, phase = "loop", Flushes(n), Take(n) PROVE WholeInv'
    <2>1. /\ h' \in HandlesOf(Contents) /\ phase' \in {"write", "undo"}
          /\ ~Owns(n) => h' = h /\ phase' = "write"
          /\ Owns(n) => BeginsHandle(Contents, h, h', phase' = "write")
          /\ batch' = Batch(n) /\ todo' = Statements(Batch(n)) /\ stuck' = stuck
          /\ \A i \in pos + 1 .. n : Prepared(kind, Rec(i))
      BY <1>2, <1>10, TakeHandle DEF Take, aux
    <2>2. Spares(h, h')
      BY <1>2, <2>1, BeginSpares, SparesItself
    <2>3. ~stuck => StoreWhole(h') /\ SeenWhole(h')
      BY <1>3, <1>10, <2>2, SparesWhole
    <2>4. \A d : \A c \in WholeRows : Leads(d, c, todo', WholeRows)
      BY <1>2, <1>10, <2>1, StatementsLead
    <2>5. ~stuck /\ h'.p.open => EndsWhole(h', todo')
      BY <2>3, <2>4, BeginsWhole
    <2>6. phase' = "write" /\ Light' => OneLeft'
      <3>1. SUFFICES ASSUME phase' = "write", Light' PROVE OneLeft'
        OBVIOUS
      <3>2. ~Coupled'
        BY <3>1 DEF Light
      <3>3. n \in pos + 1 .. Len(Records) /\ Batch(n)[1] = pos + 1
        <4>1. n \in pos + 1 .. Len(Records) /\ Len(Records) \in Nat
          BY <1>2, <1>10, RecordsAreParsed DEF Flushes
        <4>2. 1 \in 1..n - pos
          BY <1>2, <4>1
        <4>3. QED  BY <1>2, <4>1, <4>2, BatchIs
      <3>4. kind = "rows" \/ Direct(pos + 1)
        BY <1>1, <2>1, <3>2, <3>3 DEF Coupled, DirectBatch
      <3>5. QED  BY <1>2, <1>10, <2>1, <3>4, WritesAlone DEF OneLeft
    <2>7. CASE phase' = "undo"
      BY <1>4, <2>1, <2>3, <2>7
    <2>8. CASE phase' = "write"
      BY <1>1, <2>1, <2>3, <2>5, <2>6, <2>8, WholeFrom DEF Retries
    <2>9. QED  BY <2>1, <2>7, <2>8
  <1>11. ASSUME NEW n, phase = "loop", Refuse(n) PROVE WholeInv'
    <2>1. Spares(h, h') /\ phase' = "over" /\ (~stuck' => ~stuck)
      BY <1>2, <1>11, RefuseHandle
    <2>2. QED  BY <1>3, <1>5, <1>11, <2>1
  <1>12. CASE Return
    <2>1. h' = h /\ stuck' = stuck /\ phase = "loop" /\ phase' = "over"
      BY <1>12 DEF Return, End, aux
    <2>2. QED  BY <1>3, <1>5, <2>1, SparesItself
  <1>13. CASE Step
    <2>1. /\ h' \in HandlesOf(Contents) /\ phase \in {"write", "retry"} /\ todo # <<>>
          /\ phase' = phase \/ (phase = "write" /\ phase' = "undo")
                            \/ (phase = "retry" /\ phase' = "unretry")
          /\ ExecutesHandle(h, Current, h', phase' = phase)
          /\ todo' = IF phase' = phase THEN Remaining ELSE todo
          /\ UNCHANGED <<batch, generic, stuck>> /\ (phase' = phase) \in BOOLEAN
      BY <1>2, <1>13, StepHandle DEF Step, aux
    <2>2. (Coupled' <=> Coupled) /\ (phase' = phase => (Light' <=> Light))
      BY <1>1, <2>1 DEF DirectBatch, Coupled, Light
    <2>3. h'.p.open => h.p.open
      BY <2>1 DEF ExecutesHandle, ExecutesTo
    <2>4. CASE ~Light
      <3>1. is_transaction_active(h) /\ Transacted(h)
        BY <2>1, <2>4 DEF FlowInv, Retries
      <3>2. ~stuck => StoreWhole(h') /\ (phase' = phase => EndsWhole(h', Remaining))
        BY <1>2, <1>3, <2>1, <3>1, StepCovered
      <3>3. phase = "write" => Coupled
        BY <2>4 DEF Light
      <3>4. phase' = "undo" => Wrote'
        <4>1. phase' = "undo" => Coupled' /\ todo' = todo
          BY <2>1, <2>2, <3>3
        <4>2. QED  BY <2>1, <4>1 DEF Wrote
      <3>5. phase \in Retries /\ generic /\ kind = "ck" => ~h'.p.open
        BY <2>1, <2>4 DEF Light, Retries
      <3>6. QED
        BY <1>1, <2>1, <2>2, <2>3, <2>4, <3>2, <3>4, <3>5, WholeFrom DEF Retries, Light
    <2>5. CASE Light
      <3>1. ~stuck => /\ StoreWhole(h') /\ SeenWhole(h') /\ Remaining = <<>>
        BY <1>2, <1>3, <2>1, <2>5, StepAlone
      <3>2. ~stuck /\ h'.p.open => EndsWhole(h', <<>>)
        BY <2>1, <3>1, EndsNow
      <3>3. phase' = phase /\ ~stuck => OneLeft'
        BY <2>1, <3>1 DEF OneLeft
      <3>4. phase \in Retries /\ generic /\ kind = "ck" /\ ~stuck => ~h'.p.open
        BY <1>3, <2>3
      <3>5. QED
        BY <1>1, <2>1, <2>2, <2>5, <3>1, <3>2, <3>3, <3>4, WholeFrom DEF Retries
    <2>6. QED  BY <2>4, <2>5
  <1>14. CASE Finish
    <2>1. /\ h' \in HandlesOf(Contents) /\ phase' \in {"loop", "undo"} /\ phase = "write"
          /\ todo = <<>> /\ stuck' = stuck
          /\ ~auto => h' = h /\ phase' = "loop"
          /\ auto => CommitsHandle(h, h', phase' = "loop")
          /\ (phase' = "loop") \in BOOLEAN
      BY <1>2, <1>14, FinishHandle DEF Finish, aux
    <2>2. ~stuck => StoreWhole(h) /\ SeenWhole(h)
      BY <1>3, <2>1, EndedWhole
    <2>3. ~stuck => StoreWhole(h') /\ SeenWhole(h')
      BY <1>2, <2>1, <2>2, CommitsWhole
    <2>4. QED  BY <1>4, <2>1, <2>3
  <1>15. CASE UndoAndRetry
    <2>1. Spares(h, h') /\ Undone(h')
      BY <1>2, <1>15, UndoAndRetryHandle
    <2>2. phase' = "each" /\ generic' = FALSE /\ stuck' = stuck
      BY <1>15 DEF UndoAndRetry, Continue, aux
    <2>3. QED  BY <1>7, <2>1, <2>2
  <1>16. CASE AutoUndo
    <2>1. /\ Spares(h, h') /\ phase' \in {"each", "over"} /\ auto /\ phase = "undo"
          /\ ~stuck' => ~stuck
          /\ Wrote /\ ~stuck' => Undone(h')
          /\ phase' = "each" /\ kind = "ck" /\ auto /\ ~stuck' => ~h'.p.open
      BY <1>2, <1>16, AutoUndoHandle DEF AutoUndo
    <2>2. ~stuck' => ~stuck /\ (Undone(h') \/ SeenWhole(h))
      BY <1>3, <2>1
    <2>3. QED  BY <1>6, <1>7, <2>1, <2>2
  <1>17. CASE OwnedUndo
    <2>1. Spares(h, h') /\ phase' = "over" /\ (~stuck' => ~stuck /\ Undone(h'))
      BY <1>2, <1>17, OwnedUndoHandle
    <2>2. QED  BY <1>6, <2>1
  <1>18. CASE SingleUndo
    <2>1. /\ Spares(h, h') /\ phase' \in {"loop", "over"} /\ phase = "undo"
          /\ ~stuck' => ~stuck
          /\ Wrote /\ ~stuck' => Undone(h')
      BY <1>2, <1>18, SingleUndoHandle DEF SingleUndo
    <2>2. ~stuck' => ~stuck /\ (Undone(h') \/ SeenWhole(h))
      BY <1>3, <2>1
    <2>3. QED  BY <1>6, <2>1, <2>2
  <1>19. CASE Each
    <2> DEFINE r == Rec(batch[at])
               p == <<Stmt("parent", r, "a")>>
               q == <<PutHead(r)>>
               t == Script(kind, r)
    <2>1. /\ h' \in HandlesOf(Contents) /\ phase = "each" /\ phase' \in {"retry", "unretry"}
          /\ UNCHANGED <<batch, generic, stuck>> /\ at <= Len(batch)
          /\ generic => h' = h /\ phase' = "retry"
          /\ ~generic => BeginsHandle(Contents, h, h', phase' = "retry")
          /\ todo' = IF generic /\ kind = "ck" THEN <<p>> ELSE IF generic THEN <<q>> ELSE <<t>>
      BY <1>2, <1>19, EachHandle DEF Each, aux
    <2>2. Spares(h, h')
      BY <1>2, <2>1, BeginSpares, SparesItself
    <2>3. ~stuck => StoreWhole(h') /\ SeenWhole(h')
      BY <1>3, <2>1, <2>2, SparesWhole
    <2>4. /\ batch[at] \in DOMAIN Records /\ r \in Parsed /\ Prepared(kind, r)
      BY <2>1, EachWrites
    <2>5. \A d : \A c \in WholeRows : Leads(d, c, <<t>>, WholeRows)
      BY <1>2, <2>4, ScriptLeads
    <2>6. generic /\ kind # "ck" => q = t
      <3>1. SUFFICES ASSUME generic, kind # "ck" PROVE q = t
        OBVIOUS
      <3>2. kind = "rows" /\ ~DirectBatch
        BY <2>1, <3>1 DEF FlowInv, Retries
      <3>3. ~Erases(r)
        <4>1. at \in DOMAIN batch
          BY <2>1 DEF BatchInv, Retries
        <4>2. ~Direct(batch[at])
          BY <3>2, <4>1 DEF BatchInv
        <4>3. QED  BY <3>2, <4>2 DEF Direct
      <3>4. QED  BY <3>2, <3>3, ScriptShapes
    <2>7. generic /\ kind = "ck" /\ ~stuck => ~h'.p.open
      BY <1>3, <2>1 DEF Retries
    <2>8. generic => \E x : todo' = <<<<x>>>>
      BY <2>1
    <2>9. generic => OneLeft'
      BY <2>8 DEF OneLeft
    <2> HIDE DEF p, q, t
    <2>10. ~stuck /\ h'.p.open => todo' = <<t>>
      BY <2>1, <2>6, <2>7
    <2>11. ~stuck /\ h'.p.open => EndsWhole(h', todo')
      BY <2>3, <2>5, <2>10, BeginsWhole
    <2>12. phase' = "retry" /\ Light' => OneLeft'
      BY <2>1, <2>9 DEF Light
    <2>13. QED
      BY <1>1, <2>1, <2>3, <2>7, <2>11, <2>12, WholeFrom DEF Retries
  <1>20. CASE EachDone
    <2>1. h' = h /\ phase = "each" /\ phase' = "loop" /\ stuck' = stuck
      BY <1>20 DEF EachDone, aux
    <2>2. QED  BY <1>3, <1>5, <2>1, SparesItself
  <1>21. CASE Retried
    <2>1. /\ h' \in HandlesOf(Contents) /\ phase' \in {"each", "unretry"} /\ phase = "retry"
          /\ CommitsHandle(h, h', phase' = "each") /\ UNCHANGED <<batch, generic, stuck>>
          /\ todo = <<>> /\ (phase' = "each") \in BOOLEAN
      BY <1>2, <1>21, RetriedHandle DEF Retried, aux
    <2>2. ~stuck => StoreWhole(h) /\ SeenWhole(h)
      BY <1>3, <2>1, EndedWhole
    <2>3. ~stuck => StoreWhole(h') /\ SeenWhole(h') /\ h'.p.open = h.p.open
      BY <1>2, <2>1, <2>2, CommitsWhole
    <2>4. ~stuck /\ generic /\ kind = "ck" => ~h'.p.open
      BY <1>3, <2>1, <2>3 DEF Retries
    <2>5. QED  BY <1>1, <2>1, <2>3, <2>4, WholeFrom DEF Retries
  <1>22. CASE RetryFails
    <2>1. /\ Spares(h, h') /\ Undone(h') /\ phase = "unretry" /\ phase' = "each"
          /\ UNCHANGED <<generic, stuck>> /\ (h'.p.open => h.p.open)
      BY <1>2, <1>22, RetryFailsHandle DEF RetryFails, aux, Undone
    <2>2. generic' /\ kind = "ck" /\ ~stuck' => ~h'.p.open
      BY <1>3, <2>1 DEF Retries
    <2>3. QED  BY <1>7, <2>1, <2>2
  <1>23. CASE RetryRaises
    <2>1. /\ Spares(h, h') /\ phase' \in {"each", "loop", "over"}
          /\ ~stuck' => ~stuck /\ Undone(h')
          /\ phase' = "each" /\ ~stuck' => ~h'.p.open
      BY <1>2, <1>23, RetryRaisesHandle
    <2>2. QED  BY <1>6, <1>7, <2>1
  <1>24. CASE CallerCommits
    <2>1. /\ CommitsHandle(h, h', ~raised') /\ phase = "over" /\ phase' = "over"
          /\ (~raised') \in BOOLEAN /\ stuck' = stuck
      BY <1>2, <1>24, CallerCommitsHandle DEF CallerCommits, aux
    <2>2. ~stuck => StoreWhole(h') /\ SeenWhole(h')
      BY <1>2, <1>3, <2>1, CommitsWhole
    <2>3. QED  BY <1>4, <2>1, <2>2
  <1>25. CASE Exit
    <2>1. Leaves(h, h') /\ phase = "over" /\ phase' = "out" /\ ~h'.p.open /\ stuck' = stuck
      <3>1. Leaves(h, h') /\ phase' = "out" /\ ~h'.p.open
        BY <1>2, <1>25, ExitHandle
      <3>2. phase = "over" /\ stuck' = stuck
        BY <1>25, Zenon DEF Exit, aux
      <3>3. QED  BY <3>1, <3>2
    <2>2. ~stuck => StoreWhole(h')
      <3>1. CASE h.p.open
        BY <1>3, <2>1, <3>1, LeavesWhole
      <3>2. CASE ~h.p.open
        BY <1>3, <2>1, <3>2 DEF Leaves, StoreWhole
      <3>3. QED  BY <3>1, <3>2
    <2>3. QED  BY <1>1, <2>1, <2>2, WholeFrom DEF Retries
  <1>26. QED
    BY <1>8, <1>9, <1>10, <1>11, <1>12, <1>13, <1>14, <1>15, <1>16, <1>17, <1>18, <1>19,
       <1>20, <1>21, <1>22, <1>23, <1>24, <1>25 DEF Next, NextBatch

LEMMA InitWhole == Init => WholeInv
  <1> SUFFICES ASSUME Init PROVE WholeInv
    OBVIOUS
  <1>1. Opened(h, NoRows) /\ NoRows \in WholeRows
    BY InitHandle, NoRowsIs
  <1>2. phase = "idle"
    BY DEF Init
  <1>3. StoreWhole(h) /\ SeenWhole(h)
    BY <1>1 DEF Opened, StoreWhole, SeenWhole
  <1>4. QED  BY <1>2, <1>3 DEF WholeInv, Retries

LEMMA WholeEntries ==
  ASSUME WholeInv, kind \in Kinds
  PROVE  CoupledComplete
  <1>1. ASSUME NEW e, NEW k, WholeEntry(e, k) PROVE WholeKey(e, k)
    BY <1>1 DEF WholeEntry, WholeKey
  <1>2. QED  BY <1>1 DEF WholeInv, StoreWhole, WholeRows, CoupledComplete

\* Whatever fails, the writers are whole outside a record of their own.
LEMMA WholeHolds == Spec => []WholeInv
  <1>1. TypeInv /\ BatchInv /\ FlowInv /\ WholeInv /\ [Next]_vars => WholeInv'
    <2>1. TypeInv /\ BatchInv /\ FlowInv /\ WholeInv /\ Next => WholeInv'
      BY WholeStep, Zenon
    <2>2. ASSUME WholeInv, UNCHANGED vars PROVE WholeInv'
      <3>1. /\ UNCHANGED <<h, phase, kind, batch, todo, generic, stuck>>
        BY <2>2 DEF vars, what, work, aux
      <3>2. /\ Light' <=> Light
            /\ Wrote' <=> Wrote
        BY <3>1, KindStays DEF Light, Wrote, Coupled, DirectBatch
      <3>3. QED  BY <2>2, <3>1, <3>2, WholeFrom, Zenon DEF WholeInv, OneLeft
    <2>3. QED  BY <2>1, <2>2
  <1>2. QED  BY FlowHolds, InitWhole, <1>1, PTL DEF Spec

\* What is durable of a coupled record, in either database, is one version of it
\* or nothing, whatever the records, the batches, the drivers and the failures:
\* between statements the handle sees less than a whole record, but then it is in
\* a transaction, and what undoes that one leaves what was durable.
THEOREM CoupledRowsComplete == Spec => []CoupledComplete
  <1>1. TypeInv /\ WholeInv => CoupledComplete
    BY WholeEntries DEF TypeInv
  <1>2. QED  BY FlowHolds, WholeHolds, <1>1, PTL

-----------------------------------------------------------------------------
(***************************************************************************)
(* The mirror.                                                             *)
(***************************************************************************)
\* The call from handle a to handle b neither forgets a loss nor a secondary
\* that fell behind.
Remembers(a, b) ==
  /\ b.dual = a.dual /\ (b.sync => a.sync)
  /\ b.p.driver = a.p.driver /\ b.s.driver = a.s.driver
  /\ (a.p.lost => b.p.lost) /\ (a.s.lost => b.s.lost)

LEMMA SparesRemember ==
  ASSUME NEW a, NEW b, Spares(a, b)
  PROVE  Remembers(a, b)
  BY DEF Spares, Durable, Remembers

LEMMA CommitRemembers ==
  ASSUME NEW a, NEW b, NEW ok \in BOOLEAN, CommitsHandle(a, b, ok)
  PROVE  Remembers(a, b)
  BY DEF CommitsHandle, CommitsTo, Kept, Remembers

LEMMA ExecuteRemembers ==
  ASSUME NEW a, NEW b, NEW s, NEW ok \in BOOLEAN, ExecutesHandle(a, s, b, ok)
  PROVE  Remembers(a, b)
  <1>1. \A x, y, q : ExecutesTo(x, s, y, q) => y.driver = x.driver /\ (x.lost => y.lost)
    BY DEF ExecutesTo
  <1>2. QED  BY <1>1 DEF ExecutesHandle, Kept, Remembers

\* A dual handle whose secondary waits for commits and is in sync.
PairedWith(k) ==
  k.dual /\ k.sync /\ k.s.driver = "psycopg" /\ ~k.p.lost /\ ~k.s.lost

LEMMA PairedBefore ==
  ASSUME NEW a, NEW b, Remembers(a, b), PairedWith(b)
  PROVE  PairedWith(a)
  BY DEF Remembers, PairedWith

\* Both databases hold the same rows; the open connections see the same and
\* refuse nothing; the statements T lead both to the same.
StoreSame(k) == k.p.store = k.s.store
SeeSame(k) == k.p.open => k.p.seen = k.s.seen /\ ~k.p.failed /\ ~k.s.failed
LeadSame(k, T) ==
  k.p.open =>
    /\ \E w \in Contents : /\ Leads(k.p.driver, k.p.seen, T, {w})
                           /\ Leads(k.s.driver, k.s.seen, T, {w})
    /\ T = <<>> => ~k.p.failed /\ ~k.s.failed

\* A primary that commits every statement is ahead of the secondary's commit.
Ahead(k) == ~InTransaction(k.p) /\ k.p.seen = k.s.seen

LEMMA SparesSame ==
  ASSUME NEW a, NEW b, Spares(a, b), StoreSame(a)
  PROVE  StoreSame(b) /\ (Undone(b) /\ Calm(b) /\ b.dual => SeeSame(b))
  BY DEF Spares, Durable, StoreSame, SeeSame, Undone, Clean, Calm

LEMMA BeginSame ==
  ASSUME NEW C, NEW a \in HandlesOf(C), NEW b \in HandlesOf(C),
         BeginsHandle(C, a, b, TRUE), a.dual, SeeSame(a)
  PROVE  SeeSame(b)
  <1> DEFINE ok == TRUE
  <1>0. ok \in BOOLEAN /\ ok /\ BeginsHandle(C, a, b, ok)
    OBVIOUS
  <1> HIDE DEF ok
  <1>1. /\ Spares(a, b)
        /\ a.p.open => b.p.seen = a.p.seen /\ b.s.seen = a.s.seen
        /\ b.p.failed = a.p.failed /\ b.s.failed = a.s.failed
    <2>1. /\ Spares(a, b)
          /\ ok /\ a.p.open => b.p.open /\ b.p.seen = a.p.seen /\ (a.dual => b.s.seen = a.s.seen)
          /\ ok => b.p.failed = a.p.failed /\ (a.dual => b.s.failed = a.s.failed)
      BY <1>0, BeginSpares, Zenon
    <2>2. QED  BY <1>0, <2>1
  <1>2. b.p.open => a.p.open
    BY <1>1 DEF Spares
  <1>3. QED  BY <1>1, <1>2 DEF SeeSame

LEMMA EndSame ==
  ASSUME NEW k, LeadSame(k, <<>>)
  PROVE  SeeSame(k)
  BY NothingLeft DEF LeadSame, SeeSame

\* A commit that returned was one of both databases; one that raised changed
\* nothing, for its answer was not lost.
LEMMA CommitSame ==
  ASSUME NEW a, NEW b, NEW ok \in BOOLEAN, CommitsHandle(a, b, ok), PairedWith(b), SeeSame(a),
         StoreSame(a) \/ (Ahead(a) /\ a.p.open /\ ~a.p.broken)
  PROVE  StoreSame(b) /\ (ok => SeeSame(b))
  <1>1. CASE ok
    <2>1. CommitsTo(a.p, b.p, TRUE) /\ CommitsTo(a.s, b.s, TRUE)
      BY <1>1 DEF CommitsHandle, PairedWith
    <2>2. QED  BY <1>1, <2>1 DEF CommitsTo, SeeSame, StoreSame
  <1>2. CASE ~ok
    <2>1. CommitsTo(a.p, b.p, FALSE) /\ b.s = a.s
      BY <1>2 DEF CommitsHandle, Kept
    <2>2. b.p.store = a.p.store /\ StoreSame(a)
      BY <2>1 DEF CommitsTo, PairedWith, Ahead
    <2>3. QED  BY <1>2, <2>1, <2>2 DEF StoreSame
  <1>3. QED  BY <1>1, <1>2

\* Two auxiliary variables never turn back.
LEMMA Recalled ==
  ASSUME TypeInv, Next
  PROVE  (~stuck' => ~stuck) /\ (~carried' => ~carried)
  <1>1. h \in HandlesOf(Contents)
    BY DEF TypeInv
  <1>2. Start => stuck' = stuck /\ (~carried' => ~carried)
    BY DEF Start
  <1>3. /\ BeginSingle => UNCHANGED <<stuck, carried>>
        /\ Return => UNCHANGED <<stuck, carried>>
        /\ Step => UNCHANGED <<stuck, carried>>
        /\ Finish => UNCHANGED <<stuck, carried>>
    BY DEF BeginSingle, Return, Step, Finish, aux
  <1>4. /\ UndoAndRetry => UNCHANGED <<stuck, carried>>
        /\ Each => UNCHANGED <<stuck, carried>>
        /\ EachDone => UNCHANGED <<stuck, carried>>
        /\ Retried => UNCHANGED <<stuck, carried>>
        /\ RetryFails => UNCHANGED <<stuck, carried>>
        /\ CallerCommits => UNCHANGED <<stuck, carried>>
    BY DEF UndoAndRetry, Each, EachDone, Retried, RetryFails, CallerCommits, aux
  <1>5. Exit => UNCHANGED <<stuck, carried>>
    BY Zenon DEF Exit, aux
  <1>6. AutoUndo => carried' = carried /\ (~stuck' => ~stuck)
    BY <1>1, AutoUndoHandle DEF AutoUndo
  <1>7. OwnedUndo => carried' = carried /\ (~stuck' => ~stuck)
    BY <1>1, OwnedUndoHandle DEF OwnedUndo
  <1>8. SingleUndo => carried' = carried /\ (~stuck' => ~stuck)
    BY <1>1, SingleUndoHandle DEF SingleUndo
  <1>9. RetryRaises => carried' = carried /\ (~stuck' => ~stuck)
    BY <1>1, RetryRaisesHandle DEF RetryRaises
  <1>10. \A n : Take(n) => UNCHANGED <<stuck, carried>>
    BY DEF Take, aux
  <1>11. \A n : Refuse(n) => carried' = carried /\ (~stuck' => ~stuck)
    BY <1>1, RefuseHandle DEF Refuse
  <1>12. QED
    BY <1>2, <1>3, <1>4, <1>5, <1>6, <1>7, <1>8, <1>9, <1>10, <1>11 DEF Next, NextBatch

\* When all statements were issued the connection of the primary works.
WrittenInv ==
  phase \in {"write", "retry"} /\ todo = <<>> => h.p.open /\ ~h.p.failed /\ ~h.p.broken

LEMMA WrittenStep ==
  ASSUME TypeInv, BatchInv, FlowInv, Next
  PROVE  WrittenInv'
  <1>1. /\ h \in HandlesOf(Contents) /\ todo \in Seq(Scripts) /\ kind \in Kinds /\ pos \in Nat
    BY DEF TypeInv, BatchInv
  <1>2. phase' \notin {"write", "retry"} => WrittenInv'
    BY DEF WrittenInv
  <1>3. ASSUME Start \/ BeginSingle \/ Finish \/ CallerCommits PROVE WrittenInv'
    BY <1>1, <1>2, <1>3, StartHandle, BeginSingleHandle, FinishHandle DEF CallerCommits
  <1>4. ASSUME UndoAndRetry \/ AutoUndo \/ OwnedUndo \/ SingleUndo PROVE WrittenInv'
    BY <1>1, <1>2, <1>4, AutoUndoHandle, OwnedUndoHandle, SingleUndoHandle
       DEF UndoAndRetry, Continue
  <1>5. ASSUME Return \/ EachDone \/ RetryFails \/ Exit PROVE WrittenInv'
    BY <1>2, <1>5, Zenon DEF Return, EachDone, RetryFails, Exit, End
  <1>6. ASSUME Retried \/ RetryRaises PROVE WrittenInv'
    BY <1>1, <1>2, <1>6, RetriedHandle, RetryRaisesHandle
  <1>7. ASSUME NEW n, Flushes(n), Take(n) PROVE WrittenInv'
    <2>1. todo' # <<>>
      BY <1>1, <1>7, StatementsReplay DEF Take
    <2>2. QED  BY <2>1 DEF WrittenInv
  <1>8. ASSUME NEW n, Refuse(n) PROVE WrittenInv'
    BY <1>1, <1>2, <1>8, RefuseHandle
  <1>9. CASE Each
    <2>1. todo' # <<>>
      BY <1>9 DEF Each
    <2>2. QED  BY <2>1 DEF WrittenInv
  <1>10. CASE Step
    <2>1. /\ ExecutesHandle(h, Current, h', phase' = phase) /\ todo # <<>>
          /\ todo' = IF phase' = phase THEN Remaining ELSE todo
      BY <1>1, <1>10, StepHandle DEF Step
    <2>2. todo' = <<>> => ExecutesTo(h.p, Current, h'.p, TRUE)
      BY <2>1 DEF ExecutesHandle
    <2>3. QED  BY <2>2 DEF ExecutesTo, WrittenInv
  <1>11. QED
    BY <1>3, <1>4, <1>5, <1>6, <1>7, <1>8, <1>9, <1>10 DEF Next, NextBatch

\* The statements of a retried record are its script, except those of the
\* row-by-row fallback on CK.
LEMMA EachTodo ==
  ASSUME TypeInv, BatchInv, FlowInv, Each, ~(generic /\ kind = "ck")
  PROVE  todo' = <<Script(kind, Rec(batch[at]))>>
  <1> DEFINE r == Rec(batch[at])
  <1>1. phase = "each" /\ at <= Len(batch)
        /\ todo' = IF generic THEN <<<<PutHead(r)>>>> ELSE <<Script(kind, r)>>
    BY DEF Each
  <1>2. CASE generic
    <2>1. kind = "rows" /\ ~DirectBatch
      BY <1>1, <1>2 DEF FlowInv, Retries
    <2>2. ~Direct(batch[at])
      <3>1. at \in DOMAIN batch
        BY <1>1 DEF BatchInv, Retries
      <3>2. QED  BY <2>1, <3>1 DEF BatchInv
    <2>3. ~Erases(r)
      BY <2>1, <2>2 DEF Direct
    <2>4. Script(kind, r) = <<PutHead(r)>>
      BY <2>1, <2>3, ScriptShapes
    <2>5. QED  BY <1>1, <1>2, <2>4
  <1>3. CASE ~generic
    BY <1>1, <1>3
  <1>4. QED  BY <1>2, <1>3

\* A statement that the mirrored databases both took leads both further; one
\* that was refused changed neither.
LEMMA StepSame ==
  ASSUME h \in HandlesOf(Contents), todo \in Seq(Scripts), todo # <<>>, NEW b, NEW ok \in BOOLEAN,
         ExecutesHandle(h, Current, b, ok), PairedWith(b), StoreSame(h), LeadSame(h, todo),
         InTransaction(h.p) \/ Remaining = <<>>
  PROVE  /\ ok => LeadSame(b, Remaining) /\ (StoreSame(b) \/ (Remaining = <<>> /\ Ahead(b)))
         /\ ~ok => StoreSame(b)
  <1>1. h.dual /\ b.sync /\ h.s.driver = "psycopg" /\ ~b.p.lost
    BY ExecuteRemembers DEF Remembers, PairedWith
  <1>2. CASE ok
    <2> DEFINE v == Apply(h.p.driver, h.p.seen, Current)
               u == Apply(h.s.driver, h.s.seen, Current)
    <2>1. ExecutesTo(h.p, Current, b.p, TRUE) /\ ExecutesTo(h.s, Current, b.s, TRUE)
      BY <1>1, <1>2 DEF ExecutesHandle
    <2>2. /\ h.p.open /\ b.p.seen = v /\ ~b.p.failed /\ b.p.driver = h.p.driver
          /\ b.s.seen = u /\ ~b.s.failed /\ b.s.driver = h.s.driver
      BY <2>1 DEF ExecutesTo
    <2>3. PICK w \in Contents : /\ Leads(h.p.driver, h.p.seen, todo, {w})
                                /\ Leads(h.s.driver, h.s.seen, todo, {w})
      BY <2>2 DEF LeadSame
    <2>4. h.p.seen \in Contents /\ h.s.seen \in Contents
      BY FieldsOfHandles DEF Sessions, SessionRecords
    <2>5. /\ Leads(h.p.driver, v, Remaining, {w})
          /\ Leads(h.s.driver, u, Remaining, {w})
      BY <2>3, <2>4, LeadsStep
    <2>6. Remaining = <<>> => v = w /\ u = w
      BY <2>5, NothingLeft
    <2> HIDE DEF u, v
    <2>7. LeadSame(b, Remaining)
      BY <2>2, <2>5 DEF LeadSame
    <2>8. b.s.store = h.s.store
      BY <1>1, <2>1 DEF ExecutesTo, InTransaction
    <2>9. CASE InTransaction(h.p)
      <3>1. b.p.store = h.p.store
        BY <2>1, <2>9 DEF ExecutesTo
      <3>2. QED  BY <1>2, <2>7, <2>8, <3>1 DEF StoreSame
    <2>10. CASE ~InTransaction(h.p)
      <3>1. ~InTransaction(b.p)
        BY <2>1, <2>10 DEF ExecutesTo, InTransaction
      <3>2. QED  BY <1>2, <2>2, <2>6, <2>7, <2>10, <3>1 DEF Ahead
    <2>11. QED  BY <2>9, <2>10
  <1>3. CASE ~ok
    <2>1. ExecutesTo(h.p, Current, b.p, FALSE) /\ b.s = h.s
      BY <1>1, <1>3 DEF ExecutesHandle, Kept
    <2>2. b.p.store = h.p.store
      BY <1>1, <2>1 DEF ExecutesTo
    <2>3. QED  BY <1>3, <2>1, <2>2 DEF StoreSame
  <1>4. QED  BY <1>2, <1>3

\* The end of the context commits both or neither.
LEMMA ExitSame ==
  ASSUME h \in HandlesOf(Contents), raised \in BOOLEAN, Exit, PairedWith(h'),
         PairedWith(h) => StoreSame(h) /\ (~raised => SeeSame(h))
  PROVE  StoreSame(h')
  <1> DEFINE E == IF raised THEN Rollback(h) ELSE Commit(h)
             g == [h EXCEPT !.invalid = FALSE]
  <1>1. PICK o \in ContextExit(h, raised) : h' = [o.db EXCEPT !.p = Closed(@), !.s = Closed(@)]
    BY Zenon DEF Exit
  <1>2. o.db \in HandlesOf(Contents)
    BY ExitLeaves
  <1>3. /\ h'.dual = o.db.dual /\ h'.sync = o.db.sync
        /\ h'.p.store = o.db.p.store /\ h'.p.lost = o.db.p.lost /\ h'.p.driver = o.db.p.driver
        /\ h'.s.store = o.db.s.store /\ h'.s.lost = o.db.s.lost /\ h'.s.driver = o.db.s.driver
    <2> DEFINE d == o.db
               x == Closed(d.p)
               y == Closed(d.s)
    <2>1. h' = [d EXCEPT !.p = x, !.s = y]
      BY <1>1
    <2>2. /\ x.store = d.p.store /\ x.lost = d.p.lost /\ x.driver = d.p.driver
          /\ y.store = d.s.store /\ y.lost = d.s.lost /\ y.driver = d.s.driver
      BY <1>2, FieldsOfHandles, ClosedIs DEF Sessions
    <2> HIDE DEF x, y
    <2>3. h'.dual = d.dual /\ h'.sync = d.sync /\ h'.p = x /\ h'.s = y
      BY <1>2, <2>1 DEF HandlesOf
    <2>4. QED  BY <2>2, <2>3
  <1>4. PairedWith(o.db)
    BY <1>3, Zenon DEF PairedWith
  <1>5. SUFFICES StoreSame(o.db)
    BY <1>3 DEF StoreSame
  <1>6. \/ o = Ok(g, 0)
        \/ \E x \in E : ~x.ok /\ o = x
        \/ \E x \in E : x.ok /\ \E p \in Disconnect(x.db) : o = [p EXCEPT !.faults = @ + x.faults]
    BY Zenon DEF ContextExit, Then
  <1>7. ASSUME NEW x \in E
        PROVE  /\ x \in Results(Contents) /\ x.db \in HandlesOf(Contents)
               /\ PairedWith(x.db) => StoreSame(x.db)
    <2>1. CASE raised
      <3>1. x \in Results(Contents) /\ RollsBackHandle(h, x.db, x.ok)
        BY <2>1, RollbackIs
      <3>2. x.db \in HandlesOf(Contents) /\ x.ok \in BOOLEAN
        BY <3>1, FieldsOfResults
      <3>3. Spares(h, x.db)
        BY <3>1, <3>2, RollbackUndoes, UndoSpares
      <3>4. PairedWith(x.db) => PairedWith(h)
        BY <3>3, SparesRemember, PairedBefore
      <3>5. QED  BY <3>1, <3>2, <3>3, <3>4, SparesSame
    <2>2. CASE ~raised
      <3>1. x \in Results(Contents) /\ CommitsHandle(h, x.db, x.ok)
        BY <2>2, CommitIs
      <3>2. x.db \in HandlesOf(Contents) /\ x.ok \in BOOLEAN
        BY <3>1, FieldsOfResults
      <3>3. PairedWith(x.db) => PairedWith(h)
        BY <3>1, <3>2, CommitRemembers, PairedBefore
      <3>4. QED  BY <2>2, <3>1, <3>2, <3>3, CommitSame
    <2>3. QED  BY <2>1, <2>2
  <1>8. CASE o = Ok(g, 0)
    <2>1. o.db = g
      BY <1>8 DEF Ok
    <2>2. g.dual = h.dual /\ g.p = h.p /\ g.s = h.s /\ g.sync = h.sync
      BY DEF HandlesOf
    <2>3. QED  BY <1>4, <2>1, <2>2 DEF PairedWith, StoreSame
  <1> HIDE DEF E
  <1>9. CASE \E x \in E : ~x.ok /\ o = x
    BY <1>4, <1>7, <1>9
  <1>10. CASE \E x \in E : x.ok /\ \E p \in Disconnect(x.db) : o = [p EXCEPT !.faults = @ + x.faults]
    <2>1. PICK x \in E : \E p \in Disconnect(x.db) : o = [p EXCEPT !.faults = @ + x.faults]
      BY <1>10
    <2>2. PICK p \in Disconnect(x.db) : o = [p EXCEPT !.faults = @ + x.faults]
      BY <2>1
    <2>3. x.db \in HandlesOf(Contents) /\ x.faults \in Nat
      BY <1>7, FieldsOfResults
    <2>4. p \in Results(Contents) /\ ClosesHandle(x.db, p.db, p.ok)
      BY <2>3, DisconnectIs
    <2>5. o.db = p.db
      BY <2>2, <2>3, <2>4, CountedIs
    <2>6. /\ p.db.dual = x.db.dual /\ p.db.sync = x.db.sync
          /\ Durable(x.db.p, p.db.p) /\ Durable(x.db.s, p.db.s)
      BY <2>4 DEF ClosesHandle, ClosesTo, Kept, Durable
    <2>7. PairedWith(x.db) /\ (StoreSame(x.db) => StoreSame(p.db))
      BY <1>4, <2>5, <2>6 DEF PairedWith, StoreSame, Durable
    <2>8. QED  BY <1>7, <2>5, <2>7
  <1>11. QED  BY <1>6, <1>8, <1>9, <1>10

\* The two databases of a handle that is in sync, where neither connection was
\* lost: they differ only between the last statement of a primary that commits
\* each of them and the commit of its secondary.
Paired == PairedWith(h) /\ ~(single /\ auto) /\ ~stuck /\ ~carried
MirrorInv ==
  Paired =>
    /\ StoreSame(h) \/ (phase \in {"write", "retry"} /\ todo = <<>> /\ Ahead(h))
    /\ phase \in {"idle", "loop", "each"} \/ (phase = "over" /\ ~raised) => SeeSame(h)
    /\ phase \in {"write", "retry"} => LeadSame(h, todo)

LEMMA MirrorFrom ==
  ASSUME Paired' => StoreSame(h') \/ (phase' \in {"write", "retry"} /\ todo' = <<>> /\ Ahead(h')),
         Paired' /\ (phase' \in {"idle", "loop", "each"} \/ (phase' = "over" /\ ~raised'))
           => SeeSame(h'),
         Paired' /\ phase' \in {"write", "retry"} => LeadSame(h', todo')
  PROVE  MirrorInv'
  <1>1. StoreSame(h)' <=> StoreSame(h')
    BY DEF StoreSame
  <1>2. SeeSame(h)' <=> SeeSame(h')
    BY DEF SeeSame
  <1>3. Ahead(h)' <=> Ahead(h')
    BY DEF Ahead, InTransaction
  <1>4. LeadSame(h, todo)' <=> LeadSame(h', todo')
    BY DEF LeadSame, Contents, Entries, Heads, Children
  <1>5. QED  BY <1>1, <1>2, <1>3, <1>4, Zenon DEF MirrorInv

\* A caller's transaction, and an answered commit, leave no primary ahead.
LEMMA NotAhead ==
  ASSUME FlowInv, phase = "write", ~auto, h.dual
  PROVE  InTransaction(h.p)
  BY DEF FlowInv, Transacted, is_transaction_active

LEMMA MirrorStep ==
  ASSUME TypeInv, BatchInv, FlowInv, WholeInv, WrittenInv, MirrorInv, Next
  PROVE  MirrorInv'
  <1>1. kind' = kind /\ auto' = auto /\ single' = single
    BY Stays
  <1>2. /\ h \in HandlesOf(Contents) /\ kind \in Kinds /\ auto \in BOOLEAN /\ raised \in BOOLEAN
        /\ todo \in Seq(Scripts) /\ pos \in Nat
    BY DEF TypeInv, BatchInv
  <1>3. Paired =>
          /\ StoreSame(h) \/ (phase \in {"write", "retry"} /\ todo = <<>> /\ Ahead(h))
          /\ phase \in {"idle", "loop", "each"} \/ (phase = "over" /\ ~raised) => SeeSame(h)
          /\ phase \in {"write", "retry"} => LeadSame(h, todo)
    BY Zenon DEF MirrorInv
  <1>4. Paired' => /\ PairedWith(h') /\ h'.dual /\ ~(single /\ auto) /\ ~stuck /\ ~carried /\ ~carried'
                   /\ (PairedWith(h) => Paired)
    <2>1. Paired' => PairedWith(h') /\ ~(single' /\ auto') /\ ~stuck' /\ ~carried'
      BY DEF Paired, PairedWith
    <2>2. QED  BY <1>1, <2>1, Recalled DEF Paired, PairedWith
  <1>5. ASSUME Remembers(h, h') PROVE Paired' => Paired /\ h.dual
    BY <1>4, <1>5, PairedBefore DEF PairedWith
  <1>6. ASSUME Spares(h, h') PROVE Paired' => Paired /\ h.dual /\ Remembers(h, h')
    BY <1>5, <1>6, SparesRemember
  \* Nothing durable changes where both hold the same.
  <1>7. ASSUME Spares(h, h'), phase \notin {"write", "retry"}, phase' \notin {"write", "retry"},
               Paired' /\ (phase' \in {"idle", "loop", "each"} \/ (phase' = "over" /\ ~raised'))
                 => SeeSame(h') \/ (Undone(h') /\ Calm(h'))
        PROVE  MirrorInv'
    <2>1. Paired' => StoreSame(h') /\ (Undone(h') /\ Calm(h') => SeeSame(h'))
      BY <1>3, <1>4, <1>6, <1>7, SparesSame
    <2>2. QED  BY <1>7, <2>1, MirrorFrom
  <1>8. CASE Start
    <2>1. /\ h' \in HandlesOf(Contents) /\ phase' \in {"loop", "over"}
          /\ phase \in {"idle", "over"} /\ (~carried' => ~Pending(h))
          /\ auto => h' = h /\ phase' = "loop"
          /\ ~auto => BeginsHandle(Contents, h, h', phase' = "loop")
          /\ phase' = "over" => raised' = TRUE
          /\ (phase' = "loop") \in BOOLEAN
      BY <1>2, <1>8, StartHandle DEF Start
    <2>2. Spares(h, h')
      BY <1>2, <2>1, BeginSpares, SparesItself
    <2>3. Paired' => Paired /\ h.dual /\ SeeSame(h)
      <3>1. Paired' => Paired /\ h.dual /\ StoreSame(h) /\ ~Pending(h)
        BY <1>3, <1>4, <1>6, <2>1, <2>2
      <3>2. ~Pending(h) => Clean(h) /\ Calm(h) /\ (h.dual => h.s.seen = h.s.store)
        BY <1>2, NothingPending
      <3>3. QED  BY <3>1, <3>2 DEF Clean, Calm, StoreSame, SeeSame
    <2>4. Paired' /\ phase' = "loop" => SeeSame(h')
      BY <1>2, <2>1, <2>3, BeginSame
    <2>5. QED  BY <1>7, <2>1, <2>2, <2>4
  <1>9. CASE BeginSingle
    <2>1. /\ h' \in HandlesOf(Contents) /\ phase' \in {"loop", "over"} /\ phase = "loop"
          /\ BeginsHandle(Contents, h, h', phase' = "loop") /\ (phase' = "loop") \in BOOLEAN
          /\ phase' = "over" => raised' = TRUE
      BY <1>2, <1>9, BeginSingleHandle DEF BeginSingle
    <2>2. Spares(h, h')
      BY <1>2, <2>1, BeginSpares
    <2>3. Paired' /\ phase' = "loop" => SeeSame(h')
      BY <1>2, <1>3, <1>6, <2>1, <2>2, BeginSame
    <2>4. QED  BY <1>7, <2>1, <2>2, <2>3
  <1>10. ASSUME NEW n, phase = "loop", Flushes(n), Take(n) PROVE MirrorInv'
    <2>1. /\ h' \in HandlesOf(Contents) /\ phase' \in {"write", "undo"}
          /\ ~Owns(n) => h' = h /\ phase' = "write"
          /\ Owns(n) => BeginsHandle(Contents, h, h', phase' = "write")
          /\ todo' = Statements(Batch(n)) /\ (phase' = "write") \in BOOLEAN
          /\ \A i \in pos + 1 .. n : Prepared(kind, Rec(i))
      BY <1>2, <1>10, TakeHandle DEF Take
    <2>2. Spares(h, h')
      BY <1>2, <2>1, BeginSpares, SparesItself
    <2>3. Paired' => StoreSame(h')
      BY <1>3, <1>6, <1>10, <2>2, SparesSame
    <2>4. Paired' /\ phase' = "write" => LeadSame(h', todo')
      <3>1. SUFFICES ASSUME Paired', phase' = "write", h'.p.open PROVE LeadSame(h', todo')
        BY DEF LeadSame
      <3>2. SeeSame(h')
        BY <1>2, <1>3, <1>6, <1>10, <2>1, <2>2, <3>1, BeginSame
      <3>3. h'.p.seen \in WholeRows
        <4>1. StoreWhole(h) /\ SeenWhole(h)
          BY <1>4, <1>10, <3>1, Zenon DEF WholeInv
        <4>2. QED  BY <2>2, <3>1, <4>1, SparesWhole DEF SeenWhole
      <3>4. /\ todo' # <<>> /\ pos + 1 .. n \subseteq DOMAIN Records
            /\ \A d : \A c \in WholeRows : Leads(d, c, todo', {Replay(c, pos + 1 .. n)})
        BY <1>2, <1>10, <2>1, StatementsReplay
      <3>5. Replay(h'.p.seen, pos + 1 .. n) \in Contents
        BY <1>2, <2>1, <3>3, <3>4, ReplayIsWhole DEF WholeRows
      <3>6. QED  BY <3>1, <3>2, <3>3, <3>4, <3>5 DEF SeeSame, LeadSame
    <2>5. QED  BY <2>1, <2>3, <2>4, MirrorFrom
  <1>11. ASSUME NEW n, phase = "loop", Refuse(n) PROVE MirrorInv'
    <2>1. Spares(h, h') /\ phase' = "over" /\ raised' = TRUE
      BY <1>2, <1>11, RefuseHandle
    <2>2. QED  BY <1>7, <1>11, <2>1
  <1>12. CASE Return
    <2>1. h' = h /\ phase = "loop" /\ phase' = "over"
      BY <1>12 DEF Return, End
    <2>2. QED  BY <1>3, <1>6, <1>7, <2>1, SparesItself
  <1>13. CASE Step
    <2>1. /\ phase \in {"write", "retry"} /\ todo # <<>>
          /\ phase' = phase \/ (phase = "write" /\ phase' = "undo")
                            \/ (phase = "retry" /\ phase' = "unretry")
          /\ ExecutesHandle(h, Current, h', phase' = phase) /\ (phase' = phase) \in BOOLEAN
          /\ todo' = IF phase' = phase THEN Remaining ELSE todo
      BY <1>2, <1>13, StepHandle DEF Step
    <2>2. Paired' => PairedWith(h') /\ StoreSame(h) /\ LeadSame(h, todo) /\ h.dual
      BY <1>3, <1>4, <1>5, <2>1, ExecuteRemembers
    <2>3. Paired' => InTransaction(h.p) \/ Remaining = <<>>
      <3>1. ~Light /\ h.dual => InTransaction(h.p)
        BY <2>1 DEF FlowInv, Retries, Transacted, is_transaction_active
      <3>2. Paired' /\ Light => Remaining = <<>>
        <4>1. Paired' /\ Light => OneLeft
          BY <1>4, <2>1, Zenon DEF WholeInv
        <4>2. OneLeft => Remaining = <<>>
          BY <1>2, <2>1, LastOne
        <4>3. QED  BY <4>1, <4>2
      <3>3. QED  BY <2>2, <3>1, <3>2
    <2>4. Paired' =>
            /\ phase' = phase => /\ LeadSame(h', Remaining)
                                 /\ StoreSame(h') \/ (Remaining = <<>> /\ Ahead(h'))
            /\ phase' # phase => StoreSame(h')
      BY <1>2, <2>1, <2>2, <2>3, StepSame
    <2>5. QED  BY <2>1, <2>4, MirrorFrom
  <1>14. CASE Finish
    <2>1. /\ phase' \in {"loop", "undo"} /\ phase = "write" /\ todo = <<>>
          /\ ~auto => h' = h /\ phase' = "loop"
          /\ auto => CommitsHandle(h, h', phase' = "loop")
          /\ (phase' = "loop") \in BOOLEAN
      BY <1>2, <1>14, FinishHandle DEF Finish
    <2>2. Remembers(h, h')
      BY <1>2, <2>1, CommitRemembers, SparesItself, SparesRemember
    <2>3. Paired' => /\ PairedWith(h') /\ h.dual /\ SeeSame(h)
                     /\ StoreSame(h) \/ (Ahead(h) /\ h.p.open /\ ~h.p.broken)
      BY <1>3, <1>4, <1>5, <2>1, <2>2, EndSame DEF WrittenInv
    <2>4. Paired' => StoreSame(h') /\ (phase' = "loop" => SeeSame(h'))
      <3>1. CASE auto
        BY <2>1, <2>3, <3>1, CommitSame
      <3>2. CASE ~auto
        BY <2>1, <2>3, <3>2, NotAhead DEF Ahead
      <3>3. QED  BY <1>2, <3>1, <3>2
    <2>5. QED  BY <2>1, <2>4, MirrorFrom
  <1>15. CASE UndoAndRetry
    <2>1. Spares(h, h') /\ Undone(h') /\ Calm(h')
      BY <1>2, <1>15, UndoAndRetryHandle
    <2>2. phase = "undo" /\ phase' = "each"
      BY <1>15 DEF UndoAndRetry, Continue
    <2>3. QED  BY <1>7, <2>1, <2>2
  <1>16. CASE AutoUndo
    <2>1. /\ Spares(h, h') /\ phase' \in {"each", "over"} /\ phase = "undo"
          /\ phase' = "each" => Clean(h') /\ Calm(h')
          /\ phase' = "over" => raised' = TRUE
      BY <1>2, <1>16, AutoUndoHandle DEF AutoUndo
    <2>2. QED  BY <1>7, <2>1 DEF Undone
  <1>17. CASE OwnedUndo
    <2>1. Spares(h, h') /\ phase = "undo" /\ phase' = "over" /\ raised' = TRUE
      BY <1>2, <1>17, OwnedUndoHandle DEF OwnedUndo
    <2>2. QED  BY <1>7, <2>1
  <1>18. CASE SingleUndo
    <2>1. /\ Spares(h, h') /\ phase' \in {"loop", "over"} /\ phase = "undo" /\ single
          /\ ~auto /\ ~stuck' => Undone(h')
          /\ phase' = "loop" /\ ~auto => Calm(h')
          /\ phase' = "over" => raised' = TRUE
      BY <1>2, <1>18, SingleUndoHandle DEF SingleUndo
    <2>2. Paired' => ~auto /\ ~stuck'
      BY <1>1, <2>1 DEF Paired
    <2>3. QED  BY <1>7, <2>1, <2>2
  <1>19. CASE Each
    <2>1. /\ h' \in HandlesOf(Contents) /\ phase = "each" /\ phase' \in {"retry", "unretry"}
          /\ at <= Len(batch) /\ stuck' = stuck
          /\ generic => h' = h /\ phase' = "retry"
          /\ ~generic => BeginsHandle(Contents, h, h', phase' = "retry")
          /\ (phase' = "retry") \in BOOLEAN
      BY <1>2, <1>19, EachHandle DEF Each, aux
    <2>2. Spares(h, h')
      BY <1>2, <2>1, BeginSpares, SparesItself
    <2>3. Paired' => StoreSame(h')
      BY <1>3, <1>6, <2>1, <2>2, SparesSame
    <2>4. Paired' /\ phase' = "retry" => LeadSame(h', todo')
      <3>1. SUFFICES ASSUME Paired', phase' = "retry", h'.p.open PROVE LeadSame(h', todo')
        BY DEF LeadSame
      <3>2. SeeSame(h')
        BY <1>2, <1>3, <1>6, <2>1, <2>2, <3>1, BeginSame
      <3>3. /\ StoreWhole(h) /\ SeenWhole(h)
            /\ generic /\ kind = "ck" => ~h.p.open
        BY <1>4, <2>1, <3>1, Zenon DEF WholeInv, Retries
      <3>4. h'.p.seen \in WholeRows /\ h.p.open
        BY <2>2, <3>1, <3>3, SparesWhole DEF SeenWhole, Spares
      <3>5. todo' = <<Script(kind, Rec(batch[at]))>>
        BY <1>19, <3>3, <3>4, EachTodo
      <3>6. batch[at] \in DOMAIN Records /\ Prepared(kind, Rec(batch[at]))
        BY <2>1, EachWrites
      <3> DEFINE w == Put(h'.p.seen, Rec(batch[at]).key, Told(Rec(batch[at])))
      <3>7. w \in WholeRows
        BY <1>2, <3>4, <3>6, ScriptReplays
      <3>8. \A d : Leads(d, h'.p.seen, todo', {w})
        BY <1>2, <3>4, <3>5, <3>6, ScriptReplays
      <3>9. todo' # <<>>
        BY <3>5
      <3> HIDE DEF w
      <3>10. w \in Contents
        BY <3>7 DEF WholeRows
      <3>11. QED  BY <3>1, <3>2, <3>8, <3>9, <3>10 DEF SeeSame, LeadSame
    <2>5. QED  BY <2>1, <2>3, <2>4, MirrorFrom
  <1>20. CASE EachDone
    <2>1. h' = h /\ phase = "each" /\ phase' = "loop"
      BY <1>20 DEF EachDone
    <2>2. QED  BY <1>3, <1>6, <1>7, <2>1, SparesItself
  <1>21. CASE Retried
    <2>1. /\ phase' \in {"each", "unretry"} /\ phase = "retry" /\ todo = <<>>
          /\ CommitsHandle(h, h', phase' = "each") /\ (phase' = "each") \in BOOLEAN
      BY <1>2, <1>21, RetriedHandle DEF Retried
    <2>2. Remembers(h, h')
      BY <2>1, CommitRemembers
    <2>3. Paired' => /\ PairedWith(h') /\ SeeSame(h)
                     /\ StoreSame(h) \/ (Ahead(h) /\ h.p.open /\ ~h.p.broken)
      BY <1>3, <1>4, <1>5, <2>1, <2>2, EndSame DEF WrittenInv
    <2>4. Paired' => StoreSame(h') /\ (phase' = "each" => SeeSame(h'))
      BY <2>1, <2>3, CommitSame
    <2>5. QED  BY <2>1, <2>4, MirrorFrom
  <1>22. CASE RetryFails
    <2>1. Spares(h, h') /\ Undone(h') /\ Calm(h') /\ phase = "unretry" /\ phase' = "each"
      BY <1>2, <1>22, RetryFailsHandle DEF RetryFails, Undone
    <2>2. QED  BY <1>7, <2>1
  <1>23. CASE RetryRaises
    <2>1. /\ Spares(h, h') /\ phase' \in {"each", "loop", "over"} /\ phase = "unretry"
          /\ phase' = "each" /\ ~stuck' => ~h'.p.open
          /\ phase' = "loop" => single
          /\ phase' = "over" => raised' = TRUE
      BY <1>2, <1>23, RetryRaisesHandle DEF RetryRaises
    <2>2. auto
      BY <2>1 DEF FlowInv, Retries
    <2>3. Paired' => ~single /\ ~stuck'
      BY <1>1, <2>2 DEF Paired
    <2>4. ~h'.p.open => SeeSame(h')
      BY DEF SeeSame
    <2>5. QED  BY <1>7, <2>1, <2>3, <2>4
  <1>24. CASE CallerCommits
    <2>1. /\ CommitsHandle(h, h', ~raised') /\ phase = "over" /\ phase' = "over" /\ ~raised
          /\ (~raised') \in BOOLEAN
      BY <1>2, <1>24, CallerCommitsHandle DEF CallerCommits
    <2>2. Remembers(h, h')
      BY <2>1, CommitRemembers
    <2>3. Paired' => PairedWith(h') /\ SeeSame(h) /\ StoreSame(h)
      BY <1>3, <1>4, <1>5, <2>1, <2>2
    <2>4. Paired' => StoreSame(h') /\ (~raised' => SeeSame(h'))
      BY <2>1, <2>3, CommitSame
    <2>5. QED  BY <2>1, <2>4, MirrorFrom
  <1>25. CASE Exit
    <2>1. phase = "over" /\ phase' = "out"
      BY <1>25, Zenon DEF Exit
    <2>2. Paired' => StoreSame(h')
      <3>1. SUFFICES ASSUME Paired' PROVE StoreSame(h')
        OBVIOUS
      <3>2. PairedWith(h')
        BY <1>4, <3>1
      <3>3. PairedWith(h) => StoreSame(h) /\ (~raised => SeeSame(h))
        BY <1>3, <1>4, <2>1, <3>1
      <3>4. QED  BY <1>2, <1>25, <3>2, <3>3, ExitSame
    <2>3. QED  BY <2>1, <2>2, MirrorFrom
  <1>26. QED
    BY <1>8, <1>9, <1>10, <1>11, <1>12, <1>13, <1>14, <1>15, <1>16, <1>17, <1>18, <1>19,
       <1>20, <1>21, <1>22, <1>23, <1>24, <1>25 DEF Next, NextBatch

LEMMA InitMirror == Init => WrittenInv /\ MirrorInv
  <1> SUFFICES ASSUME Init PROVE WrittenInv /\ MirrorInv
    OBVIOUS
  <1>1. phase = "idle"
    BY DEF Init
  <1>2. StoreSame(h) /\ SeeSame(h)
    BY InitHandle DEF Opened, StoreSame, SeeSame
  <1>3. QED  BY <1>1, <1>2 DEF WrittenInv, MirrorInv

LEMMA MirrorInSyncNow ==
  ASSUME TypeInv, MirrorInv
  PROVE  MirrorInSync
  <1>1. SUFFICES ASSUME Paired, ~Pending(h) PROVE h.s.store = h.p.store
    BY DEF MirrorInSync, Paired, PairedWith
  <1>2. Clean(h) /\ h.dual /\ h.s.seen = h.s.store
    BY <1>1, NothingPending DEF TypeInv, Paired, PairedWith
  <1>3. StoreSame(h) \/ Ahead(h)
    BY <1>1, Zenon DEF MirrorInv
  <1>4. QED  BY <1>2, <1>3 DEF Clean, StoreSame, Ahead

\* With nothing pending and no commit unanswered, a secondary that never failed
\* holds the rows of the primary, whatever the two drivers, the records and the
\* failures: each statement leads both sides from the same rows to the same
\* rows, and what is undone or committed on one side is so on the other.
THEOREM MirrorHolds == Spec => []MirrorInSync
  <1>1. TypeInv /\ BatchInv /\ FlowInv /\ WholeInv /\ WrittenInv /\ MirrorInv /\ [Next]_vars
          => WrittenInv' /\ MirrorInv'
    <2>1. TypeInv /\ BatchInv /\ FlowInv /\ WholeInv /\ WrittenInv /\ MirrorInv /\ Next
            => WrittenInv' /\ MirrorInv'
      BY WrittenStep, MirrorStep, Zenon
    <2>2. ASSUME WrittenInv, MirrorInv, UNCHANGED vars PROVE WrittenInv' /\ MirrorInv'
      <3>1. UNCHANGED <<h, auto, single, phase, raised, todo, stuck, carried>>
        BY <2>2 DEF vars, what, work, aux
      <3>2. WrittenInv'
        BY <2>2, <3>1 DEF WrittenInv
      <3>3. Paired' <=> Paired
        BY <3>1 DEF Paired, PairedWith
      <3>4. MirrorInv'
        BY <2>2, <3>1, <3>3, MirrorFrom, Zenon DEF MirrorInv
      <3>5. QED  BY <3>2, <3>4
    <2>3. QED  BY <2>1, <2>2
  <1>2. TypeInv /\ MirrorInv => MirrorInSync
    BY MirrorInSyncNow
  <1>3. QED  BY FlowHolds, WholeHolds, InitMirror, <1>1, <1>2, PTL DEF Spec

-----------------------------------------------------------------------------
(***************************************************************************)
(* The counts.                                                             *)
(***************************************************************************)
\* A record whose failure may leave its rows pending: one that is applied
\* outside any writer, or a snapshot.
Frail(i) == Direct(i) \/ kind = "snapshot"
FrailBatch == batch # <<>> /\ Frail(batch[1])

\* The keys the frail records after position p will write.
Later(p) == {Rec(i).key : i \in {j \in DOMAIN Records : j > p /\ Frail(j)}}

\* The rows c are what the records at I make of b, but for those keys.
Near(b, c, p, I) == \A k \in Keys : c[k] = Replay(b, I)[k] \/ k \in Later(p)
Alike(c, d) == \A k \in Keys : c[k] = d[k] \/ k \in Later(0)

LEMMA LaterFalls ==
  ASSUME kind \in Kinds, NEW p \in Nat
  PROVE  Later(p) \subseteq Later(0)
  <1>1. \A j \in DOMAIN Records : j \in Nat
    BY RecordsAreParsed
  <1>2. QED  BY <1>1 DEF Later

\* All records up to n are replayed on both sides.
LEMMA NearFurther ==
  ASSUME kind \in Kinds, NEW p \in Nat, NEW n \in p .. Len(Records), NEW I, I \subseteq 1..p,
         NEW b, NEW c, Near(b, c, p, I)
  PROVE  Near(b, Replay(c, p + 1 .. n), n, I \cup (p + 1 .. n))
  <1> DEFINE P == p + 1 .. n
  <1>1. Len(Records) \in Nat /\ DOMAIN Records = 1..Len(Records)
    BY RecordsAreParsed
  <1>2. I \subseteq DOMAIN Records /\ P \subseteq DOMAIN Records /\ \A i \in I : \A j \in P : i < j
    BY <1>1
  <1>3. Replay(Replay(b, I), P) = Replay(b, I \cup P)
    <2> HIDE DEF P
    <2>1. I \in SUBSET DOMAIN Records /\ P \in SUBSET DOMAIN Records
      BY <1>2
    <2>2. QED  BY <1>2, <2>1, ReplayTwice
  <1>4. ASSUME NEW k \in Keys PROVE Replay(c, P)[k] = Replay(b, I \cup P)[k] \/ k \in Later(n)
    <2> DEFINE t == Told(Rec(Max(OfKey(P, k))))
    <2>1. /\ Replay(c, P)[k] = IF OfKey(P, k) = {} THEN c[k] ELSE t
          /\ Replay(Replay(b, I), P)[k] = IF OfKey(P, k) = {} THEN Replay(b, I)[k] ELSE t
      BY ReplayIs
    <2> HIDE DEF t
    <2>2. CASE OfKey(P, k) # {} \/ c[k] = Replay(b, I)[k]
      BY <1>3, <2>1, <2>2
    <2>3. CASE OfKey(P, k) = {} /\ k \in Later(p)
      <3>1. PICK j \in DOMAIN Records : j > p /\ Frail(j) /\ k = Rec(j).key
        BY <2>3 DEF Later
      <3>2. j \notin P
        BY <2>3, <3>1 DEF OfKey
      <3>3. j > n
        BY <1>1, <3>1, <3>2
      <3>4. QED  BY <3>1, <3>3 DEF Later
    <2>4. QED  BY <2>2, <2>3 DEF Near
  <1>5. QED  BY <1>4 DEF Near

\* One record more.
LEMMA NearOne ==
  ASSUME kind \in Kinds, NEW I, I \subseteq DOMAIN Records, NEW i \in DOMAIN Records,
         \A j \in I : j < i, NEW b \in Contents, NEW c \in Contents, NEW p, Near(b, c, p, I)
  PROVE  Near(b, Put(c, Rec(i).key, Told(Rec(i))), p, I \cup {i})
  <1> DEFINE r == Replay(b, I)
             x == Rec(i).key
             v == Told(Rec(i))
  <1>1. Replay(b, I \cup {i}) = Put(r, x, v)
    BY ReplayAnother
  <1>2. r \in [Keys -> {r[k] : k \in Keys}] /\ c \in [Keys -> Entries]
    BY ReplayIs DEF Contents
  <1> HIDE DEF r, x, v
  <1>3. \A k \in Keys : /\ Put(c, x, v)[k] = IF k = x THEN v ELSE c[k]
                        /\ Put(r, x, v)[k] = IF k = x THEN v ELSE r[k]
    BY <1>2 DEF Put
  <1>4. \A k \in Keys : c[k] = r[k] \/ k \in Later(p)
    BY DEF Near, r
  <1>5. QED  BY <1>1, <1>3, <1>4 DEF Near, x, v

\* Rows near the same records, but for a frail one, are alike.
LEMMA NearAlike ==
  ASSUME kind \in Kinds, NEW I, NEW J, NEW b, NEW c, NEW d, NEW p \in Nat, NEW q \in Nat,
         Near(b, c, p, J), Near(b, d, q, I),
         J = I \/ \E i \in DOMAIN Records : Frail(i) /\ J = I \cup {i}
  PROVE  Alike(c, d)
  <1>1. Later(p) \subseteq Later(0) /\ Later(q) \subseteq Later(0)
    BY LaterFalls
  <1>2. CASE J = I
    BY <1>1, <1>2 DEF Near, Alike
  <1>3. ASSUME NEW i \in DOMAIN Records, Frail(i), J = I \cup {i} PROVE Alike(c, d)
    <2>1. Rec(i).key \in Later(0)
      <3>1. i > 0
        BY RecordsAreParsed
      <3>2. QED  BY <1>3, <3>1 DEF Later
    <2>2. ASSUME NEW k \in Keys, k # Rec(i).key PROVE Replay(b, J)[k] = Replay(b, I)[k]
      <3>1. OfKey(J, k) = OfKey(I, k)
        BY <1>3, <2>2 DEF OfKey
      <3>2. QED  BY <3>1, ReplayIs
    <2>3. QED  BY <1>1, <2>1, <2>2 DEF Near, Alike
  <1>4. QED  BY <1>2, <1>3

\* What was counted when all records were taken.
LEMMA NearAtEnd ==
  ASSUME kind \in Kinds, NEW b \in Contents, NEW c \in Contents, NEW I,
         Near(b, c, Len(Records), I)
  PROVE  c = Replay(b, I)
  <1>1. Later(Len(Records)) = {}
    <2>1. \A j \in DOMAIN Records : ~(j > Len(Records))
      BY RecordsAreParsed
    <2>2. QED  BY <2>1 DEF Later
  <1>2. \A k \in Keys : c[k] = Replay(b, I)[k]
    BY <1>1 DEF Near
  <1> DEFINE r == Replay(b, I)
  <1>3. r = [k \in Keys |-> r[k]]
    BY ReplayIs
  <1>4. c = [k \in Keys |-> c[k]]
    BY DEF Contents
  <1> HIDE DEF r
  <1>5. QED  BY <1>2, <1>3, <1>4 DEF r

\* Where the batch and the counted records lie in the stream: a record is counted
\* once, after those before it.
First == pos - Len(batch)
PlaceInv ==
  /\ \A i \in DOMAIN batch : batch[i] = First + i
  /\ Len(batch) <= pos
  /\ FrailBatch => Len(batch) = 1
  /\ auto /\ ~single =>
       /\ imported \subseteq 1..pos
       /\ phase \in {"write", "undo"} => imported \subseteq 1..First
       /\ phase \in Retries /\ h.p.open /\ ~stuck => imported \subseteq 1..First + at - 1
       /\ phase = "over" /\ ~raised => pos = Len(Records)

LEMMA PlaceFrom ==
  ASSUME PlaceInv, kind' = kind, auto' = auto, single' = single, pos' = pos, batch' = batch,
         auto /\ ~single =>
           /\ imported' \subseteq 1..pos
           /\ phase' \in {"write", "undo"} => imported' \subseteq 1..First
           /\ phase' \in Retries /\ h'.p.open /\ ~stuck' => imported' \subseteq 1..First + at' - 1
           /\ phase' = "over" /\ ~raised' => pos = Len(Records)
  PROVE  PlaceInv'
  <1>1. Records' = Records /\ (\A i : Direct(i)' = Direct(i))
    BY KindStays
  <1>2. FrailBatch' <=> FrailBatch
    BY <1>1 DEF FrailBatch, Frail, Direct, Rec
  <1>3. First' = First /\ Retries' = Retries
    BY DEF First, Retries
  <1>4. QED  BY <1>1, <1>2, <1>3, Zenon DEF PlaceInv

\* The records of a batch, and one of them.
LEMMA BatchAt ==
  ASSUME TypeInv, BatchInv, PlaceInv
  PROVE  /\ Range(batch) = First + 1 .. pos /\ First \in Nat /\ First <= pos /\ pos \in Nat
         /\ Len(batch) = pos - First
         /\ \A i \in 1..Len(batch) : batch[i] = First + i
  <1>1. batch \in Seq(DOMAIN Records) /\ pos \in Nat
    BY RecordsAreParsed DEF BatchInv, TypeInv
  <1>2. Len(batch) \in Nat /\ DOMAIN batch = 1..Len(batch)
    BY <1>1
  <1>3. First \in Nat /\ First <= pos /\ Len(batch) = pos - First
    BY <1>1, <1>2 DEF PlaceInv, First
  <1>4. \A i \in 1..Len(batch) : batch[i] = First + i
    BY <1>2 DEF PlaceInv
  <1> HIDE DEF First
  <1>5. Range(batch) = First + 1 .. pos
    <2>1. Range(batch) = {batch[i] : i \in 1..Len(batch)}
      BY <1>2 DEF Range
    <2>2. ASSUME NEW x \in First + 1 .. pos PROVE x \in Range(batch)
      <3>1. x - First \in 1..Len(batch) /\ batch[x - First] = First + (x - First)
        BY <1>1, <1>3, <1>4, <2>2
      <3>2. x = First + (x - First)
        BY <1>1, <1>3, <2>2
      <3>3. QED  BY <2>1, <3>1, <3>2
    <2>3. \A i \in 1..Len(batch) : First + i \in First + 1 .. pos
      BY <1>1, <1>3
    <2>4. QED  BY <1>4, <2>1, <2>2, <2>3
  <1>6. QED  BY <1>1, <1>3, <1>4, <1>5

\* Writers that retry have no frail records.
LEMMA RetriesFrail ==
  ASSUME (kind \in {"rows", "ck"} /\ ~DirectBatch) \/ Retrying
  PROVE  ~FrailBatch
  BY DEF Retrying, DirectBatch, FrailBatch, Frail, Direct

\* A batch of frail records has one.
LEMMA TakesFrail ==
  ASSUME kind \in Kinds, pos \in Nat, NEW n, Flushes(n)
  PROVE  /\ n \in pos + 1 .. Len(Records) /\ Len(Batch(n)) = n - pos /\ Batch(n)[1] = pos + 1
         /\ Frail(pos + 1) => n = pos + 1
         /\ ~Frail(pos + 1) => \A i \in pos + 1 .. n : ~Frail(i)
  <1>1. n \in pos + 1 .. Len(Records) /\ Len(Records) \in Nat
    BY RecordsAreParsed DEF Flushes
  <1>2. 1 \in 1 .. n - pos
    BY <1>1
  <1>3. Len(Batch(n)) = n - pos /\ Batch(n)[1] = pos + 1
    BY <1>1, <1>2, BatchIs
  <1>4. CASE n > pos + 1
    <2>1. kind # "snapshot" /\ \A i \in pos + 1 .. n : ~Direct(i)
      BY <1>4 DEF Flushes
    <2>2. pos + 1 \in pos + 1 .. n
      BY <1>1
    <2>3. QED  BY <1>1, <1>3, <2>1, <2>2 DEF Frail
  <1>5. CASE ~(n > pos + 1)
    <2>1. n = pos + 1
      BY <1>1, <1>5
    <2>2. \A i \in pos + 1 .. n : i = pos + 1
      BY <2>1
    <2>3. QED  BY <1>1, <1>3, <2>1, <2>2
  <1>6. QED  BY <1>4, <1>5

LEMMA PlaceStep ==
  ASSUME TypeInv, BatchInv, FlowInv, PlaceInv, Next
  PROVE  PlaceInv'
  <1>1. kind' = kind /\ auto' = auto /\ single' = single
    BY Stays
  <1>2. /\ h \in HandlesOf(Contents) /\ kind \in Kinds /\ auto \in BOOLEAN /\ pos \in Nat
        /\ todo \in Seq(Scripts) /\ single \in BOOLEAN /\ Len(Records) \in Nat
    BY RecordsAreParsed DEF TypeInv, BatchInv
  <1>3. /\ First \in Nat /\ First <= pos
        /\ \A i \in 1..Len(batch) : batch[i] = First + i
        /\ Range(batch) = First + 1 .. pos /\ Len(batch) \in Nat
    BY <1>2, BatchAt DEF BatchInv
  <1>4. auto /\ ~single =>
          /\ imported \subseteq 1..pos
          /\ phase \in {"write", "undo"} => imported \subseteq 1..First
          /\ phase \in Retries /\ h.p.open /\ ~stuck => imported \subseteq 1..First + at - 1
          /\ phase = "over" /\ ~raised => pos = Len(Records)
    BY Zenon DEF PlaceInv
  <1> DEFINE Still == pos' = pos /\ batch' = batch
  \* Nothing more is counted, and no batch is left half counted.
  <1>5. ASSUME Still, auto /\ ~single => imported' = imported,
               phase' \in {"loop", "out", "each"} \/ (phase' = "over" /\ raised' = TRUE),
               phase' = "each" => at' = 1 /\ phase = "undo"
        PROVE  PlaceInv'
    <2>1. phase' = "each" => First + at' - 1 = First
      BY <1>3, <1>5
    <2>2. QED  BY <1>1, <1>4, <1>5, <2>1, PlaceFrom DEF Retries
  <1>6. CASE Start
    <2>1. /\ pos' = 0 /\ batch' = <<>> /\ imported' = {} /\ phase' \in {"loop", "over"}
          /\ phase' = "over" => raised' = TRUE
      BY <1>2, <1>6, StartHandle DEF Start
    <2>2. QED  BY <2>1 DEF PlaceInv, First, FrailBatch, Retries
  <1>7. CASE BeginSingle
    <2>1. Still /\ single
      BY <1>7 DEF BeginSingle, work
    <2>2. QED  BY <1>1, <2>1, PlaceFrom
  <1>8. ASSUME NEW n, phase = "loop", Flushes(n), Take(n) PROVE PlaceInv'
    <2>1. /\ phase' \in {"write", "undo"} /\ pos' = n /\ batch' = Batch(n) /\ imported' = imported
      BY <1>2, <1>8, TakeHandle DEF Take
    <2>2. /\ n \in pos + 1 .. Len(Records) /\ Len(Batch(n)) = n - pos /\ Batch(n)[1] = pos + 1
          /\ Frail(pos + 1) => n = pos + 1
      BY <1>2, <1>8, TakesFrail
    <2>3. n \in Nat /\ n - (n - pos) = pos
      BY <1>2, <2>2
    <2>4. \A i \in 1..n - pos : Batch(n)[i] = pos + i
      BY <1>2, <2>2, BatchIs
    <2>5. First' = pos
      BY <2>1, <2>2, <2>3 DEF First
    <2>6. FrailBatch' => Len(Batch(n)) = 1
      <3>1. FrailBatch' <=> Frail(pos + 1)
        <4>1. \A i : Direct(i)' <=> Direct(i)
          BY <1>1, KindStays
        <4>2. Batch(n) # <<>>
          BY <1>2, <2>2, BatchIs
        <4>3. QED  BY <1>1, <2>1, <2>2, <4>1, <4>2 DEF FrailBatch, Frail, Direct, Rec, Records
      <3>2. QED  BY <1>2, <2>2, <3>1
    <2>7. DOMAIN Batch(n) = 1..n - pos
      BY DEF Batch
    <2>8. imported \subseteq 1..pos => imported \subseteq 1..n
      BY <1>2, <2>2
    <2> HIDE DEF Still
    <2>9. QED
      BY <1>1, <1>2, <1>4, <2>1, <2>2, <2>3, <2>4, <2>5, <2>6, <2>7, <2>8 DEF PlaceInv, Retries
  <1>9. ASSUME NEW n, Refuse(n) PROVE PlaceInv'
    <2>1. /\ Still /\ phase' = "over" /\ raised' = TRUE
          /\ auto => imported' = imported
      BY <1>9 DEF Refuse, End, work
    <2>2. QED  BY <1>5, <2>1
  <1>10. CASE Return
    <2>1. Still /\ imported' = imported /\ phase' = "over" /\ pos = Len(Records)
      BY <1>10 DEF Return, End, work, stats
    <2>2. QED  BY <1>1, <1>4, <2>1, PlaceFrom DEF Retries
  <1>11. CASE Step
    <2>1. /\ Still /\ at' = at /\ stuck' = stuck
          /\ phase' = phase \/ (phase = "write" /\ phase' = "undo")
                            \/ (phase = "retry" /\ phase' = "unretry")
          /\ phase \in {"write", "retry"}
          /\ ExecutesHandle(h, Current, h', phase' = phase)
      BY <1>2, <1>11, StepHandle DEF Step, aux
    <2>2. ~single => imported' = imported
      BY <1>11 DEF Step
    <2>3. h'.p.open => h.p.open
      BY <2>1 DEF ExecutesHandle, ExecutesTo
    <2>4. QED  BY <1>1, <1>4, <2>1, <2>2, <2>3, PlaceFrom DEF Retries
  <1>12. CASE Finish
    <2>1. Still /\ phase = "write" /\ phase' \in {"loop", "undo"}
          /\ imported' = IF phase' = "loop" THEN imported \cup Range(batch) ELSE imported
      <3>1. PICK o \in (IF auto THEN Commit(h) ELSE {Ok(h, 0)}) :
              /\ phase' = IF o.ok THEN "loop" ELSE "undo"
              /\ imported' = IF o.ok THEN imported \cup Range(batch) ELSE imported
        BY <1>12 DEF Finish
      <3>2. QED  BY <1>12, <3>1 DEF Finish, work
    <2>2. auto /\ ~single => imported \subseteq 1..First
      BY <1>4, <2>1
    <2>3. auto /\ ~single => imported' \subseteq 1..pos
      BY <1>2, <1>3, <2>1, <2>2
    <2>4. QED  BY <1>1, <2>1, <2>2, <2>3, PlaceFrom DEF Retries
  <1>13. CASE UndoAndRetry
    <2>1. Still /\ imported' = imported /\ phase = "undo" /\ phase' = "each" /\ at' = 1
      BY <1>13 DEF UndoAndRetry, Continue, stats
    <2>2. QED  BY <1>5, <2>1
  <1>14. CASE AutoUndo
    <2>1. /\ Still /\ imported' = imported /\ phase = "undo" /\ phase' \in {"each", "over"}
          /\ phase' = "each" => at' = 1
          /\ phase' = "over" => raised' = TRUE
      BY <1>2, <1>14, AutoUndoHandle DEF AutoUndo, stats
    <2>2. QED  BY <1>5, <2>1
  <1>15. CASE OwnedUndo
    <2>1. Still /\ ~auto
      BY <1>15 DEF OwnedUndo, work
    <2>2. QED  BY <1>1, <2>1, PlaceFrom
  <1>16. CASE SingleUndo
    <2>1. Still /\ single
      BY <1>16 DEF SingleUndo, work
    <2>2. QED  BY <1>1, <2>1, PlaceFrom
  <1>17. CASE Each
    <2>1. /\ Still /\ at' = at /\ stuck' = stuck /\ imported' = imported /\ phase = "each"
          /\ phase' \in {"retry", "unretry"}
      BY <1>2, <1>17, EachHandle DEF Each, stats, aux
    <2>2. h'.p.open => h.p.open
      <3>1. generic => h' = h
        BY <1>2, <1>17, EachHandle
      <3>2. ~generic => BeginsHandle(Contents, h, h', phase' = "retry")
        BY <1>2, <1>17, EachHandle
      <3>3. h' \in HandlesOf(Contents) /\ (phase' = "retry") \in BOOLEAN
        BY <1>2, <1>17, EachHandle
      <3>4. Spares(h, h')
        BY <1>2, <3>1, <3>2, <3>3, BeginSpares, SparesItself
      <3>5. QED  BY <3>4 DEF Spares
    <2>3. QED  BY <1>1, <1>4, <2>1, <2>2, PlaceFrom DEF Retries
  <1>18. CASE EachDone
    <2>1. Still /\ imported' = imported /\ phase' = "loop"
      BY <1>18 DEF EachDone, stats
    <2>2. QED  BY <1>5, <2>1
  <1>19. CASE Retried
    <2>1. /\ Still /\ stuck' = stuck /\ phase = "retry" /\ phase' \in {"each", "unretry"}
          /\ at' = IF phase' = "each" THEN at + 1 ELSE at
          /\ imported' = IF phase' = "each" THEN imported \cup {batch[at]} ELSE imported
      <3>1. PICK o \in Commit(h) :
              /\ phase' = IF o.ok THEN "each" ELSE "unretry"
              /\ at' = IF o.ok THEN at + 1 ELSE at
              /\ imported' = IF o.ok THEN imported \cup {batch[at]} ELSE imported
        BY <1>19 DEF Retried
      <3>2. QED  BY <1>19, <3>1 DEF Retried, aux
    <2>2. CommitsHandle(h, h', phase' = "each")
      BY <1>2, <1>19, RetriedHandle
    <2>3. (h'.p.open => h.p.open) /\ (phase' = "each" => h.p.open)
      BY <2>2 DEF CommitsHandle, CommitsTo
    <2>4. at \in 1..Len(batch) /\ batch[at] = First + at /\ at \in Nat /\ First + at <= pos
      <3>1. at \in Nat /\ at >= 1 /\ at <= Len(batch)
        BY <2>1 DEF BatchInv, Retries
      <3>2. QED  BY <1>2, <1>3, <3>1, BatchAt
    <2>5. auto /\ ~single => imported' \subseteq 1..pos
      BY <1>2, <1>3, <1>4, <2>1, <2>4
    <2>6. CASE phase' = "each"
      <3>1. auto /\ ~single /\ ~stuck => imported \subseteq 1..First + at - 1
        BY <1>4, <2>1, <2>3, <2>6 DEF Retries
      <3>2. First + at' - 1 = First + at
        BY <1>3, <2>1, <2>4, <2>6
      <3>3. auto /\ ~single /\ ~stuck => imported' \subseteq 1..First + at
        BY <1>3, <2>1, <2>4, <2>6, <3>1
      <3> HIDE DEF First
      <3>4. QED  BY <1>1, <2>1, <2>5, <2>6, <3>2, <3>3, PlaceFrom
    <2>7. CASE phase' = "unretry"
      BY <1>1, <1>4, <2>1, <2>3, <2>7, PlaceFrom DEF Retries
    <2>8. QED  BY <2>1, <2>6, <2>7
  <1>20. CASE RetryFails
    <2>1. /\ Still /\ stuck' = stuck /\ imported' = imported /\ phase = "unretry" /\ phase' = "each"
          /\ at' = at + 1
      BY <1>20 DEF RetryFails, aux
    <2>2. h'.p.open => h.p.open
      BY <1>2, <1>20, RetryFailsHandle
    <2>3. at \in Nat
      BY DEF BatchInv
    <2>4. auto /\ ~single /\ h.p.open /\ ~stuck => imported \subseteq 1..First + at' - 1
      <3>1. auto /\ ~single /\ h.p.open /\ ~stuck => imported \subseteq 1..First + at - 1
        BY <1>4, <2>1 DEF Retries
      <3>2. \A x \in 1..First + at - 1 : x \in 1..First + at' - 1
        BY <1>3, <2>1, <2>3
      <3>3. QED  BY <3>1, <3>2
    <2>5. QED  BY <1>1, <1>4, <2>1, <2>2, <2>4, PlaceFrom
  <1>21. CASE RetryRaises
    <2>1. /\ Still /\ imported' = imported /\ phase' \in {"each", "loop", "over"}
          /\ phase' = "over" => raised' = TRUE
          /\ phase' = "each" /\ ~stuck' => ~h'.p.open
      BY <1>2, <1>21, RetryRaisesHandle DEF RetryRaises
    <2>2. QED  BY <1>1, <1>4, <2>1, PlaceFrom DEF Retries
  <1>22. CASE CallerCommits
    <2>1. Still /\ ~auto
      BY <1>22 DEF CallerCommits, work
    <2>2. QED  BY <1>1, <2>1, PlaceFrom
  <1>23. CASE Exit
    <2>1. Still /\ imported' = imported /\ phase' = "out"
      BY <1>23, Zenon DEF Exit, work, stats
    <2>2. QED  BY <1>5, <2>1
  <1>24. QED
    BY <1>6, <1>7, <1>8, <1>9, <1>10, <1>11, <1>12, <1>13, <1>14, <1>15, <1>16, <1>17,
       <1>18, <1>19, <1>20, <1>21, <1>22, <1>23 DEF Next, NextBatch

\* What is durable, and what is seen, is near the records at I; the statements T
\* lead there; what is seen is like what is durable.
HoldsNear(b, k, p, I) == Near(b, k.p.store, p, I)
SeesNear(b, k, p, I) == k.p.open => Near(b, k.p.seen, p, I)
LeadsNear(b, k, T, p, I) ==
  k.p.open => \E w \in Contents : Leads(k.p.driver, k.p.seen, T, {w}) /\ Near(b, w, p, I)
Same(k) == k.p.open => Alike(k.p.seen, k.p.store)

LEMMA SparesNear ==
  ASSUME NEW x, NEW y, Spares(x, y), NEW b, NEW p, NEW I
  PROVE  /\ HoldsNear(b, x, p, I) => HoldsNear(b, y, p, I)
         /\ HoldsNear(b, x, p, I) /\ (SeesNear(b, x, p, I) \/ Undone(y)) => SeesNear(b, y, p, I)
         /\ Same(x) \/ Undone(y) => Same(y)
  BY DEF Spares, Durable, HoldsNear, SeesNear, Same, Alike, Undone, Clean

LEMMA BeginNear ==
  ASSUME NEW C, NEW x \in HandlesOf(C), NEW y \in HandlesOf(C), NEW ok \in BOOLEAN,
         BeginsHandle(C, x, y, ok), ok, NEW b, NEW p, NEW I, SeesNear(b, x, p, I)
  PROVE  SeesNear(b, y, p, I)
  <1>1. /\ Spares(x, y) /\ (ok => is_transaction_active(y))
        /\ ok /\ x.p.open => y.p.open /\ y.p.seen = x.p.seen /\ (x.dual => y.s.seen = x.s.seen)
        /\ ok => y.p.failed = x.p.failed /\ (x.dual => y.s.failed = x.s.failed)
    BY BeginSpares, Zenon
  <1>2. QED  BY <1>1 DEF SeesNear, Spares

LEMMA EndNear ==
  ASSUME NEW b, NEW k, NEW p, NEW I, LeadsNear(b, k, <<>>, p, I)
  PROVE  SeesNear(b, k, p, I)
  BY NothingLeft DEF LeadsNear, SeesNear

\* A commit that returned made durable what was seen; one that raised, nothing.
LEMMA CommitNear ==
  ASSUME NEW x, NEW y, NEW ok \in BOOLEAN, CommitsHandle(x, y, ok), ~y.p.lost,
         x.p.open, ~x.p.failed, ~x.p.broken, NEW b, NEW p, NEW I, SeesNear(b, x, p, I)
  PROVE  /\ ok => HoldsNear(b, y, p, I) /\ SeesNear(b, y, p, I)
         /\ ~ok => /\ y.p.store = x.p.store /\ y.p.seen \in {x.p.seen, x.p.store}
                   /\ InTransaction(x.p)
  <1>1. CommitsTo(x.p, y.p, ok)
    BY DEF CommitsHandle
  <1>2. QED  BY <1>1 DEF CommitsTo, HoldsNear, SeesNear

LEMMA StepNear ==
  ASSUME h \in HandlesOf(Contents), todo \in Seq(Scripts), todo # <<>>, NEW k, NEW ok \in BOOLEAN,
         ExecutesHandle(h, Current, k, ok), ~k.p.lost, Transacted(h),
         InTransaction(h.p) \/ Remaining = <<>>,
         NEW b, NEW p, NEW I, LeadsNear(b, h, todo, p, I)
  PROVE  /\ ok => /\ LeadsNear(b, k, Remaining, p, I)
                  /\ \/ k.p.store = h.p.store
                     \/ Remaining = <<>> /\ ~InTransaction(k.p)
         /\ ~ok => /\ k.p.store = h.p.store /\ (k.p.open => h.p.open)
                   /\ k.p.seen \in {h.p.seen, h.p.store} \/ LeadsNear(b, k, Remaining, p, I)
  <1> DEFINE v == Apply(h.p.driver, h.p.seen, Current)
  <1>1. ExecutesTo(h.p, Current, k.p, TRUE) => LeadsNear(b, k, Remaining, p, I)
    <2>1. SUFFICES ASSUME ExecutesTo(h.p, Current, k.p, TRUE)
                   PROVE  LeadsNear(b, k, Remaining, p, I)
      OBVIOUS
    <2>2. h.p.open /\ k.p.seen = v /\ k.p.driver = h.p.driver
      BY <2>1 DEF ExecutesTo
    <2>3. PICK w \in Contents : Leads(h.p.driver, h.p.seen, todo, {w}) /\ Near(b, w, p, I)
      BY <2>2 DEF LeadsNear
    <2>4. h.p.seen \in Contents
      BY FieldsOfHandles DEF Sessions, SessionRecords
    <2>5. Leads(h.p.driver, v, Remaining, {w})
      BY <2>3, <2>4, LeadsStep
    <2> HIDE DEF v
    <2>6. QED  BY <2>2, <2>3, <2>5 DEF LeadsNear
  <1> HIDE DEF v
  <1>2. CASE ok
    <2>1. ExecutesTo(h.p, Current, k.p, TRUE)
      BY <1>2 DEF ExecutesHandle
    <2>2. k.p.store = h.p.store \/ (Remaining = <<>> /\ ~InTransaction(k.p))
      BY <2>1 DEF ExecutesTo, InTransaction
    <2>3. QED  BY <1>1, <1>2, <2>1, <2>2
  <1>3. CASE ~ok /\ ExecutesTo(h.p, Current, k.p, FALSE)
    <2>1. k.p.store = h.p.store /\ k.p.seen \in {h.p.seen, h.p.store} /\ (k.p.open => h.p.open)
      BY <1>3 DEF ExecutesTo
    <2>2. QED  BY <1>3, <2>1
  <1>4. CASE ~ok /\ ExecutesTo(h.p, Current, k.p, TRUE) /\ h.dual /\ h.active
    <2>1. InTransaction(h.p)
      BY <1>4 DEF Transacted
    <2>2. k.p.store = h.p.store /\ (k.p.open => h.p.open)
      BY <1>4, <2>1 DEF ExecutesTo
    <2>3. QED  BY <1>1, <1>4, <2>2
  <1>5. QED
    <2>1. ~ok => \/ ExecutesTo(h.p, Current, k.p, FALSE)
                 \/ ExecutesTo(h.p, Current, k.p, TRUE) /\ h.dual /\ h.active
      BY FieldsOfHandles DEF ExecutesHandle
    <2>2. QED  BY <1>2, <1>3, <1>4, <2>1

\* What is durable of an import is what it counted; where a call raised, a frail
\* record may be left pending, for the next call to overwrite.
Counted == auto /\ ~single /\ ~h.p.lost /\ ~stuck
CountInv ==
  Counted =>
    /\ phase \in {"idle", "over"} => Same(h)
    /\ phase = "over" /\ ~raised => HoldsNear(base, h, pos, imported)
    /\ phase \in {"loop", "each"} =>
         HoldsNear(base, h, pos, imported) /\ SeesNear(base, h, pos, imported)
    /\ phase = "write" =>
         /\ LeadsNear(base, h, todo, pos, imported \cup Range(batch))
         /\ \/ todo = <<>> /\ ~InTransaction(h.p)
            \/ IF FrailBatch THEN HoldsNear(base, h, First, imported)
               ELSE HoldsNear(base, h, pos, imported)
         /\ Light /\ todo # <<>> /\ FrailBatch => SeesNear(base, h, First, imported)
    /\ phase = "undo" => IF FrailBatch THEN Wrote \/ Same(h)
                         ELSE HoldsNear(base, h, pos, imported)
    /\ phase = "retry" =>
         /\ LeadsNear(base, h, todo, pos, imported \cup {batch[at]})
         /\ (todo = <<>> /\ ~InTransaction(h.p)) \/ HoldsNear(base, h, pos, imported)
    /\ phase = "unretry" => HoldsNear(base, h, pos, imported)

LEMMA CountFrom ==
  ASSUME kind' = kind,
         Counted' =>
           /\ phase' \in {"idle", "over"} => Same(h')
           /\ phase' = "over" /\ ~raised' => HoldsNear(base', h', pos', imported')
           /\ phase' \in {"loop", "each"} =>
                HoldsNear(base', h', pos', imported') /\ SeesNear(base', h', pos', imported')
           /\ phase' = "write" =>
                /\ LeadsNear(base', h', todo', pos', imported' \cup Range(batch'))
                /\ \/ todo' = <<>> /\ ~InTransaction(h'.p)
                   \/ IF FrailBatch' THEN HoldsNear(base', h', First', imported')
                      ELSE HoldsNear(base', h', pos', imported')
                /\ Light' /\ todo' # <<>> /\ FrailBatch' => SeesNear(base', h', First', imported')
           /\ phase' = "undo" => IF FrailBatch' THEN Wrote' \/ Same(h')
                                 ELSE HoldsNear(base', h', pos', imported')
           /\ phase' = "retry" =>
                /\ LeadsNear(base', h', todo', pos', imported' \cup {batch'[at']})
                /\ (todo' = <<>> /\ ~InTransaction(h'.p)) \/ HoldsNear(base', h', pos', imported')
           /\ phase' = "unretry" => HoldsNear(base', h', pos', imported')
  PROVE  CountInv'
  <1> USE DEF Near, Replay, Later, Frail, Direct, Rec, Records, Told, Entry, ChildTables
  <1>1. /\ HoldsNear(base, h, pos, imported)' <=> HoldsNear(base', h', pos', imported')
        /\ HoldsNear(base, h, First, imported)' <=> HoldsNear(base', h', First', imported')
    BY DEF HoldsNear
  <1>2. /\ SeesNear(base, h, pos, imported)' <=> SeesNear(base', h', pos', imported')
        /\ SeesNear(base, h, First, imported)' <=> SeesNear(base', h', First', imported')
    BY DEF SeesNear
  <1>3. Same(h)' <=> Same(h')
    BY DEF Same, Alike
  <1>4. LeadsNear(base, h, todo, pos, imported \cup Range(batch))'
          <=> LeadsNear(base', h', todo', pos', imported' \cup Range(batch'))
    BY DEF LeadsNear, Contents, Entries, Heads, Children
  <1>5. LeadsNear(base, h, todo, pos, imported \cup {batch[at]})'
          <=> LeadsNear(base', h', todo', pos', imported' \cup {batch'[at']})
    BY DEF LeadsNear, Contents, Entries, Heads, Children
  <1>6. InTransaction(h.p)' <=> InTransaction(h'.p)
    BY DEF InTransaction
  <1>7. QED  BY <1>1, <1>2, <1>3, <1>4, <1>5, <1>6, Zenon DEF CountInv

\* The batch that is being written stays.
LEMMA BatchStays ==
  ASSUME kind' = kind, pos' = pos, batch' = batch
  PROVE  First' = First /\ (FrailBatch' <=> FrailBatch)
  BY KindStays DEF First, FrailBatch, Frail, Direct, Rec, Records

\* A batch that is taken.
LEMMA CountTaken ==
  ASSUME TypeInv, BatchInv, PlaceInv, kind' = kind, auto, NEW n, Flushes(n), Take(n)
  PROVE  /\ First' = pos /\ Range(batch') = pos + 1 .. n /\ pos' = n /\ imported' = imported
         /\ base' = base /\ stuck' = stuck /\ todo' = Statements(Batch(n))
         /\ n \in pos + 1 .. Len(Records)
         /\ ~FrailBatch' => Later(n) = Later(pos)
         /\ phase' = "undo" /\ FrailBatch' => Wrote'
  <1>1. kind \in Kinds /\ pos \in Nat /\ h \in HandlesOf(Contents) /\ Len(Records) \in Nat
    BY RecordsAreParsed DEF TypeInv, BatchInv
  <1>2. /\ pos' = n /\ batch' = Batch(n) /\ imported' = imported /\ base' = base /\ stuck' = stuck
        /\ todo' = Statements(Batch(n))
    BY DEF Take, aux
  <1>3. /\ n \in pos + 1 .. Len(Records) /\ Len(Batch(n)) = n - pos /\ Batch(n)[1] = pos + 1
        /\ Frail(pos + 1) => n = pos + 1
        /\ ~Frail(pos + 1) => \A i \in pos + 1 .. n : ~Frail(i)
    BY <1>1, TakesFrail
  <1>4. Batch(n) # <<>> /\ Range(Batch(n)) = pos + 1 .. n
    BY <1>1, <1>3, BatchIs
  <1>5. First' = pos
    BY <1>1, <1>2, <1>3 DEF First
  <1>6. \A i : Direct(i)' <=> Direct(i)
    BY KindStays
  <1>7. FrailBatch' <=> Frail(pos + 1)
    BY <1>2, <1>3, <1>4, <1>6 DEF FrailBatch, Frail, Direct, Rec, Records
  <1>8. ASSUME ~Frail(pos + 1) PROVE Later(n) = Later(pos)
    <2>1. \A j \in DOMAIN Records : Frail(j) => (j > n <=> j > pos)
      BY <1>1, <1>3, <1>8, RecordsAreParsed
    <2>2. QED  BY <2>1 DEF Later
  <1>9. ASSUME phase' = "undo", Frail(pos + 1) PROVE Wrote'
    <2>1. Owns(n)
      BY <1>1, <1>9, TakeHandle
    <2>2. kind # "rows" /\ ~Direct(pos + 1) /\ kind = "snapshot"
      BY <1>3, <1>9, <2>1 DEF Owns, Frail
    <2>3. ~DirectBatch'
      BY <1>2, <1>3, <1>6, <2>2 DEF DirectBatch, Direct, Rec, Records
    <2>4. todo' # <<>>
      BY <1>1, <1>2, StatementsReplay DEF Take
    <2>5. QED  BY <2>2, <2>3, <2>4 DEF Wrote, Coupled, Direct, Rec, Records, DirectBatch
  <1>10. QED  BY <1>2, <1>3, <1>4, <1>5, <1>7, <1>8, <1>9

\* What is seen of a frail batch, written or not, is like what is durable.
LEMMA FrailAlike ==
  ASSUME TypeInv, BatchInv, PlaceInv, FrailBatch, NEW c, NEW d, NEW b,
         Near(b, d, First, imported),
         \/ Near(b, c, First, imported)
         \/ Near(b, c, pos, imported \cup Range(batch))
  PROVE  Alike(c, d)
  <1>1. /\ Range(batch) = First + 1 .. pos /\ First \in Nat /\ pos \in Nat
        /\ Len(batch) = pos - First
        /\ \A i \in 1..Len(batch) : batch[i] = First + i
    BY BatchAt
  <1>2. kind \in Kinds /\ Len(batch) = 1 /\ Frail(batch[1]) /\ batch \in Seq(DOMAIN Records)
    BY DEF FrailBatch, PlaceInv, TypeInv, BatchInv
  <1>3. batch[1] = First + 1 /\ pos = First + 1 /\ batch[1] \in DOMAIN Records
    <2>1. 1 \in 1..Len(batch)
      BY <1>2
    <2>2. batch[1] \in DOMAIN Records
      <3>1. batch \in Seq(DOMAIN Records)
        BY <1>2
      <3>2. QED  BY <2>1, <3>1
    <2>3. pos = First + 1
      <3>1. pos \in Nat /\ First \in Nat /\ Len(batch) = 1 /\ Len(batch) = pos - First
        BY <1>1, <1>2
      <3>2. pos - First = 1
        BY <3>1, Zenon
      <3>3. QED  BY <3>1, <3>2
    <2>4. QED  BY <1>1, <2>1, <2>2, <2>3
  <1> HIDE DEF First
  <1>4. \A x : x \in First + 1 .. First + 1 <=> x \in {First + 1}
    BY <1>1
  <1>5. Range(batch) = {batch[1]}
    BY <1>1, <1>3, <1>4
  <1> DEFINE I == imported
             J == imported \cup Range(batch)
  <1>6. J = I \/ \E i \in DOMAIN Records : Frail(i) /\ J = I \cup {i}
    BY <1>2, <1>3, <1>5
  <1> HIDE DEF I, J
  <1>7. CASE Near(b, c, pos, J)
    BY <1>1, <1>2, <1>6, <1>7, NearAlike DEF I
  <1>8. CASE Near(b, c, First, I)
    BY <1>1, <1>2, <1>8, NearAlike DEF I
  <1>9. QED  BY <1>7, <1>8 DEF I, J

\* What is seen of the counted records is like what is durable.
LEMMA CountedAlike ==
  ASSUME TypeInv, BatchInv, HoldsNear(base, h, pos, imported), SeesNear(base, h, pos, imported)
  PROVE  Same(h)
  <1>1. kind \in Kinds /\ pos \in Nat
    BY DEF TypeInv, BatchInv
  <1> DEFINE I == imported
  <1> HIDE DEF I
  <1>2. h.p.open => Alike(h.p.seen, h.p.store)
    <2>1. SUFFICES ASSUME h.p.open PROVE Alike(h.p.seen, h.p.store)
      OBVIOUS
    <2>2. Near(base, h.p.seen, pos, I) /\ Near(base, h.p.store, pos, I) /\ I = I
      BY <2>1 DEF HoldsNear, SeesNear, I
    <2>3. QED  BY <1>1, <2>2, NearAlike
  <1>3. QED  BY <1>2 DEF Same

\* Where the call waits for a commit, or has one statement left.
LEMMA StepWaits ==
  ASSUME TypeInv, FlowInv, WholeInv, ~stuck, phase \in {"write", "retry"}, todo # <<>>
  PROVE  Transacted(h) /\ (InTransaction(h.p) \/ Remaining = <<>>)
  <1>1. Transacted(h)
    BY DEF FlowInv
  <1>2. ~Light => InTransaction(h.p)
    BY <1>1 DEF FlowInv, Transacted, is_transaction_active, InTransaction
  <1>3. Light => OneLeft
    BY Zenon DEF WholeInv
  <1>4. OneLeft => Remaining = <<>>
    BY LastOne DEF TypeInv
  <1>5. QED  BY <1>1, <1>2, <1>3, <1>4

LEMMA CountStep ==
  ASSUME TypeInv, BatchInv, FlowInv, WholeInv, WrittenInv, PlaceInv, CountInv, Next
  PROVE  CountInv'
  <1>1. kind' = kind /\ auto' = auto /\ single' = single
    BY Stays
  <1>2. /\ h \in HandlesOf(Contents) /\ kind \in Kinds /\ auto \in BOOLEAN /\ single \in BOOLEAN
        /\ raised \in BOOLEAN /\ todo \in Seq(Scripts) /\ pos \in Nat /\ Len(Records) \in Nat
    BY RecordsAreParsed DEF TypeInv, BatchInv
  <1>3. SUFFICES ASSUME Counted'
                 PROVE  /\ phase' \in {"idle", "over"} => Same(h')
                        /\ phase' = "over" /\ ~raised' => HoldsNear(base', h', pos', imported')
                        /\ phase' \in {"loop", "each"} =>
                             /\ HoldsNear(base', h', pos', imported')
                             /\ SeesNear(base', h', pos', imported')
                        /\ phase' = "write" =>
                             /\ LeadsNear(base', h', todo', pos', imported' \cup Range(batch'))
                             /\ \/ todo' = <<>> /\ ~InTransaction(h'.p)
                                \/ IF FrailBatch' THEN HoldsNear(base', h', First', imported')
                                   ELSE HoldsNear(base', h', pos', imported')
                             /\ Light' /\ todo' # <<>> /\ FrailBatch'
                                  => SeesNear(base', h', First', imported')
                        /\ phase' = "undo" => IF FrailBatch' THEN Wrote' \/ Same(h')
                                              ELSE HoldsNear(base', h', pos', imported')
                        /\ phase' = "retry" =>
                             /\ LeadsNear(base', h', todo', pos', imported' \cup {batch'[at']})
                             /\ \/ todo' = <<>> /\ ~InTransaction(h'.p)
                                \/ HoldsNear(base', h', pos', imported')
                        /\ phase' = "unretry" => HoldsNear(base', h', pos', imported')
    BY <1>1, CountFrom, Zenon
  <1>4. auto /\ auto' /\ ~single /\ ~h'.p.lost /\ ~stuck /\ ~stuck'
    BY <1>1, <1>3, Recalled DEF Counted
  <1>5. Remembers(h, h') => Counted
    BY <1>4 DEF Remembers, Counted
  <1>6. ASSUME Spares(h, h')
        PROVE  /\ Counted
               /\ \A b, p, I : HoldsNear(b, h, p, I) => HoldsNear(b, h', p, I)
               /\ \A b, p, I : HoldsNear(b, h, p, I) /\ (SeesNear(b, h, p, I) \/ Undone(h'))
                                 => SeesNear(b, h', p, I)
               /\ Same(h) \/ Undone(h') => Same(h')
    BY <1>5, <1>6, SparesRemember, SparesNear, Zenon
  <1>7. Spares(h, h)
    BY SparesItself
  <1> HIDE DEF First
  <1> DEFINE Still == pos' = pos /\ batch' = batch /\ base' = base /\ imported' = imported
  <1>8. CASE Start
    <2>1. /\ h' = h /\ phase' = "loop" /\ phase \in {"idle", "over"}
          /\ pos' = 0 /\ imported' = {} /\ base' = h.p.store
      BY <1>2, <1>4, <1>8, StartHandle DEF Start
    <2>2. Same(h)
      BY <1>6, <1>7, <2>1, Zenon DEF CountInv
    <2>3. h.p.store \in Contents
      BY <1>2, FieldsOfHandles DEF Sessions, SessionRecords
    <2>4. Replay(h.p.store, {}) = h.p.store
      BY <2>3, ReplayNothing
    <2>5. HoldsNear(h.p.store, h, 0, {}) /\ SeesNear(h.p.store, h, 0, {})
      BY <2>2, <2>4 DEF HoldsNear, SeesNear, Near, Same, Alike
    <2>6. QED  BY <2>1, <2>5
  <1>9. CASE BeginSingle
    BY <1>4, <1>9 DEF BeginSingle
  <1>10. ASSUME NEW n, phase = "loop", Flushes(n), Take(n)
         PROVE  /\ phase' = "write" =>
                     /\ LeadsNear(base', h', todo', pos', imported' \cup Range(batch'))
                     /\ IF FrailBatch' THEN HoldsNear(base', h', First', imported')
                        ELSE HoldsNear(base', h', pos', imported')
                     /\ SeesNear(base', h', First', imported')
                /\ phase' = "undo" => IF FrailBatch' THEN Wrote'
                                      ELSE HoldsNear(base', h', pos', imported')
                /\ phase' \in {"write", "undo"}
    <2>1. /\ h' \in HandlesOf(Contents) /\ phase' \in {"write", "undo"}
          /\ ~Owns(n) => h' = h /\ phase' = "write"
          /\ Owns(n) => BeginsHandle(Contents, h, h', phase' = "write")
          /\ (phase' = "write") \in BOOLEAN /\ \A i \in pos + 1 .. n : Prepared(kind, Rec(i))
      BY <1>2, <1>10, TakeHandle DEF Take
    <2>2. /\ First' = pos /\ Range(batch') = pos + 1 .. n /\ pos' = n /\ imported' = imported
          /\ base' = base /\ todo' = Statements(Batch(n)) /\ n \in pos + 1 .. Len(Records)
          /\ ~FrailBatch' => Later(n) = Later(pos)
          /\ phase' = "undo" /\ FrailBatch' => Wrote'
      BY <1>1, <1>4, <1>10, CountTaken
    <2>3. Spares(h, h')
      BY <1>2, <2>1, BeginSpares, SparesItself
    <2>4. HoldsNear(base, h, pos, imported) /\ SeesNear(base, h, pos, imported)
      BY <1>6, <1>10, <2>3, Zenon DEF CountInv
    <2>5. HoldsNear(base, h', pos, imported)
      BY <1>6, <2>3, <2>4
    <2>6. phase' = "write" => SeesNear(base, h', pos, imported)
      BY <1>2, <2>1, <2>4, BeginNear
    <2>7. ~FrailBatch' => HoldsNear(base, h', n, imported)
      BY <2>2, <2>5 DEF HoldsNear, Near
    <2>8. ASSUME phase' = "write", h'.p.open
          PROVE  \E w \in Contents : /\ Leads(h'.p.driver, h'.p.seen, todo', {w})
                                     /\ Near(base, w, n, imported \cup (pos + 1 .. n))
      <3>1. h'.p.seen \in WholeRows
        <4>1. StoreWhole(h) /\ SeenWhole(h)
          BY <1>4, <1>10, Zenon DEF WholeInv
        <4>2. QED  BY <2>3, <2>8, <4>1, SparesWhole DEF SeenWhole
      <3> DEFINE w == Replay(h'.p.seen, pos + 1 .. n)
      <3>2. /\ Leads(h'.p.driver, h'.p.seen, todo', {w})
            /\ pos + 1 .. n \subseteq DOMAIN Records
        BY <1>2, <1>10, <2>1, <2>2, <3>1, StatementsReplay
      <3>3. w \in Contents
        BY <1>2, <2>1, <3>1, <3>2, ReplayIsWhole DEF WholeRows
      <3>4. Near(base, h'.p.seen, pos, imported)
        BY <2>6, <2>8 DEF SeesNear
      <3>5. imported \subseteq 1..pos
        BY <1>4, Zenon DEF PlaceInv
      <3>6. n \in pos .. Len(Records)
        BY <1>2, <2>2
      <3>7. Near(base, w, n, imported \cup (pos + 1 .. n))
        BY <1>2, <3>4, <3>5, <3>6, NearFurther
      <3> HIDE DEF w
      <3>8. QED  BY <3>2, <3>3, <3>7
    <2>9. phase' = "write" => LeadsNear(base, h', todo', n, imported \cup (pos + 1 .. n))
      BY <2>8 DEF LeadsNear
    <2>10. QED  BY <2>1, <2>2, <2>5, <2>6, <2>7, <2>9
  <1>11. ASSUME NEW n, phase = "loop", Refuse(n) PROVE phase' = "over" /\ raised' = TRUE /\ Same(h')
    <2>1. Spares(h, h') /\ phase' = "over" /\ raised' = TRUE
      BY <1>2, <1>11, RefuseHandle
    <2>2. HoldsNear(base, h, pos, imported) /\ SeesNear(base, h, pos, imported)
      BY <1>6, <1>11, <2>1, Zenon DEF CountInv
    <2>3. QED  BY <1>6, <2>1, <2>2, CountedAlike
  <1>12. CASE Return
    <2>1. h' = h /\ phase = "loop" /\ phase' = "over" /\ Still
      BY <1>12 DEF Return, End, work, stats, aux
    <2>2. HoldsNear(base, h, pos, imported) /\ SeesNear(base, h, pos, imported)
      BY <1>6, <1>7, <2>1, Zenon DEF CountInv, Spares
    <2>3. Same(h)
      BY <2>2, CountedAlike
    <2>4. QED  BY <2>1, <2>2, <2>3
  <1>13. CASE Step /\ phase = "write"
    <2>1. /\ phase' \in {"write", "undo"} /\ todo # <<>> /\ h' \in HandlesOf(Contents)
          /\ ExecutesHandle(h, Current, h', phase' = phase) /\ (phase' = phase) \in BOOLEAN
          /\ todo' = IF phase' = phase THEN Remaining ELSE todo
      BY <1>2, <1>13, StepHandle DEF Step
    <2>2. Still
      BY <1>4, <1>13 DEF Step, aux
    <2>3. /\ LeadsNear(base, h, todo, pos, imported \cup Range(batch))
          /\ IF FrailBatch THEN HoldsNear(base, h, First, imported)
             ELSE HoldsNear(base, h, pos, imported)
          /\ Light /\ FrailBatch => SeesNear(base, h, First, imported)
      BY <1>5, <1>13, <2>1, ExecuteRemembers, Zenon DEF CountInv
    <2>4. First' = First /\ (FrailBatch' <=> FrailBatch)
      BY <1>1, <2>2, BatchStays
    <2>5. Transacted(h) /\ (InTransaction(h.p) \/ Remaining = <<>>)
      BY <1>4, <1>13, <2>1, StepWaits
    <2> DEFINE I == imported \cup Range(batch)
    <2>6. /\ phase' = phase => /\ LeadsNear(base, h', Remaining, pos, I)
                               /\ \/ h'.p.store = h.p.store
                                  \/ Remaining = <<>> /\ ~InTransaction(h'.p)
          /\ phase' # phase => /\ h'.p.store = h.p.store /\ (h'.p.open => h.p.open)
                               /\ \/ h'.p.seen \in {h.p.seen, h.p.store}
                                  \/ LeadsNear(base, h', Remaining, pos, I)
      <3> HIDE DEF I
      <3>1. LeadsNear(base, h, todo, pos, I)
        BY <2>3 DEF I
      <3>2. QED  BY <1>2, <1>4, <2>1, <2>5, <3>1, StepNear
    <2>7. ASSUME NEW p, NEW J, h'.p.store = h.p.store
          PROVE  HoldsNear(base, h, p, J) => HoldsNear(base, h', p, J)
      BY <2>7 DEF HoldsNear
    <2>8. CASE phase' = "write"
      <3>1. Light' /\ FrailBatch' => Light /\ Remaining = <<>>
        <4>1. Light' => Light
          BY <1>1, <1>13, <2>2, KindStays
            DEF Light, Coupled, DirectBatch, Direct, Rec, Records, Step
        <4>2. Light => OneLeft
          BY <1>4, <1>13, Zenon DEF WholeInv
        <4>3. QED  BY <1>2, <2>1, <4>1, <4>2, LastOne
      <3> HIDE DEF Still
      <3>2. LeadsNear(base, h', todo', pos, I) /\ (Light' /\ FrailBatch' => todo' = <<>>)
        BY <1>13, <2>1, <2>6, <2>8, <3>1
      <3>3. \/ todo' = <<>> /\ ~InTransaction(h'.p)
            \/ IF FrailBatch THEN HoldsNear(base, h', First, imported)
               ELSE HoldsNear(base, h', pos, imported)
        BY <1>13, <2>1, <2>3, <2>6, <2>7, <2>8
      <3>4. QED  BY <2>2, <2>4, <2>8, <3>2, <3>3 DEF Still
    <2>9. CASE phase' = "undo"
      <3>1. /\ h'.p.store = h.p.store /\ (h'.p.open => h.p.open)
            /\ h'.p.seen \in {h.p.seen, h.p.store} \/ LeadsNear(base, h', Remaining, pos, I)
        BY <1>13, <2>6, <2>9
      <3>2. ~FrailBatch => HoldsNear(base, h', pos, imported)
        BY <2>3, <2>7, <3>1
      <3>3. ~Light => Wrote'
        <4>1. ~Light => Coupled
          BY <1>13 DEF Light
        <4>2. Coupled' <=> Coupled
          BY <1>1, <2>2, KindStays DEF Coupled, DirectBatch, Direct, Rec, Records
        <4>3. todo' # <<>>
          BY <1>13, <2>1, <2>9
        <4>4. QED  BY <4>1, <4>2, <4>3 DEF Wrote, Coupled, DirectBatch, Direct, Rec, Records
      <3>4. ASSUME Light, FrailBatch, h'.p.open PROVE Alike(h'.p.seen, h'.p.store)
        <4>1. Near(base, h'.p.store, First, imported) /\ Near(base, h.p.seen, First, imported)
          BY <2>3, <3>1, <3>4 DEF HoldsNear, SeesNear
        <4>2. \/ Near(base, h'.p.seen, First, imported)
              \/ Near(base, h'.p.seen, pos, imported \cup Range(batch))
          <5>1. CASE h'.p.seen \in {h.p.seen, h.p.store}
            BY <3>1, <4>1, <5>1
          <5>2. CASE LeadsNear(base, h', Remaining, pos, I)
            <6>1. Remaining = <<>>
              <7>1. OneLeft
                BY <1>4, <1>13, <3>4, Zenon DEF WholeInv
              <7>2. QED  BY <1>2, <2>1, <7>1, LastOne
            <6> HIDE DEF I
            <6>2. SeesNear(base, h', pos, I)
              BY <5>2, <6>1, EndNear
            <6>3. QED  BY <3>4, <6>2 DEF SeesNear, I
          <5>3. QED  BY <3>1, <5>1, <5>2
        <4>3. QED  BY <3>4, <4>1, <4>2, FrailAlike
      <3>5. Light /\ FrailBatch => Same(h')
        BY <3>4 DEF Same
      <3>6. QED  BY <2>2, <2>4, <2>9, <3>2, <3>3, <3>5
    <2>10. QED  BY <2>1, <2>8, <2>9
  <1>14. CASE Step /\ phase = "retry"
    <2>1. /\ phase' \in {"retry", "unretry"} /\ todo # <<>> /\ h' \in HandlesOf(Contents)
          /\ ExecutesHandle(h, Current, h', phase' = phase) /\ (phase' = phase) \in BOOLEAN
          /\ todo' = IF phase' = phase THEN Remaining ELSE todo
      BY <1>2, <1>14, StepHandle DEF Step
    <2>2. Still /\ at' = at
      BY <1>4, <1>14 DEF Step, aux
    <2> DEFINE I == imported \cup {batch[at]}
    <2>3. LeadsNear(base, h, todo, pos, I) /\ HoldsNear(base, h, pos, imported)
      BY <1>5, <1>14, <2>1, ExecuteRemembers, Zenon DEF CountInv
    <2>4. Transacted(h) /\ (InTransaction(h.p) \/ Remaining = <<>>)
      BY <1>4, <1>14, <2>1, StepWaits
    <2>5. /\ phase' = phase => /\ LeadsNear(base, h', Remaining, pos, I)
                               /\ \/ h'.p.store = h.p.store
                                  \/ Remaining = <<>> /\ ~InTransaction(h'.p)
          /\ phase' # phase => h'.p.store = h.p.store
      <3> HIDE DEF I
      <3>1. QED  BY <1>2, <1>4, <2>1, <2>3, <2>4, StepNear
    <2>6. h'.p.store = h.p.store => HoldsNear(base, h', pos, imported)
      BY <2>3 DEF HoldsNear
    <2>7. CASE phase' = "retry"
      BY <1>14, <2>1, <2>2, <2>5, <2>6, <2>7
    <2>8. CASE phase' = "unretry"
      BY <1>14, <2>2, <2>5, <2>6, <2>8
    <2>9. QED  BY <2>1, <2>7, <2>8
  <1>15. CASE Finish
    <2>1. /\ phase' \in {"loop", "undo"} /\ phase = "write" /\ todo = <<>> /\ h' \in HandlesOf(Contents)
          /\ CommitsHandle(h, h', phase' = "loop") /\ (phase' = "loop") \in BOOLEAN
      BY <1>2, <1>4, <1>15, FinishHandle DEF Finish
    <2>2. /\ pos' = pos /\ batch' = batch /\ base' = base /\ todo' = todo
          /\ imported' = IF phase' = "loop" THEN imported \cup Range(batch) ELSE imported
      <3>1. PICK o \in (IF auto THEN Commit(h) ELSE {Ok(h, 0)}) :
              /\ phase' = IF o.ok THEN "loop" ELSE "undo"
              /\ imported' = IF o.ok THEN imported \cup Range(batch) ELSE imported
        BY <1>15 DEF Finish
      <3>2. QED  BY <1>15, <3>1 DEF Finish, work, aux
    <2>3. /\ LeadsNear(base, h, <<>>, pos, imported \cup Range(batch))
          /\ ~InTransaction(h.p) \/ IF FrailBatch THEN HoldsNear(base, h, First, imported)
                                    ELSE HoldsNear(base, h, pos, imported)
      BY <1>5, <2>1, CommitRemembers, Zenon DEF CountInv
    <2> DEFINE I == imported \cup Range(batch)
    <2>4. h.p.open /\ ~h.p.failed /\ ~h.p.broken
      BY <2>1 DEF WrittenInv
    <2>5. SeesNear(base, h, pos, I)
      BY <2>3, EndNear
    <2>6. /\ phase' = "loop" => HoldsNear(base, h', pos, I) /\ SeesNear(base, h', pos, I)
          /\ phase' # "loop" => /\ h'.p.store = h.p.store /\ h'.p.seen \in {h.p.seen, h.p.store}
                                /\ InTransaction(h.p)
      <3> HIDE DEF I
      <3>1. QED  BY <1>4, <2>1, <2>4, <2>5, CommitNear
    <2>7. CASE phase' = "loop"
      BY <2>2, <2>6, <2>7
    <2>8. CASE phase' = "undo"
      <3>1. /\ h'.p.store = h.p.store /\ h'.p.seen \in {h.p.seen, h.p.store}
            /\ IF FrailBatch THEN HoldsNear(base, h, First, imported)
               ELSE HoldsNear(base, h, pos, imported)
        BY <2>3, <2>6, <2>8
      <3>2. ~FrailBatch => HoldsNear(base, h', pos, imported)
        BY <3>1 DEF HoldsNear
      <3>3. ASSUME FrailBatch PROVE Same(h')
        <4>1. Near(base, h.p.store, First, imported) /\ Near(base, h.p.seen, pos, I)
          BY <2>4, <2>5, <3>1, <3>3 DEF HoldsNear, SeesNear
        <4>2. Alike(h.p.seen, h.p.store)
          BY <3>3, <4>1, FrailAlike
        <4>3. QED  BY <3>1, <4>2 DEF Same, Alike
      <3>4. First' = First /\ (FrailBatch' <=> FrailBatch)
        BY <1>1, <2>2, BatchStays
      <3> HIDE DEF I
      <3>5. QED  BY <2>2, <2>8, <3>2, <3>3, <3>4
    <2>9. QED  BY <2>1, <2>7, <2>8
  <1>16. CASE UndoAndRetry
    <2>1. Spares(h, h') /\ Undone(h') /\ Retrying
      BY <1>2, <1>16, UndoAndRetryHandle
    <2>2. phase = "undo" /\ phase' = "each" /\ Still
      BY <1>16 DEF UndoAndRetry, Continue, stats, aux
    <2>3. ~FrailBatch
      BY <2>1, RetriesFrail
    <2>4. HoldsNear(base, h, pos, imported)
      BY <1>6, <2>1, <2>2, <2>3, Zenon DEF CountInv
    <2>5. HoldsNear(base, h', pos, imported) /\ SeesNear(base, h', pos, imported)
      BY <1>6, <2>1, <2>4
    <2>6. QED  BY <2>2, <2>5
  <1>17. CASE AutoUndo
    <2>1. /\ Spares(h, h') /\ phase' \in {"each", "over"} /\ phase = "undo"
          /\ phase' = "each" => FallsBack /\ Clean(h')
          /\ phase' = "over" => raised' = TRUE
          /\ Wrote \/ FallsBack => Undone(h')
      BY <1>2, <1>4, <1>17, AutoUndoHandle DEF AutoUndo
    <2>2. Still
      <3>1. pos' = pos /\ base' = base /\ imported' = imported
        BY <1>17 DEF AutoUndo, stats
      <3>2. QED  BY <1>2, <1>17, <3>1, AutoUndoHandle
    <2>3. FallsBack => ~FrailBatch
      <3>1. FallsBack => kind \in {"rows", "ck"} /\ ~DirectBatch
        BY DEF FallsBack, PlainFallsBack, OptimizedFallsBack, DirectBatch, Direct
      <3>2. QED  BY <3>1, RetriesFrail
    <2>4. ~FrailBatch => Wrote \/ FallsBack
      <3>1. batch # <<>>
        BY <2>1 DEF BatchInv
      <3>2. ~FrailBatch => kind # "snapshot" /\ ~DirectBatch
        BY <3>1 DEF FrailBatch, Frail, DirectBatch
      <3>3. kind = "rows" /\ ~DirectBatch => FallsBack
        BY DEF FallsBack, PlainFallsBack, OptimizedFallsBack
      <3>4. QED  BY <3>2, <3>3 DEF Wrote, Coupled
    <2>5. IF FrailBatch THEN Wrote \/ Same(h) ELSE HoldsNear(base, h, pos, imported)
      BY <1>6, <2>1, Zenon DEF CountInv
    <2>6. Same(h')
      BY <1>6, <2>1, <2>4, <2>5
    <2>7. phase' = "each" => HoldsNear(base, h', pos, imported) /\ SeesNear(base, h', pos, imported)
      BY <1>6, <2>1, <2>3, <2>5 DEF Undone
    <2>8. QED  BY <2>1, <2>2, <2>6, <2>7
  <1>18. CASE OwnedUndo
    BY <1>4, <1>18 DEF OwnedUndo
  <1>19. CASE SingleUndo
    BY <1>4, <1>19 DEF SingleUndo
  <1>20. CASE Each
    <2>1. /\ h' \in HandlesOf(Contents) /\ phase = "each" /\ phase' \in {"retry", "unretry"}
          /\ at <= Len(batch) /\ generic \in BOOLEAN
          /\ generic => h' = h /\ phase' = "retry"
          /\ ~generic => BeginsHandle(Contents, h, h', phase' = "retry")
          /\ (phase' = "retry") \in BOOLEAN
      BY <1>2, <1>20, EachHandle DEF Each, TypeInv
    <2>2. Still /\ at' = at
      BY <1>20 DEF Each, stats, aux
    <2>3. Spares(h, h')
      BY <1>2, <2>1, BeginSpares, SparesItself
    <2>4. HoldsNear(base, h, pos, imported) /\ SeesNear(base, h, pos, imported)
      BY <1>6, <2>1, <2>3, Zenon DEF CountInv
    <2>5. HoldsNear(base, h', pos, imported)
      BY <1>6, <2>3, <2>4
    <2>6. phase' = "retry" => SeesNear(base, h', pos, imported)
      BY <1>2, <2>1, <2>4, BeginNear
    <2>7. ASSUME phase' = "retry", h'.p.open
          PROVE  \E w \in Contents : /\ Leads(h'.p.driver, h'.p.seen, todo', {w})
                                     /\ Near(base, w, pos, imported \cup {batch[at]})
      <3>1. h.p.open
        BY <2>3, <2>7 DEF Spares
      <3>2. /\ StoreWhole(h) /\ SeenWhole(h)
            /\ generic /\ kind = "ck" => ~h.p.open
        BY <1>4, <2>1, Zenon DEF WholeInv, Retries
      <3>3. h'.p.seen \in WholeRows
        BY <2>3, <2>7, <3>2, SparesWhole DEF SeenWhole
      <3>4. todo' = <<Script(kind, Rec(batch[at]))>>
        BY <1>20, <3>1, <3>2, EachTodo
      <3>5. batch[at] \in DOMAIN Records /\ Prepared(kind, Rec(batch[at]))
        BY <2>1, EachWrites
      <3> DEFINE w == Put(h'.p.seen, Rec(batch[at]).key, Told(Rec(batch[at])))
      <3>6. w \in WholeRows /\ Leads(h'.p.driver, h'.p.seen, todo', {w})
        BY <1>2, <3>3, <3>4, <3>5, ScriptReplays
      <3>7. Near(base, h'.p.seen, pos, imported)
        BY <2>6, <2>7 DEF SeesNear
      <3>8. imported \subseteq DOMAIN Records /\ \A j \in imported : j < batch[at]
        <4>1. imported \subseteq 1..First + at - 1 /\ imported \subseteq 1..pos
          BY <1>4, <2>1, <3>1, Zenon DEF PlaceInv, Retries
        <4>2. at \in Nat /\ at >= 1
          BY <2>1 DEF BatchInv, Retries
        <4>3. at \in 1..Len(batch)
          BY <2>1, <4>2 DEF BatchInv
        <4>4. First \in Nat /\ batch[at] = First + at
          BY <4>3, BatchAt
        <4>5. pos \in 0..Len(Records) /\ DOMAIN Records = 1..Len(Records)
          BY <1>2, RecordsAreParsed DEF BatchInv
        <4>6. imported \subseteq DOMAIN Records
          BY <1>2, <4>1, <4>5
        <4>7. QED  BY <4>1, <4>2, <4>4, <4>6
      <3>9. base \in Contents /\ h'.p.seen \in Contents
        BY <3>3 DEF TypeInv, WholeRows
      <3>10. Near(base, w, pos, imported \cup {batch[at]})
        BY <1>2, <3>5, <3>7, <3>8, <3>9, NearOne
      <3> HIDE DEF w
      <3>11. w \in Contents
        BY <3>6 DEF WholeRows
      <3>12. QED  BY <3>6, <3>10, <3>11
    <2>8. phase' = "retry" => LeadsNear(base, h', todo', pos, imported \cup {batch[at]})
      BY <2>7 DEF LeadsNear
    <2>9. QED  BY <2>1, <2>2, <2>5, <2>8
  <1>21. CASE EachDone
    <2>1. h' = h /\ phase = "each" /\ phase' = "loop" /\ Still
      BY <1>21 DEF EachDone, stats, aux
    <2>2. HoldsNear(base, h, pos, imported) /\ SeesNear(base, h, pos, imported)
      BY <1>6, <1>7, <2>1, Zenon DEF CountInv, Spares
    <2>3. QED  BY <2>1, <2>2
  <1>22. CASE Retried
    <2>1. /\ phase' \in {"each", "unretry"} /\ phase = "retry" /\ todo = <<>>
          /\ CommitsHandle(h, h', phase' = "each") /\ (phase' = "each") \in BOOLEAN
      BY <1>2, <1>22, RetriedHandle DEF Retried
    <2>2. /\ pos' = pos /\ batch' = batch /\ base' = base
          /\ imported' = IF phase' = "each" THEN imported \cup {batch[at]} ELSE imported
      <3>1. PICK o \in Commit(h) :
              /\ phase' = IF o.ok THEN "each" ELSE "unretry"
              /\ imported' = IF o.ok THEN imported \cup {batch[at]} ELSE imported
        BY <1>22 DEF Retried
      <3>2. QED  BY <1>22, <3>1 DEF Retried, aux
    <2> DEFINE I == imported \cup {batch[at]}
    <2>3. /\ LeadsNear(base, h, <<>>, pos, I)
          /\ ~InTransaction(h.p) \/ HoldsNear(base, h, pos, imported)
      BY <1>5, <2>1, CommitRemembers, Zenon DEF CountInv
    <2> HIDE DEF I
    <2>4. h.p.open /\ ~h.p.failed /\ ~h.p.broken
      BY <2>1 DEF WrittenInv
    <2>5. SeesNear(base, h, pos, I)
      BY <2>3, EndNear
    <2>6. /\ phase' = "each" => HoldsNear(base, h', pos, I) /\ SeesNear(base, h', pos, I)
          /\ phase' # "each" => h'.p.store = h.p.store /\ InTransaction(h.p)
      BY <1>4, <2>1, <2>4, <2>5, CommitNear
    <2>7. phase' # "each" => HoldsNear(base, h', pos, imported)
      BY <2>3, <2>6 DEF HoldsNear
    <2>8. QED  BY <2>1, <2>2, <2>6, <2>7 DEF I
  <1>23. CASE RetryFails
    <2>1. Spares(h, h') /\ Undone(h') /\ phase = "unretry" /\ phase' = "each"
      BY <1>2, <1>23, RetryFailsHandle DEF RetryFails, Undone
    <2>2. Still
      BY <1>23 DEF RetryFails, aux
    <2>3. HoldsNear(base, h, pos, imported)
      BY <1>6, <2>1, Zenon DEF CountInv
    <2>4. HoldsNear(base, h', pos, imported) /\ SeesNear(base, h', pos, imported)
      BY <1>6, <2>1, <2>3
    <2>5. QED  BY <2>1, <2>2, <2>4
  <1>24. CASE RetryRaises
    <2>1. /\ Spares(h, h') /\ phase' \in {"each", "over"} /\ phase = "unretry"
          /\ Undone(h') /\ (phase' = "over" => raised' = TRUE) /\ batch' = batch
      BY <1>2, <1>4, <1>24, RetryRaisesHandle DEF RetryRaises
    <2>2. Still
      BY <1>24, <2>1 DEF RetryRaises
    <2>3. HoldsNear(base, h, pos, imported)
      BY <1>6, <2>1, Zenon DEF CountInv
    <2>4. HoldsNear(base, h', pos, imported) /\ SeesNear(base, h', pos, imported) /\ Same(h')
      BY <1>6, <2>1, <2>3
    <2>5. QED  BY <2>1, <2>2, <2>4
  <1>25. CASE CallerCommits
    BY <1>4, <1>25 DEF CallerCommits
  <1>26. CASE Exit
    <2>1. phase' = "out"
      BY <1>26, Zenon DEF Exit
    <2>2. QED  BY <2>1
  <1>27. CASE NextBatch
    <2>1. PICK n \in pos + 1 .. pos + BatchSize : phase = "loop" /\ Flushes(n) /\ (Take(n) \/ Refuse(n))
      BY <1>27 DEF NextBatch
    <2>2. CASE Take(n)
      BY <1>10, <2>1, <2>2
    <2>3. CASE Refuse(n)
      BY <1>11, <2>1, <2>3
    <2>4. QED  BY <2>1, <2>2, <2>3
  <1>28. CASE Step
    <2>1. phase \in {"write", "retry"}
      BY <1>28 DEF Step
    <2>2. QED  BY <1>13, <1>14, <1>28, <2>1
  <1>29. QED
    BY <1>8, <1>9, <1>12, <1>15, <1>16, <1>17, <1>18, <1>19, <1>20, <1>21, <1>22, <1>23,
       <1>24, <1>25, <1>26, <1>27, <1>28, Zenon DEF Next

LEMMA InitCount == Init => PlaceInv /\ CountInv
  <1> SUFFICES ASSUME Init PROVE PlaceInv /\ CountInv
    OBVIOUS
  <1>1. phase = "idle" /\ batch = <<>> /\ pos = 0 /\ imported = {}
    BY DEF Init
  <1>2. PlaceInv
    BY <1>1 DEF PlaceInv, First, FrailBatch, Retries
  <1>3. Same(h)
    BY InitHandle DEF Opened, Same, Alike
  <1>4. QED  BY <1>1, <1>2, <1>3 DEF CountInv

LEMMA CountsNow ==
  ASSUME TypeInv, BatchInv, PlaceInv, CountInv
  PROVE  CountsHonest
  <1>1. SUFFICES ASSUME phase = "over", ~raised, Counted PROVE h.p.store = Replay(base, imported)
    BY DEF CountsHonest, Counted
  <1>2. HoldsNear(base, h, pos, imported) /\ pos = Len(Records)
    BY <1>1, Zenon DEF CountInv, PlaceInv, Counted
  <1>3. kind \in Kinds /\ base \in Contents /\ h.p.store \in Contents
    BY FieldsOfHandles DEF TypeInv, Sessions, SessionRecords
  <1>4. Near(base, h.p.store, Len(Records), imported)
    BY <1>2 DEF HoldsNear
  <1>5. QED  BY <1>3, <1>4, NearAtEnd

\* A committed import that returned left, of the rows it found, what the records
\* it counted make of them, in the order of the stream: however its batches
\* failed, were undone and retried, whatever erases stood between them, and
\* whatever an earlier call that raised had left pending.
THEOREM CountsHold == Spec => []CountsHonest
  <1>1. TypeInv /\ BatchInv /\ FlowInv /\ WholeInv /\ WrittenInv /\ PlaceInv /\ CountInv
          /\ [Next]_vars => WrittenInv' /\ PlaceInv' /\ CountInv'
    <2>1. TypeInv /\ BatchInv /\ FlowInv /\ WholeInv /\ WrittenInv /\ PlaceInv /\ CountInv
            /\ Next => WrittenInv' /\ PlaceInv' /\ CountInv'
      BY WrittenStep, PlaceStep, CountStep, Zenon
    <2>2. ASSUME WrittenInv, PlaceInv, CountInv, UNCHANGED vars
          PROVE  WrittenInv' /\ PlaceInv' /\ CountInv'
      <3>1. /\ UNCHANGED <<h, kind, auto, single, phase, raised, pos, batch, todo, at, generic>>
            /\ UNCHANGED <<imported, base, stuck>>
        BY <2>2 DEF vars, what, work, stats, aux
      <3>2. WrittenInv'
        BY <2>2, <3>1 DEF WrittenInv
      <3>3. First' = First /\ (FrailBatch' <=> FrailBatch)
        BY <3>1, BatchStays
      <3>4. PlaceInv'
        BY <2>2, <3>1, PlaceFrom, Zenon DEF PlaceInv
      <3>5. /\ Counted' <=> Counted
            /\ Light' <=> Light
            /\ Wrote' <=> Wrote
        BY <3>1, KindStays DEF Counted, Light, Wrote, Coupled, DirectBatch, Direct, Rec, Records
      <3>6. CountInv'
        BY <2>2, <3>1, <3>3, <3>5, CountFrom, Zenon DEF CountInv
      <3>7. QED  BY <3>2, <3>4, <3>6
    <2>3. QED  BY <2>1, <2>2
  <1>2. TypeInv /\ BatchInv /\ PlaceInv /\ CountInv => CountsHonest
    BY CountsNow
  <1>3. QED  BY FlowHolds, WholeHolds, InitMirror, InitCount, <1>1, <1>2, PTL DEF Spec
=============================================================================
