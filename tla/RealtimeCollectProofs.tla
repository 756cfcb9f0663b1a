------------------------ MODULE RealtimeCollectProofs ------------------------
(***************************************************************************)
(* Proofs about RealtimeCollect for any keys, answers, handles (one        *)
(* database or two, of any drivers), runs and faults: the races a window   *)
(* opens, that a run is judged before what it wrote is durable, and that   *)
(* odds are stored only of responses read to their end.                    *)
(*                                                                         *)
(* The sets Sessions(V) and HandlesOf(V, S) give the records of Backends   *)
(* and DualDatabase their fields; V holds the rows of a database, or of    *)
(* the primary, and S those of the secondary.  A call of the handle that   *)
(* is a call of its databases keeps rows in a set the statements do not    *)
(* leave.                                                                  *)
(***************************************************************************)
EXTENDS RealtimeCollect, FiniteSetTheorems, SequenceTheorems, WellFoundedInduction, TLAPS

(***************************************************************************)
(* The window: filtering whole dates first, then minutes, opens exactly    *)
(* the races whose current row is due.                                     *)
(***************************************************************************)

\* The selected rows are the current ones.
LEMMA SelectedAreCurrent ==
  ASSUME NEW R \in SUBSET RaceRows
  PROVE  Selected(R) = {row \in R : Current(R, row)}
  BY DEF Selected, Current, RaceRows

\* A race with a post time starts on its day.
LEMMA OnItsDay ==
  ASSUME NEW row \in RaceRows, row.post \notin {NoPost, BadPost}
  PROVE  LET post == DayOf[row.key] * DayMinutes + row.post
         IN /\ post \in Int /\ DayStart(row.key) \in Int /\ DayEnd(row.key) \in Int
            /\ DayStart(row.key) <= post /\ post <= DayEnd(row.key)
            /\ DayStart(row.key) + row.post = post
  <1>1. DayOf[row.key] \in Int /\ DayMinutes \in Nat /\ row.post \in 0 .. DayMinutes - 1
    BY WindowAssumption DEF RaceRows
  <1>2. DayOf[row.key] * DayMinutes \in Int
    BY <1>1
  <1>3. QED  BY <1>1, <1>2 DEF DayStart, DayEnd

\* What is opened is what is due, unless the rows are refused as a whole.
LEMMA TargetsAreDue ==
  ASSUME NEW R \in SUBSET RaceRows, NEW w \in Bounds, Requested(w), ~Refuses(R, w)
  PROVE  \A k : k \in Targets(R, w) <=> Due(R, w, k)
  <1> DEFINE S == Selected(R)
  <1>1. S \subseteq RaceRows /\ S = {row \in R : Current(R, row)}
    BY SelectedAreCurrent
  <1>2. ~Undecided(S, w) /\ ~NoPostTime(S, w)
    BY DEF Refuses
  <1>3. Targets(R, w) = Kept(S, w) \ Canceled(S, w)
    BY DEF Targets
  <1> HIDE DEF S
  <1>4. w.now \in Int /\ w.within \in Int /\ w.past \in Int
    BY DEF Bounds, NoLimit
  <1>5. ASSUME NEW k, NEW row \in S, row.key = k, row.post \notin {NoPost, BadPost},
               k \in DateCandidates(S, w)
        PROVE  PostTime(S, k) = DayOf[k] * DayMinutes + row.post
    <2>1. row \in Of(S, k) /\ (CHOOSE r \in Of(S, k) : TRUE) \in Of(S, k)
      BY <1>5 DEF Of
    <2>2. (CHOOSE r \in Of(S, k) : TRUE).post = row.post
      BY <1>2, <1>5, <2>1 DEF NoPostTime
    <2>3. QED  BY <1>1, <1>5, <2>2, OnItsDay DEF PostTime
  <1>6. ASSUME NEW k, k \in Targets(R, w)
        PROVE  Due(R, w, k)
    <2>1. k \in DateCandidates(S, w) /\ ~TooFar(S, k, w) /\ ~TooPast(S, k, w) /\ k \notin Canceled(S, w)
      BY <1>3, <1>6 DEF Kept
    <2>2. PICK row \in S : row.key = k
      BY <2>1 DEF DateCandidates, KeysOf
    <2>3. row \in Of(S, k) /\ row.kubun = "active" /\ row.post \notin {NoPost, BadPost}
      BY <1>2, <2>1, <2>2 DEF Of, Undecided, NoPostTime, Canceled
    <2>4. PostTime(S, k) = DayOf[k] * DayMinutes + row.post /\ PostTime(S, k) \in Int
      BY <1>1, <1>5, <2>1, <2>2, <2>3, OnItsDay
    <2>5. LET post == DayOf[k] * DayMinutes + row.post
          IN /\ w.within # NoLimit => post <= w.now + w.within
             /\ w.past # NoLimit => post >= w.now - w.past
      BY <1>4, <2>1, <2>4 DEF TooFar, TooPast
    <2>6. row \in R /\ Current(R, row)
      BY <1>1
    <2>7. QED  BY <2>2, <2>3, <2>5, <2>6 DEF Due
  <1>7. ASSUME NEW k, Due(R, w, k)
        PROVE  k \in Targets(R, w)
    <2> DEFINE post(row) == DayOf[k] * DayMinutes + row.post
    <2>1. PICK row \in R :
            /\ row.key = k /\ Current(R, row) /\ row.kubun = "active"
            /\ row.post \notin {NoPost, BadPost}
            /\ w.within # NoLimit => post(row) <= w.now + w.within
            /\ w.past # NoLimit => post(row) >= w.now - w.past
      BY <1>7 DEF Due
    <2>2. row \in S /\ row \in RaceRows
      BY <1>1, <2>1
    <2>3. /\ post(row) \in Int /\ DayStart(k) \in Int /\ DayEnd(k) \in Int
          /\ DayStart(k) <= post(row) /\ post(row) <= DayEnd(k)
      BY <2>1, <2>2, OnItsDay
    <2> HIDE DEF post
    <2>4. ~TooFarByDate(k, w) /\ ~TooPastByDate(k, w)
      BY <1>4, <2>1, <2>3 DEF TooFarByDate, TooPastByDate
    <2>5. k \in DateCandidates(S, w)
      BY <2>1, <2>2, <2>4 DEF DateCandidates, KeysOf
    <2>6. PostTime(S, k) = post(row)
      BY <1>5, <2>1, <2>2, <2>5 DEF post
    <2>7. k \in Kept(S, w)
      BY <1>4, <2>1, <2>3, <2>5, <2>6 DEF Kept, TooFar, TooPast
    <2>8. k \notin Canceled(S, w)
      BY <1>2, <2>1, <2>2, <2>5 DEF Undecided, Canceled, Of
    <2>9. QED  BY <1>3, <2>7, <2>8
  <1>8. QED  BY <1>6, <1>7

(***************************************************************************)
(* The step that opens the races of a command is Select, on what Start was *)
(* asked for.                                                              *)
(***************************************************************************)

\* Only Start asks for races.
LEMMA OnlyStartAsks ==
  Next /\ phase' = "select" => Start
  <1> SUFFICES ASSUME Next, phase' = "select", ~Start  PROVE FALSE
    OBVIOUS
  <1>1. CASE Select
    BY <1>1 DEF Select
  <1>2. CASE OpenData
    BY <1>2 DEF OpenData
  <1>3. CASE OpenNoData
    BY <1>3 DEF OpenNoData
  <1>4. CASE OpenFails
    BY <1>4, Zenon DEF OpenFails, Error
  <1>5. CASE Gather
    BY <1>5 DEF Gather
  <1>6. CASE ReadFails
    BY <1>6, Zenon DEF ReadFails, Error
  <1>7. CASE Clear
    BY <1>7, Zenon DEF Clear, Error
  <1>8. CASE Row
    BY <1>8, Zenon DEF Row, Error
  <1>9. CASE EndResponse
    BY <1>9 DEF EndResponse
  <1>10. CASE Collect
    BY <1>10, Zenon DEF Collect, Flush
  <1>11. CASE FinishSpecs
    BY <1>11, Zenon DEF FinishSpecs, Leave
  <1>12. CASE FinishSpec
    BY <1>12, Zenon DEF FinishSpec, Leave
  <1>13. CASE FinishRun
    BY <1>13, Zenon DEF FinishRun, Leave
  <1>14. CASE FinishCapture
    BY <1>14, Zenon DEF FinishCapture, Flush
  <1>15. CASE Exit
    BY <1>15, Zenon DEF Exit
  <1>16. CASE Crash
    BY <1>16 DEF Crash
  <1>17. QED
    BY <1>1, <1>2, <1>3, <1>4, <1>5, <1>6, <1>7, <1>8, <1>9, <1>10, <1>11, <1>12, <1>13,
       <1>14, <1>15, <1>16 DEF Next

\* Only Select opens what was asked for.
LEMMA OnlySelectAnswers ==
  Next /\ phase = "select" => Select
  BY Zenon DEF Next, Start, OpenData, OpenNoData, OpenFails, Gather, ReadFails, Clear, Row,
     EndResponse, Collect, AllOpened, FinishSpecs, FinishSpec, FinishRun, FinishCapture, Exit,
     Crash

\* Only Start counts a run.
LEMMA OnlyStartCounts ==
  Next /\ run' # run => Start
  BY Zenon DEF Next, Select, OpenData, OpenNoData, OpenFails, Gather, ReadFails, Clear, Row,
     EndResponse, Collect, FinishSpecs, FinishSpec, FinishRun, FinishCapture, Leave, Exit,
     Crash, job

\* What Select finds is rows and a window.
LEMMA AsksInvariant == Spec => []AsksInv
  <1>1. Init => AsksInv
    BY DEF Init, AsksInv
  <1>2. AsksInv /\ [Next]_vars => AsksInv'
    <2> SUFFICES ASSUME AsksInv, [Next]_vars  PROVE AsksInv'
      OBVIOUS
    <2>1. CASE Start
      <3>1. run \in Nat /\ run < MaxRuns /\ run' = run + 1
        BY <2>1 DEF Start, AsksInv
      <3>2. run + 1 \in 1 .. MaxRuns
        BY <3>1, CollectAssumption
      <3>3. phase' = "select" => ask' \in Asks[run + 1]
        BY <2>1, Zenon DEF Start
      <3>4. QED  BY <3>1, <3>2, <3>3, CollectAssumption DEF AsksInv
    <2>2. CASE Next /\ ~Start
      BY <2>2, OnlyStartAsks, OnlyStartCounts DEF AsksInv
    <2>3. CASE UNCHANGED vars
      BY <2>3 DEF AsksInv, vars, job
    <2>4. QED  BY <2>1, <2>2, <2>3
  <1>3. QED  BY <1>1, <1>2, PTL DEF Spec

\* A command opens the races whose current row says they are run and whose post
\* time lies in its window (fetch_time_series_batch_from_db).
THEOREM WindowsOpenDueRaces == Spec => OpensCurrentRaces
  <1> DEFINE Opens == (phase = "select" /\ phase' = "open" /\ Requested(ask.window)) =>
                {plan'[i][2] : i \in DOMAIN plan'} = {k \in Keys : Due(ask.rows, ask.window, k)}
  <1>1. AsksInv /\ [Next]_vars => Opens
    <2> SUFFICES ASSUME AsksInv, [Next]_vars, phase = "select", phase' = "open",
                        Requested(ask.window)
                 PROVE  {plan'[i][2] : i \in DOMAIN plan'}
                          = {k \in Keys : Due(ask.rows, ask.window, k)}
      OBVIOUS
    <2>1. Select
      BY OnlySelectAnswers DEF vars
    <2>2. ask \in [rows : SUBSET RaceRows, window : Bounds] /\ ~Refuses(ask.rows, ask.window)
      BY <2>1 DEF AsksInv, Select
    <2> DEFINE T == Keys \cap Targets(ask.rows, ask.window)
    <2>3. PICK kind \in Odds, s \in InTurn(T) : plan' = [i \in DOMAIN s |-> <<kind, s[i]>>]
      BY <2>1, <2>2 DEF Select
    <2>4. s \in [1 .. Cardinality(T) -> T] /\ Range(s) = T
      BY <2>3 DEF InTurn
    <2> HIDE DEF T
    <2>5. {plan'[i][2] : i \in DOMAIN plan'} = Range(s)
      BY <2>3, <2>4 DEF Range
    <2>6. \A k : k \in Targets(ask.rows, ask.window) <=> Due(ask.rows, ask.window, k)
      BY <2>2, TargetsAreDue
    <2>7. QED  BY <2>4, <2>5, <2>6 DEF T
  <1>2. QED  BY <1>1, AsksInvariant, PTL DEF Spec, OpensCurrentRaces

-----------------------------------------------------------------------------
(***************************************************************************)
(* Calls on one database: the records of Backends, field by field.         *)
(***************************************************************************)

\* Sessions whose driver and rows are values of V, and outcomes of a call.
Sessions(V) ==
    [driver : Drivers, store : V, seen : V, open : BOOLEAN, active : BOOLEAN, dirty : BOOLEAN,
     failed : BOOLEAN, broken : BOOLEAN, lost : BOOLEAN]

Outcomes(V) == [db : Sessions(V), ok : BOOLEAN, faults : Nat]

\* The session c has the database of b, as durable as it was.
Same(V, b, c) ==
    /\ c \in Sessions(V) /\ c.driver = b.driver /\ c.store = b.store /\ c.lost = b.lost

\* The updates of a session that a call may make.  Each lemma is a field by
\* field reading of one of them.
LEMMA FreshIs ==
  ASSUME NEW V, NEW b \in Sessions(V)
  PROVE  LET c == Fresh(b) IN
         Same(V, b, c) /\ c.seen = b.store /\ c.active = FALSE /\ c.failed = FALSE
  BY Zenon DEF Sessions, Same, Fresh

\* A lost connection.
LEMMA GoneIs ==
  ASSUME NEW V, NEW b \in Sessions(V)
  PROVE  LET c == Gone(b) IN
         Same(V, b, c) /\ c.seen = b.store /\ c.active = b.active /\ c.failed = b.failed
  BY Zenon DEF Sessions, Same, Gone

\* A closed one.
LEMMA ClosedIs ==
  ASSUME NEW V, NEW b \in Sessions(V)
  PROVE  LET c == Closed(b) IN
         Same(V, b, c) /\ c.seen = b.store /\ c.active = FALSE /\ c.failed = FALSE
  BY Zenon DEF Sessions, Same, Closed, Fresh

\* One that was opened.
LEMMA OpenedIs ==
  ASSUME NEW V, NEW b \in Sessions(V)
  PROVE  LET c == [Fresh(b) EXCEPT !.open = TRUE, !.broken = FALSE] IN
         Same(V, b, c) /\ c.seen = b.store /\ c.active = FALSE /\ c.failed = FALSE
  BY Zenon DEF Sessions, Same, Fresh

\* One that was rebuilt.
LEMMA RebuiltIs ==
  ASSUME NEW V, NEW b \in Sessions(V)
  PROVE  LET c == [Fresh(b) EXCEPT !.broken = FALSE] IN
         Same(V, b, c) /\ c.seen = b.store /\ c.active = FALSE /\ c.failed = FALSE
  BY Zenon DEF Sessions, Same, Fresh

\* A transaction that was begun.
LEMMA BegunIs ==
  ASSUME NEW V, NEW b \in Sessions(V)
  PROVE  LET c == [b EXCEPT !.active = TRUE] IN
         Same(V, b, c) /\ c.seen = b.seen /\ c.active = TRUE /\ c.failed = b.failed
  BY Zenon DEF Sessions, Same

\* A connection that was opened sees what is durable.
LEMMA Connects ==
  ASSUME NEW V, NEW b \in Sessions(V), NEW o \in connect(b)
  PROVE  /\ o \in Outcomes(V) /\ Same(V, b, o.db)
         /\ o.ok => o.db.seen = b.store /\ o.db.active = FALSE /\ o.db.failed = FALSE
  <1> DEFINE c == [Fresh(b) EXCEPT !.open = TRUE, !.broken = FALSE]
  <1>1. Same(V, b, c) /\ c.seen = b.store /\ c.active = FALSE /\ c.failed = FALSE
    BY OpenedIs
  <1>2. o = Ok(c, 0) \/ o = Err(b, 1)
    BY Zenon DEF connect
  <1> HIDE DEF c
  <1>3. CASE o = Ok(c, 0)
    BY <1>1, <1>3 DEF Same, Ok, Outcomes
  <1>4. CASE o = Err(b, 1)
    BY <1>4 DEF Err, Outcomes, Same
  <1>5. QED  BY <1>2, <1>3, <1>4

\* Beginning a transaction changes no rows.
LEMMA Begins ==
  ASSUME NEW V, NEW b \in Sessions(V), NEW o \in begin_transaction(b)
  PROVE  /\ o \in Outcomes(V) /\ Same(V, b, o.db)
         /\ o.ok => o.db.seen = b.seen /\ o.db.failed = b.failed /\ InTransaction(o.db)
  <1> DEFINE c == [b EXCEPT !.active = TRUE]
             g == Gone(b)
  <1>1. Same(V, b, c) /\ c.seen = b.seen /\ c.active = TRUE /\ c.failed = b.failed
    BY BegunIs
  <1>2. Same(V, b, g)
    BY GoneIs
  <1>3. \/ o = Ok(c, 0) \/ o = Err(b, 0) \/ o = Err(g, 1)
        \/ o = Ok(b, 0) /\ b.active
    BY Zenon DEF begin_transaction
  <1> HIDE DEF c, g
  <1>4. CASE o = Ok(c, 0)
    BY <1>1, <1>4 DEF Same, Ok, Outcomes, InTransaction
  <1>5. CASE o = Err(b, 0)
    BY <1>5 DEF Err, Outcomes, Same
  <1>6. CASE o = Err(g, 1)
    BY <1>2, <1>6 DEF Err, Outcomes, Same
  <1>7. CASE o = Ok(b, 0) /\ b.active
    BY <1>7 DEF Ok, Outcomes, Same, InTransaction
  <1>8. QED  BY <1>3, <1>4, <1>5, <1>6, <1>7

\* A rollback does not touch what is durable; when it returns, the rest is
\* forgotten.
LEMMA RollsBack ==
  ASSUME NEW V, NEW b \in Sessions(V), NEW o \in rollback(b)
  PROVE  /\ o \in Outcomes(V) /\ Same(V, b, o.db)
         /\ o.ok /\ InTransaction(b) => o.db.seen = b.store
  <1> DEFINE f == Fresh(b)
             g == Gone(b)
             c == Closed(b)
             r == [Fresh(b) EXCEPT !.broken = FALSE]
  <1>1. Same(V, b, f) /\ f.seen = b.store
    BY FreshIs
  <1>2. Same(V, b, g)
    BY GoneIs
  <1>3. Same(V, b, c)
    BY ClosedIs
  <1>4. Same(V, b, r) /\ r.seen = b.store
    BY RebuiltIs
  <1>5. \/ o = Ok(f, 0) \/ o = Ok(r, 0) \/ o = Err(g, 1) \/ o = Err(c, 1)
        \/ o = Err(b, 0) \/ o = Err(b, 1)
        \/ o = Ok(b, 0) /\ ~InTransaction(b)
    <2>1. CASE b.driver = "sqlite"
      BY <2>1, Zenon DEF rollback, IsServer, sqlite_rollback
    <2>2. CASE b.driver = "psycopg"
      BY <2>2, Zenon DEF rollback, IsServer, postgresql_rollback
    <2>3. CASE b.driver \notin {"sqlite", "psycopg"}
      BY <2>3, Zenon DEF rollback, IsServer, postgresql_rollback, _reconnect, InTransaction
    <2>4. QED  BY <2>1, <2>2, <2>3
  <1> HIDE DEF f, g, c, r
  <1>6. CASE o = Ok(f, 0)
    BY <1>1, <1>6 DEF Same, Ok, Outcomes
  <1>7. CASE o = Ok(r, 0)
    BY <1>4, <1>7 DEF Same, Ok, Outcomes
  <1>8. CASE o = Ok(b, 0) /\ ~InTransaction(b)
    BY <1>8 DEF Same, Ok, Outcomes
  <1>9. CASE o = Err(g, 1)
    BY <1>2, <1>9 DEF Same, Err, Outcomes
  <1>10. CASE o = Err(c, 1)
    BY <1>3, <1>10 DEF Same, Err, Outcomes
  <1>11. CASE o = Err(b, 0)
    BY <1>11 DEF Same, Err, Outcomes
  <1>12. CASE o = Err(b, 1)
    BY <1>12 DEF Same, Err, Outcomes
  <1>13. QED  BY <1>5, <1>6, <1>7, <1>8, <1>9, <1>10, <1>11, <1>12

\* Neither does closing a connection.
LEMMA Disconnects ==
  ASSUME NEW V, NEW b \in Sessions(V), NEW o \in disconnect(b)
  PROVE  o \in Outcomes(V) /\ Same(V, b, o.db)
  <1> DEFINE c == Closed(b)
  <1>1. Same(V, b, c)
    BY ClosedIs
  <1>2. o = Ok(c, 0) \/ o = Err(b, 1)
    BY Zenon DEF disconnect
  <1> HIDE DEF c
  <1>3. CASE o = Ok(c, 0)
    BY <1>1, <1>3 DEF Same, Ok, Outcomes
  <1>4. CASE o = Err(b, 1)
    BY <1>4 DEF Same, Err, Outcomes
  <1>5. QED  BY <1>2, <1>3, <1>4

\* What COMMIT makes durable is what was seen.
LEMMA SavedIs ==
  ASSUME NEW V, NEW b \in Sessions(V)
  PROVE  LET c == [b EXCEPT !.store = b.seen] IN
         /\ c \in Sessions(V) /\ c.driver = b.driver /\ c.store = b.seen /\ c.seen = b.seen
         /\ c.lost = b.lost
  BY Zenon DEF Sessions

\* What a commit that returned has made durable is what its connection saw; one
\* that raised has changed nothing, or the answer was lost.
LEMMA Commits ==
  ASSUME NEW V, NEW b \in Sessions(V), NEW o \in commit(b)
  PROVE  /\ o \in Outcomes(V) /\ o.db.driver = b.driver
         /\ ~o.ok => o.db.lost \/ o.db.store = b.store
         /\ b.seen = b.store => o.db.store = b.store /\ o.db.lost = b.lost
         /\ o.ok /\ ~b.failed /\ (InTransaction(b) \/ b.store = b.seen)
              => /\ o.db.store = b.seen /\ o.db.seen = b.seen /\ ~o.db.failed
  <1> DEFINE f == Fresh(b)
             g == Gone(b)
             c == [b EXCEPT !.store = b.seen]
             k == Fresh(c)
             u == [b EXCEPT !.store = b.seen, !.lost = @ \/ b.store # b.seen]
             v == Gone(u)
  <1>1. Same(V, b, f) /\ f.seen = b.store
    BY FreshIs
  <1>2. Same(V, b, g)
    BY GoneIs
  <1>3. /\ c \in Sessions(V) /\ c.driver = b.driver /\ c.store = b.seen /\ c.lost = b.lost
    BY SavedIs
  <1>4. Same(V, c, k) /\ k.seen = c.store /\ k.failed = FALSE
    BY <1>3, FreshIs
  <1>5. u \in Sessions(V) /\ u.driver = b.driver /\ u.store = b.seen /\ u.lost = (b.lost \/ b.store # b.seen)
    BY Zenon DEF Sessions
  <1>6. Same(V, u, v)
    BY <1>5, GoneIs
  <1>7. b.lost \in BOOLEAN
    BY DEF Sessions
  <1>8. \/ o = Err(b, 0) \/ o = Err(b, 1) \/ o = Err(g, 1) \/ o = Err(v, 1)
        \/ o = Ok(f, 0) /\ b.failed
        \/ o = Ok(k, 0) /\ ~b.failed
        \/ o = Ok(b, 0) /\ ~InTransaction(b)
    <2>1. Committed(b) = IF b.failed THEN f ELSE k
      BY Zenon DEF Committed
    <2>2. Unanswered(b) = {Err(g, 1), Err(v, 1)}
      BY Zenon DEF Unanswered
    <2> HIDE DEF f, g, c, k, u, v
    <2>3. \/ o = Err(b, 0) \/ o = Err(b, 1) \/ o = Ok(Committed(b), 0) \/ o \in Unanswered(b)
          \/ o = Ok(b, 0) /\ ~InTransaction(b)
      <3>1. CASE ~b.open \/ b.broken
        BY <3>1 DEF commit
      <3>2. CASE b.open /\ ~b.broken /\ b.driver = "sqlite"
        BY <3>2 DEF commit
      <3>3. CASE b.open /\ ~b.broken /\ b.driver = "psycopg"
        BY <3>3 DEF commit
      <3>4. CASE b.open /\ ~b.broken /\ b.driver \notin {"sqlite", "psycopg"}
        BY <3>4 DEF commit, InTransaction
      <3>5. QED  BY <3>1, <3>2, <3>3, <3>4
    <2>4. QED  BY <2>1, <2>2, <2>3, Zenon
  <1> HIDE DEF f, g, c, k, u, v
  <1>9. CASE o = Err(b, 0)
    BY <1>9 DEF Same, Err, Outcomes
  <1>10. CASE o = Err(b, 1)
    BY <1>10 DEF Same, Err, Outcomes
  <1>11. CASE o = Err(g, 1)
    BY <1>2, <1>11 DEF Same, Err, Outcomes
  <1>12. CASE o = Err(v, 1)
    BY <1>5, <1>6, <1>7, <1>12 DEF Same, Err, Outcomes
  <1>13. CASE o = Ok(f, 0) /\ b.failed
    BY <1>1, <1>13 DEF Same, Ok, Outcomes
  <1>14. CASE o = Ok(k, 0) /\ ~b.failed
    BY <1>3, <1>4, <1>14 DEF Same, Ok, Outcomes
  <1>15. CASE o = Ok(b, 0) /\ ~InTransaction(b)
    BY <1>15 DEF Ok, Outcomes
  <1>16. QED  BY <1>8, <1>9, <1>10, <1>11, <1>12, <1>13, <1>14, <1>15

\* A statement inside a transaction is seen, and not yet durable.
LEMMA DoneIs ==
  ASSUME NEW V, NEW b \in Sessions(V), NEW s, Apply(b.driver, b.seen, s) \in V
  PROVE  LET d == Done(b, s) IN
         /\ d \in Sessions(V) /\ d.driver = b.driver /\ d.active = b.active
         /\ d.failed = b.failed /\ d.lost = b.lost /\ d.seen = Apply(b.driver, b.seen, s)
         /\ InTransaction(b) => d.store = b.store
  <1> DEFINE r == Apply(b.driver, b.seen, s)
             x == [b EXCEPT !.seen = r, !.store = r]
             y == [b EXCEPT !.seen = r, !.dirty = TRUE]
  <1>1. r \in V
    OBVIOUS
  <1>2. /\ b.driver = "pg8000" /\ ~b.active => Done(b, s) = x
        /\ ~(b.driver = "pg8000" /\ ~b.active) => Done(b, s) = y
    BY Zenon DEF Done
  <1>3. InTransaction(b) => ~(b.driver = "pg8000" /\ ~b.active)
    BY DEF InTransaction
  <1> HIDE DEF r
  <1>4. /\ x \in Sessions(V) /\ x.driver = b.driver /\ x.active = b.active
        /\ x.failed = b.failed /\ x.lost = b.lost /\ x.seen = r
    BY <1>1, Zenon DEF Sessions
  <1>5. /\ y \in Sessions(V) /\ y.driver = b.driver /\ y.active = b.active
        /\ y.failed = b.failed /\ y.lost = b.lost /\ y.seen = r /\ y.store = b.store
    BY <1>1, Zenon DEF Sessions
  <1> HIDE DEF x, y
  <1>6. QED  BY <1>2, <1>3, <1>4, <1>5, Zenon DEF r

\* What PostgreSQL's handler does after a statement failed on session x.
LEMMA UndoneIs ==
  ASSUME NEW V, NEW x \in Sessions(V), IsServer(x),
         NEW p \in (IF x.active THEN {Ok(x, 0)} ELSE postgresql_rollback(x))
  PROVE  /\ p \in Outcomes(V) /\ Same(V, x, p.db)
         /\ InTransaction(x) => InTransaction(p.db)
  <1>1. CASE x.active
    <2>1. p = Ok(x, 0)
      BY <1>1
    <2>2. QED  BY <2>1 DEF Same, Ok, Outcomes
  <1>2. CASE ~x.active
    <2>1. p \in rollback(x)
      BY <1>2, Zenon DEF rollback
    <2>2. p \in Outcomes(V) /\ Same(V, x, p.db)
      BY <2>1, RollsBack
    <2>3. QED  BY <1>2, <2>2 DEF Same, InTransaction
  <1>3. QED  BY <1>1, <1>2

\* The same of the handlers' execute, whatever it raises and rolls back.
LEMMA Executes ==
  ASSUME NEW V, NEW b \in Sessions(V), NEW s, Apply(b.driver, b.seen, s) \in V,
         NEW o \in execute(b, s)
  PROVE  /\ o \in Outcomes(V)
         /\ InTransaction(b) =>
              /\ Same(V, b, o.db) /\ InTransaction(o.db)
              /\ o.ok => o.db.seen = Apply(b.driver, b.seen, s) /\ o.db.failed = b.failed
  <1> DEFINE W == Apply(b.driver, b.seen, s)
             d == Done(b, s)
             Undo(x) == IF x.active THEN {Ok(x, 0)} ELSE postgresql_rollback(x)
             r == [b EXCEPT !.failed = b.active \/ b.driver = "psycopg"]
             g == Gone(b)
             u == [d EXCEPT !.lost = @ \/ d.store # b.store]
             v == Gone(u)
  <1>1. /\ d \in Sessions(V) /\ d.driver = b.driver /\ d.active = b.active
        /\ d.failed = b.failed /\ d.lost = b.lost /\ d.seen = W
        /\ InTransaction(b) => d.store = b.store
    BY DoneIs
  <1>2. Same(V, b, r) /\ r.active = b.active
    BY Zenon DEF Sessions, Same
  <1>3. Same(V, b, g) /\ g.active = b.active
    BY GoneIs
  <1> HIDE DEF W, d
  <1>4. /\ u \in Sessions(V) /\ u.driver = d.driver /\ u.active = d.active /\ u.store = d.store
        /\ u.lost = (d.lost \/ d.store # b.store)
    BY <1>1, Zenon DEF Sessions
  <1>5. Same(V, u, v) /\ v.active = u.active
    BY <1>4, GoneIs
  <1>6. b.lost \in BOOLEAN
    BY DEF Sessions
  <1> HIDE DEF r, g, u, v
  <1>7. v \in Sessions(V) /\ v.driver = b.driver /\ v.active = b.active
        /\ (InTransaction(b) => Same(V, b, v))
    BY <1>1, <1>4, <1>5, <1>6 DEF Same
  <1>8. Same(V, b, b)
    BY DEF Same
  <1>9. CASE o = Ok(d, 0)
    BY <1>1, <1>9 DEF Same, InTransaction, Ok, Outcomes, W
  <1>10. CASE o = Err(b, 0)
    BY <1>10 DEF Same, Err, Outcomes
  <1>11. CASE \E p \in sqlite_rollback(b) : ~IsServer(b) /\ o = Err(p.db, 1 + p.faults)
    <2>1. PICK p \in rollback(b) : ~IsServer(b) /\ o = Err(p.db, 1 + p.faults)
      BY <1>11 DEF rollback
    <2>2. p \in Outcomes(V) /\ Same(V, b, p.db)
      BY <2>1, RollsBack
    <2>3. p.faults \in Nat
      BY <2>2 DEF Outcomes
    <2>4. InTransaction(p.db)
      BY <2>1, <2>2 DEF Same, InTransaction, IsServer
    <2>5. o \in Outcomes(V) /\ o.db = p.db /\ o.ok = FALSE
      BY <2>1, <2>2, <2>3 DEF Same, Err, Outcomes
    <2>6. QED  BY <2>2, <2>4, <2>5
  <1>12. ASSUME NEW x, x \in Sessions(V), x.driver = b.driver, x.active = b.active,
                InTransaction(b) => Same(V, b, x), IsServer(b),
                NEW n \in Nat, NEW p \in Undo(x), o = Err(p.db, n + p.faults)
         PROVE  /\ o \in Outcomes(V)
                /\ InTransaction(b) => Same(V, b, o.db) /\ InTransaction(o.db) /\ ~o.ok
    <2>1. IsServer(x)
      BY <1>12 DEF IsServer
    <2>2. /\ p \in Outcomes(V) /\ Same(V, x, p.db)
          /\ InTransaction(x) => InTransaction(p.db)
      BY <1>12, <2>1, UndoneIs
    <2>3. p.faults \in Nat
      BY <2>2 DEF Outcomes
    <2>4. o \in Outcomes(V) /\ o.db = p.db /\ o.ok = FALSE
      BY <1>12, <2>2, <2>3 DEF Same, Err, Outcomes
    <2>5. InTransaction(b) => InTransaction(x)
      BY <1>12 DEF InTransaction
    <2>6. QED  BY <1>12, <2>2, <2>4, <2>5 DEF Same
  <1>13. CASE b.driver = "sqlite"
    <2>1. execute(b, s) = sqlite_execute(b, s) /\ ~IsServer(b)
      BY <1>13 DEF execute, IsServer
    <2>2. CASE ~b.open
      BY <1>10, <2>1, <2>2 DEF sqlite_execute
    <2>3. CASE b.open
      <3>1. o \in {Ok(d, 0)} \cup Handling({Err(b, 1)}, sqlite_rollback)
        BY <2>1, <2>3, Zenon DEF sqlite_execute, d
      <3>2. CASE o \in Handling({Err(b, 1)}, sqlite_rollback)
        <4>1. Err(b, 1).ok = FALSE /\ Err(b, 1).db = b /\ Err(b, 1).faults = 1
          BY DEF Err
        <4>2. o \in {Err(p.db, 1 + p.faults) : p \in sqlite_rollback(b)}
          BY <3>2, <4>1, Zenon DEF Handling
        <4>3. QED  BY <1>11, <2>1, <4>2
      <3>3. QED  BY <1>9, <3>1, <3>2
    <2>4. QED  BY <2>2, <2>3
  <1>14. CASE b.driver # "sqlite"
    <2>1. execute(b, s) = postgresql_execute(b, s) /\ IsServer(b)
      BY <1>14 DEF execute, IsServer
    <2>2. CASE ~b.open
      BY <1>10, <2>1, <2>2, Zenon DEF postgresql_execute
    <2>3. CASE b.open /\ (b.broken \/ b.failed)
      <3>1. o \in Handling({Err(b, 0)}, Undo)
        BY <2>1, <2>3, Zenon DEF postgresql_execute
      <3>2. Err(b, 0).ok = FALSE /\ Err(b, 0).db = b /\ Err(b, 0).faults = 0
        BY DEF Err
      <3>3. PICK p \in Undo(b) : o = Err(p.db, 0 + p.faults)
        BY <3>1, <3>2, Zenon DEF Handling
      <3> HIDE DEF Undo
      <3>4. QED  BY <1>8, <1>12, <2>1, <3>3
    <2>4. CASE b.open /\ ~(b.broken \/ b.failed)
      <3>1. o \in {Ok(d, 0)} \cup Handling({Err(r, 1), Err(g, 1), Err(v, 1)}, Undo)
        BY <2>1, <2>4, Zenon DEF postgresql_execute, d, r, g, u, v
      <3>2. CASE o \in Handling({Err(r, 1), Err(g, 1), Err(v, 1)}, Undo)
        <4>1. /\ Err(r, 1).ok = FALSE /\ Err(r, 1).db = r /\ Err(r, 1).faults = 1
              /\ Err(g, 1).ok = FALSE /\ Err(g, 1).db = g /\ Err(g, 1).faults = 1
              /\ Err(v, 1).ok = FALSE /\ Err(v, 1).db = v /\ Err(v, 1).faults = 1
          BY DEF Err
        <4> HIDE DEF Undo
        <4>2. PICK e \in {Err(r, 1), Err(g, 1), Err(v, 1)} :
                o \in IF e.ok THEN {e} ELSE {Err(p.db, e.faults + p.faults) : p \in Undo(e.db)}
          BY <3>2, Zenon DEF Handling
        <4> DEFINE x == e.db
        <4>5. x \in {r, g, v} /\ e.ok = FALSE /\ e.faults = 1
          BY <4>1, <4>2, Zenon
        <4>6. PICK p \in Undo(x) : o = Err(p.db, 1 + p.faults)
          BY <4>2, <4>5, Zenon
        <4> HIDE DEF x
        <4>3. /\ x \in Sessions(V) /\ x.driver = b.driver /\ x.active = b.active
              /\ InTransaction(b) => Same(V, b, x)
          BY <1>2, <1>3, <1>7, <4>5 DEF Same
        <4>4. QED  BY <1>12, <2>1, <4>3, <4>6
      <3>3. QED  BY <1>9, <3>1, <3>2
    <2>5. QED  BY <2>2, <2>3, <2>4
  <1>15. QED  BY <1>13, <1>14

-----------------------------------------------------------------------------
(***************************************************************************)
(* Calls of the handle: what they mean for the primary, which decides,     *)
(* whether or not there is a secondary.                                    *)
(***************************************************************************)

\* Handles of such sessions, and outcomes of a call.
HandlesOf(V, S) ==
    [dual : BOOLEAN, p : Sessions(V), s : Sessions(S), active : BOOLEAN, gen : Nat,
     sync : BOOLEAN, invalid : BOOLEAN]

Results(V, S) == [db : HandlesOf(V, S), ok : BOOLEAN, faults : Nat]

\* The handle k has the primary c and is otherwise used like hd.
Fronts(V, S, hd, c, k) ==
    k \in HandlesOf(V, S) /\ k.p = c /\ k.dual = hd.dual /\ k.invalid = hd.invalid

\* The outcome o of a handle that took the outcome q of its primary, of its
\* secondary.
FromPrimary(hd, q, o) == o = [q EXCEPT !.db = [hd EXCEPT !.p = q.db]]
FromSecondary(hd, q, o) == o = [q EXCEPT !.db = [hd EXCEPT !.s = q.db]]

\* Taking it leaves the other database and the flags as they are.
LEMMA OnPrimaryIs ==
  ASSUME NEW V, NEW S, NEW hd \in HandlesOf(V, S), NEW q \in Outcomes(V),
         NEW o, FromPrimary(hd, q, o)
  PROVE  /\ o \in Results(V, S) /\ o.ok = q.ok /\ Fronts(V, S, hd, q.db, o.db)
         /\ o.db.active = hd.active /\ o.db.s = hd.s
  <1> DEFINE k == [hd EXCEPT !.p = q.db]
  <1>1. q.db \in Sessions(V) /\ q.ok \in BOOLEAN /\ q.faults \in Nat
    BY DEF Outcomes
  <1>2. /\ k \in HandlesOf(V, S) /\ k.p = q.db /\ k.dual = hd.dual /\ k.invalid = hd.invalid
        /\ k.active = hd.active /\ k.s = hd.s
    BY <1>1, Zenon DEF HandlesOf
  <1> HIDE DEF k
  <1>3. o \in Results(V, S) /\ o.ok = q.ok /\ o.db = k
    <2>1. o = [q EXCEPT !.db = k]
      BY Zenon DEF k, FromPrimary
    <2>2. QED  BY <1>1, <1>2, <2>1, Zenon DEF Outcomes, Results
  <1>4. QED  BY <1>2, <1>3 DEF Fronts

\* The same of the secondary.
LEMMA OnSecondaryIs ==
  ASSUME NEW V, NEW S, NEW hd \in HandlesOf(V, S), NEW q \in Outcomes(S),
         NEW o, FromSecondary(hd, q, o)
  PROVE  /\ o \in Results(V, S) /\ o.ok = q.ok /\ Fronts(V, S, hd, hd.p, o.db)
         /\ o.db.active = hd.active
  <1> DEFINE k == [hd EXCEPT !.s = q.db]
  <1>1. q.db \in Sessions(S) /\ q.ok \in BOOLEAN /\ q.faults \in Nat
    BY DEF Outcomes
  <1>2. /\ k \in HandlesOf(V, S) /\ k.p = hd.p /\ k.dual = hd.dual /\ k.invalid = hd.invalid
        /\ k.active = hd.active
    BY <1>1, Zenon DEF HandlesOf
  <1> HIDE DEF k
  <1>3. o \in Results(V, S) /\ o.ok = q.ok /\ o.db = k
    <2>1. o = [q EXCEPT !.db = k]
      BY Zenon DEF k, FromSecondary
    <2>2. QED  BY <1>1, <1>2, <2>1, Zenon DEF Outcomes, Results
  <1>4. QED  BY <1>2, <1>3 DEF Fronts

\* Nor does counting a secondary error touch the primary.
LEMMA OutOfSyncIs ==
  ASSUME NEW V, NEW S, NEW hd \in HandlesOf(V, S)
  PROVE  LET k == OutOfSync(hd) IN Fronts(V, S, hd, hd.p, k) /\ k.active = hd.active
  BY Zenon DEF HandlesOf, OutOfSync, Fronts

\* What a call of the secondary leaves of the handle.
LEMMA NotedIs ==
  ASSUME NEW V, NEW S, NEW hd \in HandlesOf(V, S), NEW x \in BOOLEAN,
         NEW k, k = [hd EXCEPT !.active = FALSE, !.sync = @ /\ x]
  PROVE  Fronts(V, S, hd, hd.p, k) /\ k.active = FALSE
  BY Zenon DEF HandlesOf, Fronts

\* What the end of its transaction leaves of it.
LEMMA EndedIs ==
  ASSUME NEW V, NEW S, NEW hd \in HandlesOf(V, S)
  PROVE  LET k == [hd EXCEPT !.active = FALSE] IN
         Fronts(V, S, hd, hd.p, k) /\ k.active = FALSE
  BY Zenon DEF HandlesOf, Fronts

\* Adding up faults changes nothing else.
LEMMA CountedIs ==
  ASSUME NEW V, NEW S, NEW o \in Results(V, S), NEW n \in Nat,
         NEW e, e = [o EXCEPT !.faults = @ + n]
  PROVE  e \in Results(V, S) /\ e.db = o.db /\ e.ok = o.ok
  <1> DEFINE m == o.faults + n
  <1>1. m \in Nat /\ e = [o EXCEPT !.faults = m]
    BY DEF Results
  <1> HIDE DEF m
  <1>2. QED  BY <1>1, Zenon DEF Results

\* Leaving the connection changes nothing that is durable.
LEMMA DisconnectIs ==
  ASSUME NEW V, NEW S, NEW hd \in HandlesOf(V, S), NEW o \in Disconnect(hd)
  PROVE  o \in Results(V, S) /\ Same(V, hd.p, o.db.p)
  <1>1. ASSUME NEW e \in OnPrimary(hd, disconnect)
        PROVE  e \in Results(V, S) /\ Same(V, hd.p, e.db.p)
    <2>1. PICK q \in disconnect(hd.p) : FromPrimary(hd, q, e)
      BY <1>1, Zenon DEF OnPrimary, FromPrimary
    <2>2. hd.p \in Sessions(V)
      BY DEF HandlesOf
    <2>3. q \in Outcomes(V) /\ Same(V, hd.p, q.db)
      BY <2>1, <2>2, Disconnects
    <2>4. e \in Results(V, S) /\ Fronts(V, S, hd, q.db, e.db)
      BY <2>1, <2>3, OnPrimaryIs
    <2>5. QED  BY <2>3, <2>4 DEF Fronts
  <1>2. ASSUME NEW g \in HandlesOf(V, S), NEW e \in OnSecondary(g, disconnect)
        PROVE  e \in Results(V, S) /\ e.db.p = g.p
    <2>1. PICK q \in disconnect(g.s) : FromSecondary(g, q, e)
      BY <1>2, Zenon DEF OnSecondary, FromSecondary
    <2>2. g.s \in Sessions(S)
      BY DEF HandlesOf
    <2>3. q \in Outcomes(S)
      BY <2>1, <2>2, Disconnects
    <2>4. e \in Results(V, S) /\ Fronts(V, S, g, g.p, e.db)
      BY <2>1, <2>3, OnSecondaryIs
    <2>5. QED  BY <2>4 DEF Fronts
  <1>3. CASE ~hd.dual
    BY <1>1, <1>3 DEF Disconnect
  <1>4. CASE hd.dual
    <2>1. PICK e \in OnPrimary(hd, disconnect) :
            \E q \in OnSecondary(e.db, disconnect) :
               o = IF e.ok THEN Ok([q.db EXCEPT !.active = FALSE], e.faults + q.faults)
                   ELSE Err(q.db, e.faults + q.faults)
      BY <1>4, Zenon DEF Disconnect
    <2>2. PICK q \in OnSecondary(e.db, disconnect) :
               o = IF e.ok THEN Ok([q.db EXCEPT !.active = FALSE], e.faults + q.faults)
                   ELSE Err(q.db, e.faults + q.faults)
      BY <2>1
    <2>3. e \in Results(V, S) /\ Same(V, hd.p, e.db.p)
      BY <1>1, <2>1
    <2>4. e.db \in HandlesOf(V, S)
      BY <2>3 DEF Results
    <2>5. q \in Results(V, S) /\ q.db.p = e.db.p
      BY <1>2, <2>2, <2>4
    <2>6. q.db \in HandlesOf(V, S) /\ e.faults + q.faults \in Nat
      BY <2>3, <2>5 DEF Results
    <2> DEFINE k == [q.db EXCEPT !.active = FALSE]
               n == e.faults + q.faults
    <2>7. k \in HandlesOf(V, S) /\ k.p = q.db.p
      BY <2>6, EndedIs, Zenon DEF Fronts
    <2>8. o = Ok(k, n) \/ o = Err(q.db, n)
      BY <2>2, Zenon
    <2>9. n \in Nat
      BY <2>6
    <2> HIDE DEF k, n
    <2>10. o \in Results(V, S) /\ o.db.p = q.db.p
      <3>1. CASE o = Ok(k, n)
        BY <2>7, <2>9, <3>1 DEF Ok, Results
      <3>2. CASE o = Err(q.db, n)
        BY <2>6, <2>9, <3>2 DEF Err, Results
      <3>3. QED  BY <2>8, <3>1, <3>2
    <2>11. QED  BY <2>3, <2>5, <2>10
  <1>5. QED  BY <1>3, <1>4

\* So does a rollback; when it returns, nothing uncommitted is left.
LEMMA RollbackIs ==
  ASSUME NEW V, NEW S, NEW hd \in HandlesOf(V, S), NEW o \in Rollback(hd)
  PROVE  /\ o \in Results(V, S) /\ Same(V, hd.p, o.db.p) /\ o.db.invalid = hd.invalid
         /\ o.ok /\ InTransaction(hd.p) => o.db.p.seen = hd.p.store
  <1>1. ASSUME NEW e \in OnPrimary(hd, rollback)
        PROVE  /\ e \in Results(V, S) /\ Same(V, hd.p, e.db.p) /\ e.db.invalid = hd.invalid
               /\ e.ok /\ InTransaction(hd.p) => e.db.p.seen = hd.p.store
    <2>1. PICK q \in rollback(hd.p) : FromPrimary(hd, q, e)
      BY <1>1, Zenon DEF OnPrimary, FromPrimary
    <2>2. hd.p \in Sessions(V)
      BY DEF HandlesOf
    <2>3. /\ q \in Outcomes(V) /\ Same(V, hd.p, q.db)
          /\ q.ok /\ InTransaction(hd.p) => q.db.seen = hd.p.store
      BY <2>1, <2>2, RollsBack
    <2>4. e \in Results(V, S) /\ e.ok = q.ok /\ Fronts(V, S, hd, q.db, e.db)
      BY <2>1, <2>3, OnPrimaryIs
    <2>5. QED  BY <2>3, <2>4 DEF Fronts
  <1>2. ASSUME NEW g \in HandlesOf(V, S), NEW e \in OnSecondary(g, rollback)
        PROVE  e \in Results(V, S) /\ e.db.p = g.p /\ e.db.invalid = g.invalid
    <2>1. PICK q \in rollback(g.s) : FromSecondary(g, q, e)
      BY <1>2, Zenon DEF OnSecondary, FromSecondary
    <2>2. g.s \in Sessions(S)
      BY DEF HandlesOf
    <2>3. q \in Outcomes(S)
      BY <2>1, <2>2, RollsBack
    <2>4. e \in Results(V, S) /\ Fronts(V, S, g, g.p, e.db)
      BY <2>1, <2>3, OnSecondaryIs
    <2>5. QED  BY <2>4 DEF Fronts
  <1>3. CASE ~hd.dual
    BY <1>1, <1>3 DEF Rollback
  <1>4. CASE hd.dual
    <2>1. PICK e \in OnPrimary(hd, rollback) :
            \E q \in OnSecondary(e.db, rollback) :
               o = [db |-> [q.db EXCEPT !.active = FALSE, !.sync = @ /\ q.ok],
                    ok |-> e.ok /\ q.ok, faults |-> e.faults + q.faults]
      BY <1>4, Zenon DEF Rollback
    <2>2. PICK q \in OnSecondary(e.db, rollback) :
               o = [db |-> [q.db EXCEPT !.active = FALSE, !.sync = @ /\ q.ok],
                    ok |-> e.ok /\ q.ok, faults |-> e.faults + q.faults]
      BY <2>1
    <2>3. /\ e \in Results(V, S) /\ Same(V, hd.p, e.db.p) /\ e.db.invalid = hd.invalid
          /\ e.ok /\ InTransaction(hd.p) => e.db.p.seen = hd.p.store
      BY <1>1, <2>1
    <2>4. e.db \in HandlesOf(V, S)
      BY <2>3 DEF Results
    <2>5. q \in Results(V, S) /\ q.db.p = e.db.p /\ q.db.invalid = e.db.invalid
      BY <1>2, <2>2, <2>4
    <2>6. q.db \in HandlesOf(V, S) /\ q.ok \in BOOLEAN /\ e.ok \in BOOLEAN
          /\ e.faults + q.faults \in Nat
      BY <2>3, <2>5 DEF Results
    <2>7. PICK k : k = [q.db EXCEPT !.active = FALSE, !.sync = @ /\ q.ok]
      OBVIOUS
    <2>8. o = [db |-> k, ok |-> e.ok /\ q.ok, faults |-> e.faults + q.faults]
      BY <2>2, <2>7, Zenon
    <2>9. k \in HandlesOf(V, S) /\ k.p = q.db.p /\ k.invalid = q.db.invalid
      <3>1. Fronts(V, S, q.db, q.db.p, k)
        BY <2>6, <2>7, NotedIs
      <3>2. QED  BY <3>1 DEF Fronts
    <2>10. o \in Results(V, S) /\ o.db = k /\ (o.ok => e.ok)
      BY <2>6, <2>8, <2>9 DEF Results
    <2>11. QED  BY <2>3, <2>5, <2>10, <2>9
  <1>5. QED  BY <1>3, <1>4

\* What a commit that returned has made durable is what the primary saw.
LEMMA CommitIs ==
  ASSUME NEW V, NEW S, NEW hd \in HandlesOf(V, S), NEW o \in Commit(hd)
  PROVE  /\ o \in Results(V, S) /\ o.db.invalid = hd.invalid
         /\ ~o.ok => o.db.p.lost \/ o.db.p.store = hd.p.store
         /\ hd.p.seen = hd.p.store => o.db.p.store = hd.p.store /\ o.db.p.lost = hd.p.lost
         /\ o.ok /\ ~hd.p.failed /\ (InTransaction(hd.p) \/ hd.p.store = hd.p.seen)
              => o.db.p.store = hd.p.seen /\ o.db.p.seen = hd.p.seen /\ ~o.db.p.failed
  <1> DEFINE Facts(e) ==
               /\ ~e.ok => e.db.p.lost \/ e.db.p.store = hd.p.store
               /\ hd.p.seen = hd.p.store => e.db.p.store = hd.p.store /\ e.db.p.lost = hd.p.lost
               /\ e.ok /\ ~hd.p.failed /\ (InTransaction(hd.p) \/ hd.p.store = hd.p.seen)
                    => e.db.p.store = hd.p.seen /\ e.db.p.seen = hd.p.seen /\ ~e.db.p.failed
             Second(g) ==
               {Ok([e.db EXCEPT !.active = FALSE, !.sync = @ /\ e.ok], e.faults)
                : e \in OnSecondary(g, commit)}
  <1>1. ASSUME NEW e \in OnPrimary(hd, commit)
        PROVE  e \in Results(V, S) /\ e.db.invalid = hd.invalid /\ Facts(e)
    <2>1. PICK q \in commit(hd.p) : FromPrimary(hd, q, e)
      BY <1>1, Zenon DEF OnPrimary, FromPrimary
    <2>2. hd.p \in Sessions(V)
      BY DEF HandlesOf
    <2>3. /\ q \in Outcomes(V)
          /\ ~q.ok => q.db.lost \/ q.db.store = hd.p.store
          /\ hd.p.seen = hd.p.store => q.db.store = hd.p.store /\ q.db.lost = hd.p.lost
          /\ q.ok /\ ~hd.p.failed /\ (InTransaction(hd.p) \/ hd.p.store = hd.p.seen)
               => q.db.store = hd.p.seen /\ q.db.seen = hd.p.seen /\ ~q.db.failed
      BY <2>1, <2>2, Commits
    <2>4. e \in Results(V, S) /\ e.ok = q.ok /\ Fronts(V, S, hd, q.db, e.db)
      BY <2>1, <2>3, OnPrimaryIs
    <2>5. QED  BY <2>3, <2>4 DEF Fronts
  <1>2. ASSUME NEW g \in HandlesOf(V, S), NEW e \in Second(g)
        PROVE  e \in Results(V, S) /\ e.ok = TRUE /\ e.db.p = g.p /\ e.db.invalid = g.invalid
    <2>1. PICK d \in OnSecondary(g, commit) :
            e = Ok([d.db EXCEPT !.active = FALSE, !.sync = @ /\ d.ok], d.faults)
      BY <1>2, Zenon
    <2>2. PICK q \in commit(g.s) : FromSecondary(g, q, d)
      BY <2>1, Zenon DEF OnSecondary, FromSecondary
    <2>3. g.s \in Sessions(S)
      BY DEF HandlesOf
    <2>4. q \in Outcomes(S)
      BY <2>2, <2>3, Commits
    <2>5. d \in Results(V, S) /\ Fronts(V, S, g, g.p, d.db)
      BY <2>2, <2>4, OnSecondaryIs
    <2>6. d.db \in HandlesOf(V, S) /\ d.ok \in BOOLEAN /\ d.faults \in Nat
      BY <2>5 DEF Results
    <2> DEFINE k == [d.db EXCEPT !.active = FALSE, !.sync = @ /\ d.ok]
    <2>7. Fronts(V, S, d.db, d.db.p, k)
      BY <2>6, NotedIs
    <2>8. e = Ok(k, d.faults)
      BY <2>1
    <2> HIDE DEF k
    <2>9. e \in Results(V, S) /\ e.db = k /\ e.ok = TRUE
      BY <2>6, <2>7, <2>8 DEF Ok, Results, Fronts
    <2>10. QED  BY <2>5, <2>7, <2>9 DEF Fronts
  <1> HIDE DEF Facts
  <1>3. CASE \E e \in OnPrimary(hd, commit) : ~e.ok /\ o = e
    BY <1>1, <1>3 DEF Facts
  <1>4. ASSUME NEW e \in OnPrimary(hd, commit), e.ok,
               NEW d \in (IF hd.dual THEN Second(e.db) ELSE {Ok(e.db, 0)}),
               o = [d EXCEPT !.faults = @ + e.faults]
        PROVE  /\ o \in Results(V, S) /\ o.db.invalid = hd.invalid /\ Facts(o)
    <2>1. e \in Results(V, S) /\ e.db.invalid = hd.invalid /\ Facts(e)
      BY <1>1
    <2>2. e.db \in HandlesOf(V, S) /\ e.faults \in Nat
      BY <2>1 DEF Results
    <2>3. d \in Results(V, S) /\ d.ok = TRUE /\ d.db.p = e.db.p /\ d.db.invalid = e.db.invalid
      <3>1. CASE hd.dual
        BY <1>2, <1>4, <2>2, <3>1, Zenon
      <3>2. CASE ~hd.dual
        <4>1. d = Ok(e.db, 0)
          BY <1>4, <3>2
        <4>2. QED  BY <2>2, <4>1 DEF Ok, Results
      <3>3. QED  BY <3>1, <3>2
    <2> HIDE DEF Second
    <2>4. o \in Results(V, S) /\ o.db = d.db /\ o.ok = d.ok
      BY <1>4, <2>2, <2>3, CountedIs
    <2>5. QED  BY <1>4, <2>1, <2>3, <2>4 DEF Facts
  <1>5. \/ \E e \in OnPrimary(hd, commit) : ~e.ok /\ o = e
        \/ \E e \in OnPrimary(hd, commit) :
             /\ e.ok
             /\ \E d \in (IF hd.dual THEN Second(e.db) ELSE {Ok(e.db, 0)}) :
                  o = [d EXCEPT !.faults = @ + e.faults]
    <2>1. o \in Then(OnPrimary(hd, commit), LAMBDA g : IF hd.dual THEN Second(g) ELSE {Ok(g, 0)})
      BY Zenon DEF Commit
    <2> HIDE DEF Second
    <2>2. QED  BY <2>1, Zenon DEF Then
  <1> HIDE DEF Second
  <1>6. QED  BY <1>3, <1>4, <1>5 DEF Facts

\* A connection that was opened sees what is durable.
LEMMA ConnectIs ==
  ASSUME NEW V, NEW S, NEW hd \in HandlesOf(V, S), NEW o \in Connect(hd)
  PROVE  /\ o \in Results(V, S) /\ o.db.invalid = FALSE /\ o.db.active = FALSE
         /\ Same(V, hd.p, o.db.p)
         /\ o.ok => o.db.p.seen = hd.p.store /\ o.db.p.active = FALSE /\ o.db.p.failed = FALSE
  <1> DEFINE a == [hd EXCEPT !.active = FALSE, !.invalid = FALSE]
             Facts(e) ==
               /\ e.db.invalid = FALSE /\ e.db.active = FALSE /\ Same(V, hd.p, e.db.p)
               /\ e.ok => /\ e.db.p.seen = hd.p.store /\ e.db.p.active = FALSE
                          /\ e.db.p.failed = FALSE
             Second(g) ==
               {IF e.ok THEN e ELSE Ok(OutOfSync(e.db), e.faults) : e \in OnSecondary(g, connect)}
  <1>1. /\ a \in HandlesOf(V, S) /\ a.p = hd.p /\ a.s = hd.s /\ a.active = FALSE
        /\ a.invalid = FALSE
    BY Zenon DEF HandlesOf
  <1>2. o \in Then(OnPrimary(a, connect), LAMBDA g : IF hd.dual THEN Second(g) ELSE {Ok(g, 0)})
    BY Zenon DEF Connect
  <1> HIDE DEF a
  <1>3. ASSUME NEW e \in OnPrimary(a, connect)
        PROVE  e \in Results(V, S) /\ Facts(e)
    <2>1. PICK q \in connect(a.p) : FromPrimary(a, q, e)
      BY <1>3, Zenon DEF OnPrimary, FromPrimary
    <2>2. a.p \in Sessions(V)
      BY <1>1 DEF HandlesOf
    <2>3. /\ q \in Outcomes(V) /\ Same(V, a.p, q.db)
          /\ q.ok => q.db.seen = a.p.store /\ q.db.active = FALSE /\ q.db.failed = FALSE
      BY <2>1, <2>2, Connects
    <2>4. /\ e \in Results(V, S) /\ e.ok = q.ok /\ Fronts(V, S, a, q.db, e.db)
          /\ e.db.active = a.active
      BY <1>1, <2>1, <2>3, OnPrimaryIs
    <2>5. QED  BY <1>1, <2>3, <2>4 DEF Fronts
  <1>4. ASSUME NEW g \in HandlesOf(V, S), NEW e \in Second(g)
        PROVE  /\ e \in Results(V, S) /\ e.ok = TRUE /\ e.db.p = g.p /\ e.db.invalid = g.invalid
               /\ e.db.active = g.active
    <2>1. PICK d \in OnSecondary(g, connect) :
            e = IF d.ok THEN d ELSE Ok(OutOfSync(d.db), d.faults)
      BY <1>4, Zenon
    <2>2. PICK q \in connect(g.s) : FromSecondary(g, q, d)
      BY <2>1, Zenon DEF OnSecondary, FromSecondary
    <2>3. g.s \in Sessions(S)
      BY DEF HandlesOf
    <2>4. q \in Outcomes(S)
      BY <2>2, <2>3, Connects
    <2>5. d \in Results(V, S) /\ Fronts(V, S, g, g.p, d.db) /\ d.db.active = g.active
      BY <2>2, <2>4, OnSecondaryIs
    <2>6. d.db \in HandlesOf(V, S) /\ d.ok \in BOOLEAN /\ d.faults \in Nat
      BY <2>5 DEF Results
    <2> DEFINE k == OutOfSync(d.db)
    <2>7. Fronts(V, S, d.db, d.db.p, k) /\ k.active = d.db.active
      BY <2>6, OutOfSyncIs, Zenon
    <2> HIDE DEF k
    <2>8. CASE d.ok
      BY <2>1, <2>5, <2>6, <2>8 DEF Fronts
    <2>9. CASE ~d.ok
      <3>1. e = Ok(k, d.faults)
        BY <2>1, <2>9 DEF k
      <3>2. e \in Results(V, S) /\ e.db = k /\ e.ok = TRUE
        BY <2>6, <2>7, <3>1 DEF Ok, Results, Fronts
      <3>3. QED  BY <2>5, <2>7, <3>2 DEF Fronts
    <2>10. QED  BY <2>8, <2>9
  <1> HIDE DEF Facts, Second
  <1>5. CASE \E e \in OnPrimary(a, connect) : ~e.ok /\ o = e
    BY <1>3, <1>5 DEF Facts
  <1>6. ASSUME NEW e \in OnPrimary(a, connect), e.ok,
               NEW d \in (IF hd.dual THEN Second(e.db) ELSE {Ok(e.db, 0)}),
               o = [d EXCEPT !.faults = @ + e.faults]
        PROVE  o \in Results(V, S) /\ Facts(o)
    <2>1. e \in Results(V, S) /\ Facts(e)
      BY <1>3
    <2>2. e.db \in HandlesOf(V, S) /\ e.faults \in Nat
      BY <2>1 DEF Results
    <2>3. /\ d \in Results(V, S) /\ d.ok = TRUE /\ d.db.p = e.db.p /\ d.db.invalid = e.db.invalid
          /\ d.db.active = e.db.active
      <3>1. CASE hd.dual
        BY <1>4, <1>6, <2>2, <3>1, Zenon
      <3>2. CASE ~hd.dual
        <4>1. d = Ok(e.db, 0)
          BY <1>6, <3>2
        <4>2. QED  BY <2>2, <4>1 DEF Ok, Results
      <3>3. QED  BY <3>1, <3>2
    <2>4. o \in Results(V, S) /\ o.db = d.db /\ o.ok = d.ok
      BY <1>6, <2>2, <2>3, CountedIs
    <2>5. QED  BY <1>6, <2>1, <2>3, <2>4 DEF Facts
  <1>7. \/ \E e \in OnPrimary(a, connect) : ~e.ok /\ o = e
        \/ \E e \in OnPrimary(a, connect) :
             /\ e.ok
             /\ \E d \in (IF hd.dual THEN Second(e.db) ELSE {Ok(e.db, 0)}) :
                  o = [d EXCEPT !.faults = @ + e.faults]
    BY <1>2, Zenon DEF Then
  <1>8. QED  BY <1>5, <1>6, <1>7 DEF Facts

\* In a transaction a statement changes nothing that is durable; a row that was
\* accepted is seen by the primary, one that was refused leaves it as it was or
\* ends the transaction.
LEMMA ExecuteIs ==
  ASSUME NEW V, NEW S, NEW hd \in HandlesOf(V, S), NEW s,
         Apply(hd.p.driver, hd.p.seen, s) \in V, Apply(hd.s.driver, hd.s.seen, s) \in S,
         NEW o \in Execute(hd, s)
  PROVE  /\ o \in Results(V, S) /\ o.db.invalid = hd.invalid
         /\ InTransaction(hd.p) =>
              /\ Same(V, hd.p, o.db.p) /\ InTransaction(o.db.p)
              /\ o.ok => /\ o.db.p.seen = Apply(hd.p.driver, hd.p.seen, s)
                         /\ o.db.p.failed = hd.p.failed
  <1> DEFINE F(b) == execute(b, s)
             Facts(e) == InTransaction(hd.p) =>
               /\ Same(V, hd.p, e.db.p) /\ InTransaction(e.db.p)
               /\ e.ok => /\ e.db.p.seen = Apply(hd.p.driver, hd.p.seen, s)
                          /\ e.db.p.failed = hd.p.failed
             Second(g) ==
               {IF e.ok THEN e ELSE [e EXCEPT !.db = OutOfSync(e.db), !.ok = ~g.active]
                : e \in OnSecondary(g, F)}
  <1>1. o \in Then(OnPrimary(hd, F), LAMBDA g : IF hd.dual THEN Second(g) ELSE {Ok(g, 0)})
    BY Zenon DEF Execute, Mirrored
  <1>2. ASSUME NEW e \in OnPrimary(hd, F)
        PROVE  /\ e \in Results(V, S) /\ e.db.invalid = hd.invalid /\ e.db.s = hd.s /\ Facts(e)
    <2>1. PICK q \in execute(hd.p, s) : FromPrimary(hd, q, e)
      BY <1>2, Zenon DEF OnPrimary, FromPrimary
    <2>2. hd.p \in Sessions(V)
      BY DEF HandlesOf
    <2>3. /\ q \in Outcomes(V)
          /\ InTransaction(hd.p) =>
               /\ Same(V, hd.p, q.db) /\ InTransaction(q.db)
               /\ q.ok => /\ q.db.seen = Apply(hd.p.driver, hd.p.seen, s)
                          /\ q.db.failed = hd.p.failed
      BY <2>1, <2>2, Executes
    <2>4. /\ e \in Results(V, S) /\ e.ok = q.ok /\ Fronts(V, S, hd, q.db, e.db) /\ e.db.s = hd.s
      BY <2>1, <2>3, OnPrimaryIs
    <2>5. QED  BY <2>3, <2>4 DEF Fronts
  <1>3. ASSUME NEW g \in HandlesOf(V, S), g.s = hd.s, NEW e \in Second(g)
        PROVE  e \in Results(V, S) /\ e.db.p = g.p /\ e.db.invalid = g.invalid
    <2>1. PICK d \in OnSecondary(g, F) :
            e = IF d.ok THEN d ELSE [d EXCEPT !.db = OutOfSync(d.db), !.ok = ~g.active]
      BY <1>3, Zenon
    <2>2. PICK q \in execute(g.s, s) : FromSecondary(g, q, d)
      BY <2>1, Zenon DEF OnSecondary, FromSecondary
    <2>3. g.s \in Sessions(S)
      BY DEF HandlesOf
    <2>4. q \in Outcomes(S)
      BY <1>3, <2>2, <2>3, Executes
    <2>5. d \in Results(V, S) /\ Fronts(V, S, g, g.p, d.db)
      BY <2>2, <2>4, OnSecondaryIs
    <2>6. d.db \in HandlesOf(V, S) /\ d.ok \in BOOLEAN /\ d.faults \in Nat
      BY <2>5 DEF Results
    <2> DEFINE k == OutOfSync(d.db)
               x == ~g.active
    <2>7. Fronts(V, S, d.db, d.db.p, k)
      BY <2>6, OutOfSyncIs, Zenon
    <2>8. x \in BOOLEAN
      OBVIOUS
    <2> HIDE DEF k, x
    <2>9. CASE d.ok
      BY <2>1, <2>5, <2>6, <2>9 DEF Fronts
    <2>10. CASE ~d.ok
      <3>1. e = [d EXCEPT !.db = k, !.ok = x]
        BY <2>1, <2>10 DEF k, x
      <3>2. k \in HandlesOf(V, S)
        BY <2>7 DEF Fronts
      <3>3. e \in Results(V, S) /\ e.db = k
        BY <2>5, <2>8, <3>1, <3>2, Zenon DEF Results
      <3>4. QED  BY <2>5, <2>7, <3>3 DEF Fronts
    <2>11. QED  BY <2>9, <2>10
  <1> HIDE DEF Facts, Second, F
  <1>4. CASE \E e \in OnPrimary(hd, F) : ~e.ok /\ o = e
    BY <1>2, <1>4 DEF Facts
  <1>5. ASSUME NEW e \in OnPrimary(hd, F), e.ok,
               NEW d \in (IF hd.dual THEN Second(e.db) ELSE {Ok(e.db, 0)}),
               o = [d EXCEPT !.faults = @ + e.faults]
        PROVE  o \in Results(V, S) /\ o.db.invalid = hd.invalid /\ Facts(o)
    <2>1. e \in Results(V, S) /\ e.db.invalid = hd.invalid /\ e.db.s = hd.s /\ Facts(e)
      BY <1>2
    <2>2. e.db \in HandlesOf(V, S) /\ e.faults \in Nat
      BY <2>1 DEF Results
    <2>3. d \in Results(V, S) /\ d.db.p = e.db.p /\ d.db.invalid = e.db.invalid
      <3>1. CASE hd.dual
        BY <1>3, <1>5, <2>1, <2>2, <3>1, Zenon
      <3>2. CASE ~hd.dual
        <4>1. d = Ok(e.db, 0)
          BY <1>5, <3>2
        <4>2. QED  BY <2>2, <4>1 DEF Ok, Results
      <3>3. QED  BY <3>1, <3>2
    <2>4. o \in Results(V, S) /\ o.db = d.db
      BY <1>5, <2>2, <2>3, CountedIs
    <2>5. QED  BY <1>5, <2>1, <2>3, <2>4 DEF Facts
  <1>6. \/ \E e \in OnPrimary(hd, F) : ~e.ok /\ o = e
        \/ \E e \in OnPrimary(hd, F) :
             /\ e.ok
             /\ \E d \in (IF hd.dual THEN Second(e.db) ELSE {Ok(e.db, 0)}) :
                  o = [d EXCEPT !.faults = @ + e.faults]
    BY <1>1, Zenon DEF Then
  <1>7. QED  BY <1>4, <1>5, <1>6 DEF Facts

\* _mark_transaction_started touches neither database.
LEMMA StartedIs ==
  ASSUME NEW V, NEW S, NEW hd, hd.dual \in BOOLEAN, ~is_transaction_active(hd), NEW g \in HandlesOf(V, S),
         NEW k, k = Started(hd, g)
  PROVE  k \in HandlesOf(V, S) /\ k.p = g.p /\ k.invalid = g.invalid
  <1> DEFINE n == g.gen + 1
             a == hd.dual
             c == [g EXCEPT !.gen = n, !.active = a]
  <1>1. n \in Nat /\ a \in BOOLEAN
    BY DEF HandlesOf
  <1>2. Started(hd, g) = c
    BY Zenon DEF Started
  <1> HIDE DEF n, a
  <1>3. c \in HandlesOf(V, S) /\ c.p = g.p /\ c.invalid = g.invalid
    BY <1>1, Zenon DEF HandlesOf
  <1>4. QED  BY <1>2, <1>3, Zenon

\* A transaction that was begun is one of the primary, on what it sees.
LEMMA BeginIs ==
  ASSUME NEW V, NEW S, NEW hd \in HandlesOf(V, S), ~is_transaction_active(hd), NEW o \in Begin(hd)
  PROVE  /\ o \in Results(V, S)
         /\ o.ok => /\ o.db.invalid = hd.invalid /\ Same(V, hd.p, o.db.p)
                    /\ InTransaction(o.db.p) /\ o.db.p.seen = hd.p.seen
                    /\ o.db.p.failed = hd.p.failed
  <1> DEFINE Facts(e) ==
               e.ok => /\ e.db.invalid = hd.invalid /\ Same(V, hd.p, e.db.p)
                       /\ InTransaction(e.db.p) /\ e.db.p.seen = hd.p.seen
                       /\ e.db.p.failed = hd.p.failed
             Undo(g) == {Ok(e.db, e.faults) : e \in OnPrimary(OutOfSync(g), rollback)}
             Both(g) == Handling(OnSecondary(g, begin_transaction), Undo)
             Primary == OnPrimary(hd, begin_transaction)
  <1>1. ASSUME NEW e \in Primary
        PROVE  e \in Results(V, S) /\ Facts(e)
    <2>1. PICK q \in begin_transaction(hd.p) : FromPrimary(hd, q, e)
      BY <1>1, Zenon DEF OnPrimary, FromPrimary
    <2>2. hd.p \in Sessions(V)
      BY DEF HandlesOf
    <2>3. /\ q \in Outcomes(V) /\ Same(V, hd.p, q.db)
          /\ q.ok => q.db.seen = hd.p.seen /\ q.db.failed = hd.p.failed /\ InTransaction(q.db)
      BY <2>1, <2>2, Begins
    <2>4. e \in Results(V, S) /\ e.ok = q.ok /\ Fronts(V, S, hd, q.db, e.db)
      BY <2>1, <2>3, OnPrimaryIs
    <2>5. QED  BY <2>3, <2>4 DEF Fronts
  <1>2. ASSUME NEW g \in HandlesOf(V, S), NEW e \in OnSecondary(g, begin_transaction)
        PROVE  e \in Results(V, S) /\ e.db.p = g.p /\ e.db.invalid = g.invalid
    <2>1. PICK q \in begin_transaction(g.s) : FromSecondary(g, q, e)
      BY <1>2, Zenon DEF OnSecondary, FromSecondary
    <2>2. g.s \in Sessions(S)
      BY DEF HandlesOf
    <2>3. q \in Outcomes(S)
      BY <2>1, <2>2, Begins
    <2>4. e \in Results(V, S) /\ Fronts(V, S, g, g.p, e.db)
      BY <2>1, <2>3, OnSecondaryIs
    <2>5. QED  BY <2>4 DEF Fronts
  <1>3. ASSUME NEW g \in HandlesOf(V, S), NEW e \in Undo(g)
        PROVE  e \in Results(V, S)
    <2>1. PICK d \in OnPrimary(OutOfSync(g), rollback) : e = Ok(d.db, d.faults)
      BY <1>3, Zenon
    <2> DEFINE k == OutOfSync(g)
    <2>2. k \in HandlesOf(V, S)
      BY OutOfSyncIs, Zenon DEF Fronts
    <2>3. PICK q \in rollback(k.p) : FromPrimary(k, q, d)
      BY <2>1, Zenon DEF OnPrimary, FromPrimary
    <2> HIDE DEF k
    <2>4. k.p \in Sessions(V)
      BY <2>2 DEF HandlesOf
    <2>5. q \in Outcomes(V)
      BY <2>3, <2>4, RollsBack
    <2>6. d \in Results(V, S)
      BY <2>2, <2>3, <2>5, OnPrimaryIs
    <2>7. QED  BY <2>1, <2>6 DEF Ok, Results
  <1> HIDE DEF Facts, Undo, Primary
  <1>4. ASSUME NEW g \in HandlesOf(V, S), NEW e \in Both(g)
        PROVE  e \in Results(V, S) /\ (e.ok => e.db.p = g.p /\ e.db.invalid = g.invalid)
    <2>1. PICK d \in OnSecondary(g, begin_transaction) :
            \/ d.ok /\ e = d
            \/ \E q \in Undo(d.db) : e = Err(q.db, d.faults + q.faults)
      BY <1>4, Zenon DEF Handling
    <2>2. d \in Results(V, S) /\ d.db.p = g.p /\ d.db.invalid = g.invalid
      BY <1>2, <2>1
    <2>3. CASE d.ok /\ e = d
      BY <2>2, <2>3
    <2>4. CASE \E q \in Undo(d.db) : e = Err(q.db, d.faults + q.faults)
      <3>1. PICK q \in Undo(d.db) : e = Err(q.db, d.faults + q.faults)
        BY <2>4
      <3>2. d.db \in HandlesOf(V, S) /\ d.faults \in Nat
        BY <2>2 DEF Results
      <3>3. q \in Results(V, S)
        BY <1>3, <3>1, <3>2
      <3>4. QED  BY <3>1, <3>2, <3>3 DEF Err, Results
    <2>5. QED  BY <2>1, <2>3, <2>4
  <1> HIDE DEF Both
  <1>5. ASSUME NEW e \in Then(Primary, Both)
        PROVE  e \in Results(V, S) /\ Facts(e)
    <2>1. \/ e \in Primary
          \/ \E d \in Primary : d.ok /\ \E q \in Both(d.db) : e = [q EXCEPT !.faults = @ + d.faults]
      BY <1>5, Zenon DEF Then
    <2>2. CASE \E d \in Primary : d.ok /\ \E q \in Both(d.db) : e = [q EXCEPT !.faults = @ + d.faults]
      <3>1. PICK d \in Primary : d.ok /\ \E q \in Both(d.db) : e = [q EXCEPT !.faults = @ + d.faults]
        BY <2>2
      <3>2. PICK q \in Both(d.db) : e = [q EXCEPT !.faults = @ + d.faults]
        BY <3>1
      <3>3. d \in Results(V, S) /\ Facts(d)
        BY <1>1
      <3>4. d.db \in HandlesOf(V, S) /\ d.faults \in Nat
        BY <3>3 DEF Results
      <3>5. q \in Results(V, S) /\ (q.ok => q.db.p = d.db.p /\ q.db.invalid = d.db.invalid)
        BY <1>4, <3>4
      <3>6. e \in Results(V, S) /\ e.db = q.db /\ e.ok = q.ok
        BY <3>2, <3>4, <3>5, CountedIs
      <3>7. QED  BY <3>1, <3>3, <3>5, <3>6 DEF Facts
    <2>3. QED  BY <1>1, <2>1, <2>2
  <1>6. PICK e \in Primary \cup Then(Primary, Both) :
          o = IF e.ok THEN [e EXCEPT !.db = Started(hd, e.db)] ELSE e
    BY Zenon DEF Begin, Primary, Both, Undo
  <1>7. e \in Results(V, S) /\ Facts(e)
    BY <1>1, <1>5
  <1>8. CASE ~e.ok
    BY <1>6, <1>7, <1>8 DEF Facts
  <1>9. CASE e.ok
    <2> PICK k : k = Started(hd, e.db)
      OBVIOUS
    <2>1. hd.dual \in BOOLEAN /\ e.db \in HandlesOf(V, S)
      BY <1>7 DEF HandlesOf, Results
    <2>2. k \in HandlesOf(V, S) /\ k.p = e.db.p /\ k.invalid = e.db.invalid
      BY <2>1, StartedIs
    <2>3. o = [e EXCEPT !.db = k]
      BY <1>6, <1>9
    <2>4. o \in Results(V, S) /\ o.db = k /\ o.ok = e.ok
      BY <1>7, <2>2, <2>3, Zenon DEF Results
    <2>5. QED  BY <1>7, <2>2, <2>4 DEF Facts
  <1>10. QED  BY <1>8, <1>9 DEF Facts

\* How a database context ends.
LEMMA ContextExitIs ==
  ASSUME NEW V, NEW S, NEW hd \in HandlesOf(V, S), NEW fails, NEW o \in ContextExit(hd, fails)
  PROVE  /\ o \in Results(V, S)
         /\ fails => o.db.p.store = hd.p.store /\ o.db.p.lost = hd.p.lost
         /\ hd.p.seen = hd.p.store => o.db.p.store = hd.p.store /\ o.db.p.lost = hd.p.lost
         /\ ~fails /\ o.ok /\ ~hd.invalid /\ ~hd.p.failed
              /\ (InTransaction(hd.p) \/ hd.p.store = hd.p.seen)
              => o.db.p.store = hd.p.seen
  <1>1. CASE hd.invalid /\ ~is_connected(hd)
    <2> DEFINE k == [hd EXCEPT !.invalid = FALSE]
    <2>1. k \in HandlesOf(V, S) /\ k.p = hd.p
      BY Zenon DEF HandlesOf
    <2>2. o = Ok(k, 0)
      BY <1>1, Zenon DEF ContextExit
    <2> HIDE DEF k
    <2>3. o \in Results(V, S) /\ o.db = k
      BY <2>1, <2>2 DEF Ok, Results
    <2>4. QED  BY <1>1, <2>1, <2>3
  <1>2. CASE ~(hd.invalid /\ ~is_connected(hd))
    <2> DEFINE Primary == IF fails THEN Rollback(hd) ELSE Commit(hd)
    <2>1. o \in Then(Primary, Disconnect)
      BY <1>2, Zenon DEF ContextExit
    <2>2. ASSUME NEW e \in Primary
          PROVE  /\ e \in Results(V, S)
                 /\ fails => e.db.p.store = hd.p.store /\ e.db.p.lost = hd.p.lost
                 /\ hd.p.seen = hd.p.store => e.db.p.store = hd.p.store /\ e.db.p.lost = hd.p.lost
                 /\ ~fails /\ e.ok /\ ~hd.p.failed
                      /\ (InTransaction(hd.p) \/ hd.p.store = hd.p.seen)
                      => e.db.p.store = hd.p.seen
      <3>1. CASE fails
        <4>1. e \in Rollback(hd)
          BY <2>2, <3>1
        <4>2. e \in Results(V, S) /\ Same(V, hd.p, e.db.p)
          BY <4>1, RollbackIs
        <4>3. QED  BY <3>1, <4>2 DEF Same
      <3>2. CASE ~fails
        <4>1. e \in Commit(hd)
          BY <2>2, <3>2
        <4>2. QED  BY <3>2, <4>1, CommitIs
      <3>3. QED  BY <3>1, <3>2
    <2> HIDE DEF Primary
    <2>3. \/ o \in Primary /\ ~o.ok
          \/ \E e \in Primary : e.ok /\ \E q \in Disconnect(e.db) : o = [q EXCEPT !.faults = @ + e.faults]
      BY <2>1, Zenon DEF Then
    <2>4. CASE o \in Primary /\ ~o.ok
      BY <2>2, <2>4
    <2>5. CASE \E e \in Primary : e.ok /\ \E q \in Disconnect(e.db) : o = [q EXCEPT !.faults = @ + e.faults]
      <3>1. PICK e \in Primary : e.ok /\ \E q \in Disconnect(e.db) : o = [q EXCEPT !.faults = @ + e.faults]
        BY <2>5
      <3>2. PICK q \in Disconnect(e.db) : o = [q EXCEPT !.faults = @ + e.faults]
        BY <3>1
      <3>3. e.db \in HandlesOf(V, S) /\ e.faults \in Nat
        BY <2>2 DEF Results
      <3>4. q \in Results(V, S) /\ Same(V, e.db.p, q.db.p)
        BY <3>2, <3>3, DisconnectIs
      <3>5. o \in Results(V, S) /\ o.db = q.db /\ o.ok = q.ok
        BY <3>2, <3>3, <3>4, CountedIs
      <3>6. QED  BY <2>2, <3>1, <3>4, <3>5 DEF Same
    <2>6. QED  BY <2>3, <2>4, <2>5
  <1>3. QED  BY <1>1, <1>2

-----------------------------------------------------------------------------
(***************************************************************************)
(* One transaction for a run: what a run writes is judged before it is     *)
(* durable.                                                                *)
(***************************************************************************)

RunInv == CollectInv /\ (Single => \E V : h \in HandlesOf(V, V))

\* More values may be named than a handle holds.
LEMMA MoreValues ==
  ASSUME NEW V, NEW S, NEW W, V \subseteq W, S \subseteq W, NEW hd \in HandlesOf(V, S)
  PROVE  hd \in HandlesOf(W, W)
  <1>1. Sessions(V) \subseteq Sessions(W) /\ Sessions(S) \subseteq Sessions(W)
    BY DEF Sessions
  <1>2. QED  BY <1>1 DEF HandlesOf

\* The rows do not depend on the driver.
LEMMA ApplyIs ==
  ASSUME NEW d, NEW c, NEW s
  PROVE  Apply(d, c, s) = Apply("sqlite", c, s)
  BY Zenon DEF Apply

\* What a handle always is.
Typed(hd) == hd.dual \in BOOLEAN /\ hd.p.driver \in Drivers /\ hd.s.driver \in Drivers

\* A new handle on the rows there are.
LEMMA RenewedIs ==
  ASSUME NEW V, NEW S, NEW hd, Typed(hd), hd.p.store \in V, hd.s.store \in S
  PROVE  Renewed(hd) \in HandlesOf(V, S) /\ Renewed(hd).p.store = hd.p.store
  <1> DEFINE p == Backend(hd.p.driver, hd.p.store)
             s == Backend(hd.s.driver, hd.s.store)
  <1>1. p \in Sessions(V) /\ p.store = hd.p.store /\ s \in Sessions(S)
    BY DEF Backend, Sessions, Typed
  <1>2. Renewed(hd) = [dual |-> hd.dual, p |-> p, s |-> s, active |-> FALSE, gen |-> 0,
                       sync |-> TRUE, invalid |-> FALSE]
    <2> HIDE DEF p, s
    <2>1. Renewed(hd) = [Handle(hd.dual, hd.p.driver, hd.s.driver, Empty) EXCEPT !.p = p, !.s = s]
      BY Zenon DEF Renewed, p, s
    <2>2. QED  BY <2>1 DEF Handle
  <1> HIDE DEF p, s
  <1>3. QED  BY <1>1, <1>2 DEF HandlesOf, Typed

\* What is dropped of a handle was not durable.
LEMMA DroppedIs ==
  ASSUME NEW V, NEW S, NEW hd \in HandlesOf(V, S)
  PROVE  /\ Dropped(hd) \in HandlesOf(V, S)
         /\ Dropped(hd).p.store = hd.p.store /\ Dropped(hd).p.lost = hd.p.lost
  <1> DEFINE p == Closed(hd.p)
             s == Closed(hd.s)
  <1>1. hd.p \in Sessions(V) /\ hd.s \in Sessions(S)
    BY DEF HandlesOf
  <1>2. Same(V, hd.p, p) /\ Same(S, hd.s, s)
    BY <1>1, ClosedIs
  <1>3. Dropped(hd) = [hd EXCEPT !.p = p, !.s = s]
    BY Zenon DEF Dropped
  <1> HIDE DEF p, s
  <1>4. p \in Sessions(V) /\ s \in Sessions(S)
    BY <1>2 DEF Same
  <1>5. Dropped(hd) \in HandlesOf(V, S) /\ Dropped(hd).p = p
    BY <1>3, <1>4, Zenon DEF HandlesOf
  <1>6. QED  BY <1>2, <1>5 DEF Same

\* What an error makes of handle g.
LEMMA ErrorIs ==
  ASSUME NEW V, NEW S, NEW g \in HandlesOf(V, S), NEW sub, NEW n, Error(g, sub, n)
  PROVE  /\ h' \in HandlesOf(V, S) /\ h'.invalid = g.invalid /\ Same(V, g.p, h'.p)
         /\ \/ /\ phase' = "open" /\ h' = g /\ result' = result /\ Continues(sub)
               /\ failed' = (failed \/ (driver = "quicktime" /\ ~sub))
            \/ /\ phase' = "exit" /\ result' \in {result, "skipped"}
               /\ raised' \/ result' = "skipped"
  <1>1. PICK o \in (IF Undoes(sub) THEN Rollback(g) ELSE {Ok(g, 0)}) :
          /\ h' = o.db
          /\ IF Continues(sub)
               THEN /\ phase' = "open" /\ result' = result
                    /\ failed' = (failed \/ (driver = "quicktime" /\ ~sub))
             ELSE /\ phase' = "exit" /\ raised' = ~(sub /\ o.ok)
                  /\ result' = IF sub /\ o.ok THEN "skipped" ELSE result
    BY Zenon DEF Error
  <1>2. CASE Undoes(sub)
    <2>1. o \in Rollback(g)
      BY <1>1, <1>2
    <2>2. o \in Results(V, S) /\ Same(V, g.p, o.db.p) /\ o.db.invalid = g.invalid
      BY <2>1, RollbackIs
    <2>3. ~Continues(sub)
      BY <1>2 DEF Undoes, Continues
    <2>4. QED  BY <1>1, <2>2, <2>3 DEF Results
  <1>3. CASE ~Undoes(sub)
    <2>1. h' = g
      BY <1>1, <1>3 DEF Ok
    <2>2. Same(V, g.p, g.p)
      BY DEF HandlesOf, Same
    <2>3. QED  BY <1>1, <2>1, <2>2
  <1>4. QED  BY <1>2, <1>3

\* In any case an error goes on, or ends the run.
LEMMA ErrorEnds ==
  ASSUME NEW g, NEW sub, NEW n, Error(g, sub, n)
  PROVE  /\ phase' \in {"open", "exit"} /\ result' \in {result, "skipped"}
         /\ phase' = "open" => result' = result
  BY Zenon DEF Error

\* One record: accepted and seen, or refused.
LEMMA ProcessRecordIs ==
  ASSUME NEW V, NEW S, NEW hd \in HandlesOf(V, S), NEW r, InTransaction(hd.p),
         Apply(hd.p.driver, hd.p.seen, r) \in V, Apply(hd.s.driver, hd.s.seen, r) \in S,
         NEW o \in ProcessRecord(hd, r)
  PROVE  /\ o.db \in HandlesOf(V, S) /\ o.db.invalid = hd.invalid
         /\ Same(V, hd.p, o.db.p) /\ InTransaction(o.db.p)
         /\ o.is = "accepted" => /\ o.db.p.seen = Apply(hd.p.driver, hd.p.seen, r)
                                 /\ o.db.p.failed = hd.p.failed
  <1>1. \/ o.db = hd /\ o.is # "accepted"
        \/ \E e \in Execute(hd, r) : o.db = e.db /\ (o.is = "accepted" => e.ok)
    <2>1. \/ o \in {[db |-> hd, is |-> "rejected", faults |-> 0]}
          \/ o \in {[db |-> e.db, is |-> IF e.ok THEN "accepted" ELSE "rejected",
                     faults |-> e.faults] : e \in Execute(hd, r)}
          \/ o \in {[db |-> hd, is |-> "raised", faults |-> 1]}
      BY Zenon DEF ProcessRecord
    <2>2. QED  BY <2>1
  <1>2. CASE o.db = hd /\ o.is # "accepted"
    BY <1>2 DEF HandlesOf, Same
  <1>3. CASE \E e \in Execute(hd, r) : o.db = e.db /\ (o.is = "accepted" => e.ok)
    <2>1. PICK e \in Execute(hd, r) : o.db = e.db /\ (o.is = "accepted" => e.ok)
      BY <1>3
    <2>2. /\ e \in Results(V, S) /\ e.db.invalid = hd.invalid
          /\ Same(V, hd.p, e.db.p) /\ InTransaction(e.db.p)
          /\ e.ok => /\ e.db.p.seen = Apply(hd.p.driver, hd.p.seen, r)
                     /\ e.db.p.failed = hd.p.failed
      BY <2>1, ExecuteIs
    <2>3. QED  BY <2>1, <2>2 DEF Results
  <1>4. QED  BY <1>1, <1>2, <1>3

\* The invariant holds in the beginning.
LEMMA InitRunInv == Init => RunInv
  BY Zenon DEF Init, RunInv, CollectInv, Single, Busy, InsideOneTransaction, JudgedFirst,
     FailedRunStoresNothing, SuccessIsStored

\* A step that touches neither the database nor the verdict.
LEMMA QuietStep ==
  ASSUME RunInv, Busy, phase' \in {"open", "gather", "clear", "rows"},
         UNCHANGED <<h, driver, failed, result, base, expect>>
  PROVE  RunInv'
  BY Zenon DEF RunInv, CollectInv, Single, Busy, InsideOneTransaction, JudgedFirst,
     FailedRunStoresNothing, SuccessIsStored

\* "capture" is judged by no transaction, only never reported as failed.
LEMMA CaptureStep ==
  ASSUME RunInv, driver = "capture", driver' = driver, phase # "idle",
         phase' \in {"open", "gather", "clear", "rows", "exit"}, result' # "failed",
         phase' # "exit" => result' = "running"
  PROVE  RunInv'
  BY Zenon DEF RunInv, CollectInv, Single, Busy, InsideOneTransaction, JudgedFirst,
     FailedRunStoresNothing, SuccessIsStored

\* A run that is not "capture" is in its transaction.
LEMMA InTheRun ==
  ASSUME RunInv, Busy, driver # "capture"
  PROVE  /\ driver \in Collectors /\ Single /\ result = "running" /\ ~h.invalid
         /\ h.p.store = base /\ InTransaction(h.p)
         /\ ~failed => h.p.seen = expect /\ ~h.p.failed
         /\ \E V : h \in HandlesOf(V, V)
  BY CollectAssumption DEF RunInv, CollectInv, Busy, Single, InsideOneTransaction

\* The transaction goes on.
LEMMA BusyStep ==
  ASSUME RunInv, Busy, driver # "capture", driver' = driver, base' = base, result' = result,
         phase' \in {"open", "gather", "clear", "rows"},
         NEW V, h' \in HandlesOf(V, V), h'.invalid = h.invalid, Same(V, h.p, h'.p),
         InTransaction(h'.p), ~failed' => h'.p.seen = expect' /\ ~h'.p.failed
  PROVE  RunInv'
  <1>1. driver \in Collectors /\ Single /\ result = "running" /\ ~h.invalid /\ h.p.store = base
    BY InTheRun
  <1>2. h'.p.store = h.p.store
    BY DEF Same
  <1>3. phase' # "idle" /\ phase' # "select" /\ phase' # "exit"
    OBVIOUS
  <1>4. QED
    BY <1>1, <1>2, <1>3 DEF RunInv, CollectInv, Single, Busy, InsideOneTransaction, JudgedFirst,
       FailedRunStoresNothing, SuccessIsStored

\* The run is judged.
LEMMA JudgedStep ==
  ASSUME RunInv, Busy, driver # "capture", driver' = driver, phase' = "exit",
         \E V : h' \in HandlesOf(V, V), h'.invalid = h.invalid,
         raised' \/ result' = "failed" => h'.p.lost \/ h'.p.store = base',
         ~raised' /\ result' = "failed" => h'.p.seen = h'.p.store,
         ~raised' /\ result' = "success" =>
           /\ h'.p.seen = expect' /\ ~h'.p.failed
           /\ InTransaction(h'.p) \/ h'.p.store = h'.p.seen
  PROVE  RunInv'
  <1>1. driver \in Collectors /\ Single /\ ~h.invalid
    BY InTheRun
  <1>2. QED
    BY <1>1 DEF RunInv, CollectInv, Single, Busy, InsideOneTransaction, JudgedFirst,
       FailedRunStoresNothing, SuccessIsStored

\* An error of a run, on what its last statement left.
LEMMA ErrorStep ==
  ASSUME RunInv, Busy, driver' = driver, base' = base, expect' = expect,
         NEW g, NEW sub, NEW n, Error(g, sub, n),
         driver # "capture" =>
           /\ \E V : g \in HandlesOf(V, V) /\ Same(V, h.p, g.p)
           /\ g.invalid = h.invalid /\ InTransaction(g.p),
         sub => g = h
  PROVE  RunInv'
  <1>1. CASE driver = "capture"
    <2>1. result = "running"
      BY DEF RunInv, CollectInv
    <2>2. phase # "idle"
      BY DEF Busy
    <2>3. QED  BY <1>1, <2>1, <2>2, ErrorEnds, CaptureStep
  <1>2. CASE driver # "capture"
    <2>1. PICK V : g \in HandlesOf(V, V) /\ Same(V, h.p, g.p)
      BY <1>2
    <2>2. g.invalid = h.invalid /\ InTransaction(g.p)
      BY <1>2
    <2>3. /\ h' \in HandlesOf(V, V) /\ h'.invalid = g.invalid /\ Same(V, g.p, h'.p)
          /\ \/ /\ phase' = "open" /\ h' = g /\ result' = result /\ Continues(sub)
                /\ failed' = (failed \/ (driver = "quicktime" /\ ~sub))
             \/ /\ phase' = "exit" /\ result' \in {result, "skipped"}
                /\ raised' \/ result' = "skipped"
      BY <2>1, ErrorIs
    <2>4. /\ result = "running" /\ h.p.store = base
          /\ ~failed => h.p.seen = expect /\ ~h.p.failed
      BY <1>2, InTheRun
    <2>5. Same(V, h.p, h'.p)
      BY <2>1, <2>3 DEF Same
    <2>6. CASE /\ phase' = "open" /\ h' = g /\ result' = result /\ Continues(sub)
               /\ failed' = (failed \/ (driver = "quicktime" /\ ~sub))
      <3>1. ~failed' => ~failed /\ g = h
        BY <1>2, <2>6 DEF Continues
      <3>2. QED  BY <1>2, <2>2, <2>3, <2>4, <2>5, <2>6, <3>1, BusyStep
    <2>7. CASE /\ phase' = "exit" /\ result' \in {result, "skipped"}
               /\ raised' \/ result' = "skipped"
      <3>1. h'.p.store = base'
        BY <2>4, <2>5 DEF Same
      <3>2. result' # "failed" /\ result' # "success"
        BY <2>4, <2>7
      <3>3. QED  BY <1>2, <2>2, <2>3, <2>7, <3>1, <3>2, JudgedStep
    <2>8. QED  BY <2>3, <2>6, <2>7
  <1>3. QED  BY <1>1, <1>2

\* Opening, reading and closing a stream.
LEMMA QuietSteps ==
  ASSUME RunInv, OpenData \/ OpenNoData \/ Gather \/ EndResponse
  PROVE  RunInv'
  <1>1. Busy /\ phase' \in {"open", "gather", "clear", "rows"}
    BY Zenon DEF OpenData, OpenNoData, Gather, EndResponse, Busy
  <1>2. UNCHANGED <<h, driver, failed, result, base, expect>>
    BY Zenon DEF OpenData, OpenNoData, Gather, EndResponse, job, data, aux
  <1>3. QED  BY <1>1, <1>2, QuietStep

\* A stream that cannot be opened or read.
LEMMA FailSteps ==
  ASSUME RunInv, OpenFails \/ ReadFails
  PROVE  RunInv'
  <1>1. Busy /\ driver' = driver /\ base' = base /\ expect' = expect
    BY Zenon DEF OpenFails, ReadFails, Busy, job
  <1>2. \E sub \in BOOLEAN, n \in {0, 1} : Error(h, sub, n)
    BY Zenon DEF OpenFails, ReadFails
  <1>3. driver # "capture" =>
          /\ \E V : h \in HandlesOf(V, V) /\ Same(V, h.p, h.p)
          /\ h.invalid = h.invalid /\ InTransaction(h.p)
    BY <1>1, InTheRun DEF Same, HandlesOf
  <1>4. QED  BY <1>1, <1>2, <1>3, ErrorStep

\* The snapshot of a date is cleared.
LEMMA StepClear ==
  ASSUME RunInv, Clear
  PROVE  RunInv'
  <1> DEFINE s == [do |-> "clear", place |-> At]
  <1>1. Busy /\ driver' = driver /\ base' = base
    BY Zenon DEF Clear, Busy, job
  <1>2. PICK o \in Execute(h, s) :
          IF o.ok THEN /\ h' = o.db /\ phase' = "rows" /\ expect' = Apply("sqlite", expect, s)
                       /\ failed' = failed /\ result' = result
          ELSE Error(o.db, FALSE, o.faults) /\ expect' = expect
    BY Zenon DEF Clear
  <1> HIDE DEF s
  <1>3. CASE driver = "capture"
    <2>1. result = "running" /\ phase # "idle"
      BY <1>1 DEF RunInv, CollectInv, Busy
    <2>2. CASE o.ok
      BY <1>1, <1>2, <1>3, <2>1, <2>2, CaptureStep
    <2>3. CASE ~o.ok
      BY <1>1, <1>2, <1>3, <2>3, ErrorStep
    <2>4. QED  BY <2>2, <2>3
  <1>4. CASE driver # "capture"
    <2>1. PICK U : h \in HandlesOf(U, U)
      BY <1>1, <1>4, InTheRun
    <2> DEFINE a == Apply(h.p.driver, h.p.seen, s)
               V == U \cup {a, Apply(h.s.driver, h.s.seen, s)}
    <2>2. h \in HandlesOf(V, V)
      BY <2>1, MoreValues
    <2>3. /\ InTransaction(h.p) /\ ~failed => h.p.seen = expect /\ ~h.p.failed
      BY <1>1, <1>4, InTheRun
    <2>4. a \in V /\ Apply(h.s.driver, h.s.seen, s) \in V
      OBVIOUS
    <2>5. a = Apply("sqlite", h.p.seen, s)
      BY ApplyIs
    <2> HIDE DEF V
    <2>6. /\ o \in Results(V, V) /\ o.db.invalid = h.invalid
          /\ Same(V, h.p, o.db.p) /\ InTransaction(o.db.p)
          /\ o.ok => o.db.p.seen = a /\ o.db.p.failed = h.p.failed
      BY <1>1, <1>2, <1>4, <2>2, <2>4, InTheRun, ExecuteIs
    <2> HIDE DEF a
    <2>7. o.db \in HandlesOf(V, V)
      BY <2>6 DEF Results
    <2>8. CASE o.ok
      BY <1>1, <1>2, <1>4, <2>3, <2>5, <2>6, <2>7, <2>8, InTheRun, BusyStep
    <2>9. CASE ~o.ok
      BY <1>1, <1>2, <1>4, <2>6, <2>7, <2>9, ErrorStep
    <2>10. QED  BY <2>8, <2>9
  <1>5. QED  BY <1>3, <1>4

\* One row is accepted, counted as a failure or ends the run.
LEMMA StepRow ==
  ASSUME RunInv, Row
  PROVE  RunInv'
  <1> DEFINE r == Head(buf)
  <1>1. Busy /\ driver' = driver /\ base' = base /\ driver # "capture"
    BY Zenon DEF Row, Busy, job
  <1>2. PICK o \in ProcessRecord(h, r) :
          \/ /\ h' = o.db /\ failed' = (failed \/ o.is # "accepted")
             /\ expect' = IF o.is = "accepted" THEN Apply("sqlite", expect, r) ELSE expect
             /\ phase' = phase /\ result' = result
          \/ Error(o.db, FALSE, o.faults) /\ expect' = expect
    BY Zenon DEF Row
  <1> HIDE DEF r
  <1>3. PICK U : h \in HandlesOf(U, U)
    BY <1>1, InTheRun
  <1> DEFINE a == Apply(h.p.driver, h.p.seen, r)
             V == U \cup {a, Apply(h.s.driver, h.s.seen, r)}
  <1>4. h \in HandlesOf(V, V)
    BY <1>3, MoreValues
  <1>5. /\ InTransaction(h.p)
        /\ ~failed => h.p.seen = expect /\ ~h.p.failed
    BY <1>1, InTheRun
  <1>6. a \in V /\ Apply(h.s.driver, h.s.seen, r) \in V
    OBVIOUS
  <1>7. a = Apply("sqlite", h.p.seen, r)
    BY ApplyIs
  <1> HIDE DEF V
  <1>8. /\ o.db \in HandlesOf(V, V) /\ o.db.invalid = h.invalid
        /\ Same(V, h.p, o.db.p) /\ InTransaction(o.db.p)
        /\ o.is = "accepted" => o.db.p.seen = a /\ o.db.p.failed = h.p.failed
    BY <1>2, <1>4, <1>5, <1>6, ProcessRecordIs
  <1> HIDE DEF a
  <1>9. CASE /\ h' = o.db /\ failed' = (failed \/ o.is # "accepted")
             /\ expect' = IF o.is = "accepted" THEN Apply("sqlite", expect, r) ELSE expect
             /\ phase' = phase /\ result' = result
    <2>1. ~failed' => h'.p.seen = expect' /\ ~h'.p.failed
      BY <1>5, <1>7, <1>8, <1>9
    <2>2. phase' \in {"open", "gather", "clear", "rows"}
      BY <1>1, <1>9 DEF Busy
    <2>3. QED  BY <1>1, <1>8, <1>9, <2>1, <2>2, BusyStep
  <1>10. CASE Error(o.db, FALSE, o.faults) /\ expect' = expect
    BY <1>1, <1>8, <1>10, ErrorStep
  <1>11. QED  BY <1>2, <1>9, <1>10

\* A run begins on what is durable, in a transaction of its own.
LEMMA StepStart ==
  ASSUME RunInv, Typed(h), Start
  PROVE  RunInv'
  <1>1. PICK d \in Collectors, o \in Opened(driver', Renewed(h)) :
          /\ driver' = d /\ o.ok /\ h' = o.db
          /\ IF d = "capture" THEN phase' = "select" ELSE phase' = "open"
    BY Zenon DEF Start
  <1>2. base' = h.p.store /\ expect' = h.p.store /\ result' = "running" /\ failed' = failed
    BY Zenon DEF Start
  <1>3. CASE driver' = "capture"
    BY <1>1, <1>2, <1>3 DEF RunInv, CollectInv, Single, Busy, InsideOneTransaction, JudgedFirst,
       FailedRunStoresNothing, SuccessIsStored
  <1>4. CASE driver' # "capture"
    <2> DEFINE V == {h.p.store, h.s.store}
               g == Renewed(h)
    <2>1. g \in HandlesOf(V, V) /\ g.p.store = h.p.store
      BY RenewedIs
    <2>2. o \in Then(Connect(g), Begin)
      BY <1>1, <1>4 DEF Opened
    <2> HIDE DEF V, g
    <2>3. PICK e \in Connect(g) :
            IF e.ok THEN \E q \in Begin(e.db) : o = [q EXCEPT !.faults = @ + e.faults] ELSE o = e
      BY <2>2, Zenon DEF Then
    <2>4. /\ e \in Results(V, V) /\ e.db.invalid = FALSE /\ e.db.active = FALSE
          /\ Same(V, g.p, e.db.p)
          /\ e.ok => e.db.p.seen = g.p.store /\ e.db.p.active = FALSE /\ e.db.p.failed = FALSE
      BY <2>1, ConnectIs
    <2>5. e.ok
      BY <1>1, <2>3
    <2>6. PICK q \in Begin(e.db) : o = [q EXCEPT !.faults = @ + e.faults]
      BY <2>3, <2>5
    <2>7. e.db \in HandlesOf(V, V) /\ e.faults \in Nat
      BY <2>4 DEF Results
    <2>8. ~is_transaction_active(e.db)
      BY <2>4, <2>5 DEF is_transaction_active
    <2>9. /\ q \in Results(V, V)
          /\ q.ok => /\ q.db.invalid = FALSE /\ Same(V, e.db.p, q.db.p)
                     /\ InTransaction(q.db.p) /\ q.db.p.seen = e.db.p.seen
                     /\ q.db.p.failed = e.db.p.failed
      BY <2>4, <2>6, <2>7, <2>8, BeginIs
    <2>10. o.db = q.db /\ o.ok = q.ok
      BY <2>6, <2>7, <2>9, CountedIs
    <2>11. h' \in HandlesOf(V, V)
      BY <1>1, <2>9, <2>10 DEF Results
    <2>12. /\ h'.invalid = FALSE /\ InTransaction(h'.p) /\ h'.p.store = h.p.store
           /\ h'.p.seen = h.p.store /\ h'.p.failed = FALSE
      BY <1>1, <2>1, <2>4, <2>5, <2>9, <2>10 DEF Same
    <2>13. driver' \in Collectors /\ phase' = "open"
      BY <1>1, <1>4
    <2>14. QED
      BY <1>2, <1>4, <2>11, <2>12, <2>13 DEF RunInv, CollectInv, Single, Busy,
         InsideOneTransaction, JudgedFirst, FailedRunStoresNothing, SuccessIsStored
  <1>5. QED  BY <1>3, <1>4

\* What only the capture command does.
LEMMA CaptureSteps ==
  ASSUME RunInv, Select \/ Collect \/ FinishCapture
  PROVE  RunInv'
  <1>1. driver = "capture" /\ driver' = driver /\ phase # "idle"
    BY Zenon DEF RunInv, CollectInv, Select, Collect, FinishCapture, AllOpened, job
  <1>2. result = "running"
    BY Zenon DEF RunInv, CollectInv, Select, Collect, FinishCapture, AllOpened, Busy
  <1>3. /\ phase' \in {"open", "rows", "exit"} /\ result' \in {result, "success"}
        /\ phase' # "exit" => result' = result
    BY Zenon DEF Select, Collect, FinishCapture, Flush
  <1>4. QED  BY <1>1, <1>2, <1>3, CaptureStep

\* What each collector does once every key was opened.
LEMMA FinishIs ==
  ASSUME FinishSpecs \/ FinishSpec \/ FinishRun
  PROVE  \/ \E o \in Rollback(h) : failed /\ h' = o.db /\ result' = "failed" /\ raised' = ~o.ok
         \/ \E o \in Commit(h) : ~failed /\ h' = o.db /\ result' = "success" /\ raised' = ~o.ok
         \/ ~failed /\ h' = h /\ result' = "success" /\ ~raised'
         \/ \E o \in (IF failed THEN {Err(h, 0)} ELSE Commit(h)) :
              /\ result' = "success" /\ raised' /\ ~o.ok
              /\ h' = o.db \/ \E q \in Rollback(o.db) : h' = q.db
  <1>1. CASE FinishSpecs
    BY <1>1, Zenon DEF FinishSpecs, Leave
  <1>2. CASE FinishSpec
    <2>1. PICK o \in (IF failed THEN Rollback(h) ELSE {Ok(h, 0)}) :
            /\ h' = o.db /\ raised' = ~o.ok
            /\ result' = IF failed THEN "failed" ELSE "success"
      BY <1>2, Zenon DEF FinishSpec, Leave
    <2>2. CASE failed
      BY <2>1, <2>2
    <2>3. CASE ~failed
      <3>1. o = Ok(h, 0) /\ result' = "success"
        BY <2>1, <2>3
      <3>2. o.db = h /\ o.ok = TRUE
        BY <3>1 DEF Ok
      <3>3. ~raised'
        BY <2>1, <3>2, Zenon
      <3>4. h' = h
        BY <2>1, <3>2
      <3>5. QED  BY <2>3, <3>1, <3>3, <3>4, Zenon
    <2>4. QED  BY <2>2, <2>3
  <1>3. CASE FinishRun
    <2>1. PICK o \in (IF failed THEN {Err(h, 0)} ELSE Commit(h)) :
            \E p \in (IF o.ok \/ driver # "daily" THEN {o} ELSE Handling({o}, Rollback)) :
              Leave(p, "success", ~p.ok)
      BY <1>3, Zenon DEF FinishRun
    <2>2. PICK p \in (IF o.ok \/ driver # "daily" THEN {o} ELSE Handling({o}, Rollback)) :
            h' = p.db /\ raised' = ~p.ok /\ result' = "success"
      BY <2>1, Zenon DEF Leave
    <2>3. failed => ~o.ok
      BY <2>1 DEF Err
    <2>4. CASE p = o
      BY <2>1, <2>2, <2>3, <2>4
    <2>5. CASE p # o
      <3>1. ~o.ok /\ p \in Handling({o}, Rollback)
        BY <2>2, <2>5
      <3>2. PICK q \in Rollback(o.db) : p = Err(q.db, o.faults + q.faults)
        BY <3>1, Zenon DEF Handling
      <3>3. p.db = q.db /\ p.ok = FALSE
        BY <3>2 DEF Err
      <3>4. QED  BY <2>1, <2>2, <3>1, <3>3
    <2>6. QED  BY <2>4, <2>5
  <1>4. QED  BY <1>1, <1>2, <1>3

\* What each collector does once every key was opened is a judgement.
LEMMA FinishSteps ==
  ASSUME RunInv, FinishSpecs \/ FinishSpec \/ FinishRun
  PROVE  RunInv'
  <1>1. Busy /\ driver # "capture" /\ driver' = driver /\ base' = base /\ expect' = expect
        /\ phase' = "exit"
    BY Zenon DEF FinishSpecs, FinishSpec, FinishRun, AllOpened, Leave, Busy, job, aux
  <1>2. /\ ~h.invalid /\ h.p.store = base /\ InTransaction(h.p)
        /\ ~failed => h.p.seen = expect /\ ~h.p.failed
    BY <1>1, InTheRun
  <1>3. PICK V : h \in HandlesOf(V, V)
    BY <1>1, InTheRun
  <1>4. \/ \E o \in Rollback(h) : failed /\ h' = o.db /\ result' = "failed" /\ raised' = ~o.ok
        \/ \E o \in Commit(h) : ~failed /\ h' = o.db /\ result' = "success" /\ raised' = ~o.ok
        \/ ~failed /\ h' = h /\ result' = "success"
        \/ \E o \in {Err(h, 0)} \cup Commit(h) :
             /\ result' = "success" /\ raised' /\ ~o.ok
             /\ h' = o.db \/ \E q \in Rollback(o.db) : h' = q.db
    BY FinishIs
  <1>5. ASSUME NEW o \in Rollback(h), failed, h' = o.db, result' = "failed", raised' = ~o.ok
        PROVE  RunInv'
    <2>1. /\ o \in Results(V, V) /\ Same(V, h.p, o.db.p) /\ o.db.invalid = h.invalid
          /\ o.ok => o.db.p.seen = h.p.store
      BY <1>2, <1>3, RollbackIs
    <2>2. h' \in HandlesOf(V, V) /\ h'.p.store = base' /\ (~raised' => h'.p.seen = h'.p.store)
      BY <1>1, <1>2, <1>5, <2>1 DEF Results, Same
    <2>3. QED  BY <1>1, <1>5, <2>1, <2>2, JudgedStep
  <1>6. ASSUME NEW o \in Commit(h), ~failed, h' = o.db, result' = "success", raised' = ~o.ok
        PROVE  RunInv'
    <2>1. /\ o \in Results(V, V) /\ o.db.invalid = h.invalid
          /\ ~o.ok => o.db.p.lost \/ o.db.p.store = h.p.store
          /\ o.ok => o.db.p.store = h.p.seen /\ o.db.p.seen = h.p.seen /\ ~o.db.p.failed
      BY <1>2, <1>3, <1>6, CommitIs
    <2>2. h' \in HandlesOf(V, V) /\ h'.invalid = h.invalid
      BY <1>6, <2>1 DEF Results
    <2>3. /\ raised' => h'.p.lost \/ h'.p.store = base'
          /\ ~raised' => h'.p.seen = expect' /\ ~h'.p.failed /\ h'.p.store = h'.p.seen
      BY <1>1, <1>2, <1>6, <2>1
    <2>4. QED  BY <1>1, <1>6, <2>2, <2>3, JudgedStep
  <1>7. CASE ~failed /\ h' = h /\ result' = "success"
    <2>1. h' \in HandlesOf(V, V) /\ h'.invalid = h.invalid /\ h'.p.store = base'
          /\ h'.p.seen = expect' /\ ~h'.p.failed /\ InTransaction(h'.p)
      BY <1>1, <1>2, <1>3, <1>7
    <2>2. QED  BY <1>1, <1>7, <2>1, JudgedStep
  <1>8. ASSUME NEW o \in {Err(h, 0)} \cup Commit(h), result' = "success", raised', ~o.ok,
               h' = o.db \/ \E q \in Rollback(o.db) : h' = q.db
        PROVE  RunInv'
    <2>1. /\ o.db \in HandlesOf(V, V) /\ o.db.invalid = h.invalid
          /\ o.db.p.lost \/ o.db.p.store = h.p.store
      <3>1. CASE o = Err(h, 0)
        BY <1>3, <3>1 DEF Err
      <3>2. CASE o \in Commit(h)
        <4>1. /\ o \in Results(V, V) /\ o.db.invalid = h.invalid
              /\ o.db.p.lost \/ o.db.p.store = h.p.store
          BY <1>3, <1>8, <3>2, CommitIs
        <4>2. QED  BY <4>1 DEF Results
      <3>3. QED  BY <3>1, <3>2
    <2>2. /\ h' \in HandlesOf(V, V) /\ h'.invalid = h.invalid
          /\ h'.p.lost \/ h'.p.store = h.p.store
      <3>1. CASE \E q \in Rollback(o.db) : h' = q.db
        <4>1. PICK q \in Rollback(o.db) : h' = q.db
          BY <3>1
        <4>2. q \in Results(V, V) /\ Same(V, o.db.p, q.db.p) /\ q.db.invalid = o.db.invalid
          BY <2>1, <4>1, RollbackIs
        <4>3. QED  BY <2>1, <4>1, <4>2 DEF Same, Results
      <3>2. QED  BY <1>8, <2>1, <3>1
    <2>3. QED  BY <1>1, <1>2, <1>8, <2>2, JudgedStep
  <1>9. QED  BY <1>4, <1>5, <1>6, <1>7, <1>8

\* The context ends: what was judged becomes durable or is undone.
LEMMA StepExit ==
  ASSUME RunInv, Exit
  PROVE  RunInv'
  <1>1. PICK o \in ContextExit(h, raised) :
          /\ h' = Dropped(o.db)
          /\ result' = IF raised THEN IF driver = "capture" THEN "stopped" ELSE "failed"
                       ELSE IF o.ok \/ result = "failed" THEN result ELSE "unclear"
    BY Zenon DEF Exit
  <1>2. phase = "exit" /\ phase' = "idle" /\ driver' = "none" /\ base' = base /\ expect' = expect
    BY Zenon DEF Exit, aux
  <1>3. FailedRunStoresNothing' /\ ("capture" \notin Collectors => SuccessIsStored')
    <2>1. CASE driver = "capture"
      BY <1>1, <1>2, <2>1 DEF RunInv, CollectInv, FailedRunStoresNothing, SuccessIsStored
    <2>2. CASE driver # "capture"
      <3>1. driver \in Collectors /\ Single
        BY <1>2, <2>2, CollectAssumption DEF RunInv, CollectInv, Single
      <3>2. PICK V : h \in HandlesOf(V, V)
        BY <3>1 DEF RunInv
      <3>3. /\ ~h.invalid
            /\ raised \/ result = "failed" => h.p.lost \/ h.p.store = base
            /\ ~raised /\ result = "failed" => h.p.seen = h.p.store
            /\ ~raised /\ result = "success" =>
                 /\ h.p.seen = expect /\ ~h.p.failed
                 /\ InTransaction(h.p) \/ h.p.store = h.p.seen
        BY <1>2, <3>1 DEF RunInv, CollectInv, JudgedFirst
      <3>4. /\ o \in Results(V, V)
            /\ raised => o.db.p.store = h.p.store /\ o.db.p.lost = h.p.lost
            /\ h.p.seen = h.p.store => o.db.p.store = h.p.store /\ o.db.p.lost = h.p.lost
            /\ ~raised /\ o.ok /\ ~h.invalid /\ ~h.p.failed
                 /\ (InTransaction(h.p) \/ h.p.store = h.p.seen)
                 => o.db.p.store = h.p.seen
        BY <1>1, <3>2, ContextExitIs
      <3>5. h'.p.store = o.db.p.store /\ h'.p.lost = o.db.p.lost
        BY <1>1, <3>4, DroppedIs DEF Results
      <3>6. result' = "failed" => raised \/ (~raised /\ result = "failed")
        BY <1>1
      <3>7. result' = "success" => ~raised /\ o.ok /\ result = "success"
        BY <1>1, <2>2
      <3>8. FailedRunStoresNothing'
        BY <1>2, <3>3, <3>4, <3>5, <3>6 DEF FailedRunStoresNothing
      <3>9. SuccessIsStored'
        BY <1>2, <3>3, <3>4, <3>5, <3>7 DEF SuccessIsStored
      <3>10. QED  BY <3>8, <3>9
    <2>3. QED  BY <2>1, <2>2
  <1>4. QED
    BY <1>2, <1>3 DEF RunInv, CollectInv, Single, Busy, InsideOneTransaction, JudgedFirst

\* A crashed run reports nothing.
LEMMA StepCrash ==
  ASSUME RunInv, Crash
  PROVE  RunInv'
  <1>1. phase' = "idle" /\ driver' = "none" /\ result' = "crashed"
    BY DEF Crash
  <1>2. QED
    BY <1>1 DEF RunInv, CollectInv, Single, Busy, InsideOneTransaction, JudgedFirst,
       FailedRunStoresNothing, SuccessIsStored

\* Every step preserves the invariant.
LEMMA StepRunInv == RunInv /\ Typed(h) /\ [Next]_vars => RunInv'
  <1> SUFFICES ASSUME RunInv, Typed(h), [Next]_vars  PROVE RunInv'
    OBVIOUS
  <1>1. CASE Start
    BY <1>1, StepStart
  <1>2. CASE Select \/ Collect \/ FinishCapture
    BY <1>2, CaptureSteps
  <1>3. CASE OpenData \/ OpenNoData \/ Gather \/ EndResponse
    BY <1>3, QuietSteps
  <1>4. CASE OpenFails \/ ReadFails
    BY <1>4, FailSteps
  <1>5. CASE Clear
    BY <1>5, StepClear
  <1>6. CASE Row
    BY <1>6, StepRow
  <1>7. CASE FinishSpecs \/ FinishSpec \/ FinishRun
    BY <1>7, FinishSteps
  <1>8. CASE Exit
    BY <1>8, StepExit
  <1>9. CASE Crash
    BY <1>9, StepCrash
  <1>10. CASE UNCHANGED vars
    <2>1. UNCHANGED <<h, driver, phase, failed, raised, result, base, expect>>
      BY <1>10 DEF vars, job, aux
    <2>2. QED
      BY <2>1, Zenon DEF RunInv, CollectInv, Single, Busy, InsideOneTransaction, JudgedFirst,
         FailedRunStoresNothing, SuccessIsStored
  <1>11. QED
    BY <1>1, <1>2, <1>3, <1>4, <1>5, <1>6, <1>7, <1>8, <1>9, <1>10 DEF Next

-----------------------------------------------------------------------------
(***************************************************************************)
(* Odds of responses read to their end: the statements a collector runs     *)
(* store odds of what it has read or is reading, so that the rows its      *)
(* connection sees, and those a commit makes durable, are of those alone.  *)
(***************************************************************************)

\* Rows, of which the odds are of the publications W.
Published == Places \X Nat
Rows(W) ==
    {c \in [Places -> UNION {[Cells(kind) -> Nat] : kind \in Kinds}] :
        \A e \in Places :
            /\ c[e] \in [Cells(e[1]) -> Nat]
            /\ e[1] \in Odds => \A r \in Have(c[e]) : <<e, r[1]>> \in W}

\* Statements about one row that store such odds, and all that do.
Lines(W) ==
    {s \in [do : {"put", "erase"}, flaw : {"none", "nokey", "header"}, place : Places,
            slot : Slots, pub : Nat, value : Nat] :
        /\ <<s.pub, s.slot>> \in Cells(s.place[1])
        /\ s.place[1] \in Odds /\ s.do = "put" => <<s.place, s.pub>> \in W}
Stores(W, s) ==
    \/ s \in Lines(W)
    \/ s.do = "clear" /\ s.place \in Places
    \/ s.do = "many" /\ \A x \in s.rows : x \in Lines(W) /\ x.do = "put"

\* The least of some numbers.
LEMMA MinIs ==
  ASSUME NEW S \in SUBSET Nat, S # {}
  PROVE  Min(S) \in S
  <1> DEFINE R == OpToRel(<, Nat)
  <1>1. IsWellFoundedOn(R, Nat)
    BY NatLessThanWellFounded
  <1>2. \A x, y \in Nat : <<y, x>> \in R <=> y < x
    BY DEF OpToRel
  <1> HIDE DEF R
  <1>3. \E x \in S : \A y \in S : ~ (<<y, x>> \in R)
    BY <1>1, WFMin
  <1>4. PICK x \in S : \A y \in S : ~ (<<y, x>> \in R)
    BY <1>3
  <1>5. ASSUME NEW y \in S PROVE x =< y
    <2>1. x \in Nat /\ y \in Nat /\ ~ (y < x)
      BY <1>2, <1>4
    <2>2. QED  BY <2>1
  <1>6. QED  BY <1>5, Zenon DEF Min

\* The earlier CollectedAt.
LEMMA FirstIs ==
  ASSUME NEW old \in Nat, NEW new \in Nat
  PROVE  First(old, new) \in Nat
  <1>1. {old, new} \in SUBSET Nat /\ {old, new} # {}
    OBVIOUS
  <1>2. Min({old, new}) \in {old, new}
    BY <1>1, MinIs
  <1>3. QED  BY <1>2 DEF First

\* Kinds of places and of cells.
LEMMA CellsOf ==
  ASSUME NEW e \in Places
  PROVE  /\ e[1] \in Kinds /\ e[2] \in Keys /\ e = <<e[1], e[2]>>
         /\ \A r \in Cells(e[1]) : r = <<r[1], r[2]>> /\ r[1] \in Nat
  <1>1. MaxVersion \in Nat
    BY CollectAssumption
  <1>2. QED  BY <1>1 DEF Places, Cells

\* One cell of rows is given a value.
LEMMA CellIsPut ==
  ASSUME NEW W, NEW c \in Rows(W), NEW e \in Places, NEW r \in Cells(e[1]), NEW v \in Nat,
         e[1] \in Odds /\ v # 0 => <<e, r[1]>> \in W,
         NEW d, d = [c EXCEPT ![e][r] = v]
  PROVE  d \in Rows(W)
  <1> DEFINE x == [c[e] EXCEPT ![r] = v]
             T == UNION {[Cells(kind) -> Nat] : kind \in Kinds}
  <1>1. e[1] \in Kinds
    BY CellsOf
  <1>2. c \in [Places -> T] /\ c[e] \in [Cells(e[1]) -> Nat]
    BY DEF Rows
  <1>3. x \in [Cells(e[1]) -> Nat] /\ x[r] = v /\ \A q \in Cells(e[1]) : q # r => x[q] = c[e][q]
    BY <1>2
  <1>4. x \in T
    BY <1>1, <1>3
  <1>5. d = [c EXCEPT ![e] = x]
    OBVIOUS
  <1> HIDE DEF x, T
  <1>6. d \in [Places -> T] /\ d[e] = x /\ \A f \in Places : f # e => d[f] = c[f]
    BY <1>2, <1>4, <1>5
  <1>7. ASSUME NEW f \in Places
        PROVE  /\ d[f] \in [Cells(f[1]) -> Nat]
               /\ f[1] \in Odds => \A q \in Have(d[f]) : <<f, q[1]>> \in W
    <2>1. CASE f = e
      <3>1. ASSUME e[1] \in Odds, NEW q \in Have(x) PROVE <<e, q[1]>> \in W
        <4>1. q \in Cells(e[1]) /\ x[q] # 0
          BY <1>3 DEF Have
        <4>2. CASE q = r
          BY <1>3, <3>1, <4>1, <4>2
        <4>3. CASE q # r
          <5>1. q \in Have(c[e])
            BY <1>2, <1>3, <4>1, <4>3 DEF Have
          <5>2. QED  BY <3>1, <5>1 DEF Rows
        <4>4. QED  BY <4>2, <4>3
      <3>2. QED  BY <1>3, <1>6, <2>1, <3>1
    <2>2. CASE f # e
      BY <1>6, <2>2 DEF Rows
    <2>3. QED  BY <2>1, <2>2
  <1>8. QED  BY <1>6, <1>7 DEF Rows, T

\* The rows of a place are given other values.
LEMMA RowsAre ==
  ASSUME NEW W, NEW c \in Rows(W), NEW d, DOMAIN d = Places, d = [e \in Places |-> d[e]],
         \A e \in Places :
            /\ d[e] \in [Cells(e[1]) -> Nat]
            /\ e[1] \in Odds => \A r \in Have(d[e]) : r \in Have(c[e]) \/ <<e, r[1]>> \in W
  PROVE  d \in Rows(W)
  <1> DEFINE T == UNION {[Cells(kind) -> Nat] : kind \in Kinds}
  <1>1. ASSUME NEW e \in Places PROVE d[e] \in T
    <2>1. e[1] \in Kinds
      BY CellsOf
    <2>2. QED  BY <2>1
  <1>2. d \in [Places -> T]
    <2> HIDE DEF T
    <2>1. QED  BY <1>1
  <1> HIDE DEF T
  <1>3. ASSUME NEW e \in Places, e[1] \in Odds, NEW r \in Have(d[e]) PROVE <<e, r[1]>> \in W
    BY <1>3 DEF Rows
  <1>4. QED  BY <1>2, <1>3 DEF Rows, T

\* No rows.
LEMMA EmptyIs ==
  ASSUME NEW W
  PROVE  Empty \in Rows(W)
  <1>1. ASSUME NEW e \in Places
        PROVE  Empty[e] = [r \in Cells(e[1]) |-> 0] /\ e[1] \in Kinds
    BY CellsOf DEF Empty
  <1>2. ASSUME NEW e \in Places
        PROVE  Empty[e] \in [Cells(e[1]) -> Nat] /\ Have(Empty[e]) = {}
    <2>1. Empty[e] = [r \in Cells(e[1]) |-> 0]
      BY <1>1
    <2>2. QED  BY <2>1 DEF Have
  <1> DEFINE T == UNION {[Cells(kind) -> Nat] : kind \in Kinds}
  <1>3. \A e \in Places : Empty[e] \in T
    BY <1>1, <1>2
  <1> HIDE DEF T
  <1>4. Empty = [e \in Places |-> Empty[e]]
    BY DEF Empty
  <1>5. Empty \in [Places -> T]
    BY <1>3, <1>4
  <1>6. QED  BY <1>2, <1>5 DEF Rows, T

\* A statement leaves rows of the same publications.
LEMMA ApplyIsRows ==
  ASSUME NEW W, NEW c \in Rows(W), NEW s, Stores(W, s), NEW d
  PROVE  Apply(d, c, s) \in Rows(W)
  <1>1. CASE s \in Lines(W)
    <2> DEFINE e == s.place
               r == <<s.pub, s.slot>>
    <2>1. /\ s.do \in {"put", "erase"} /\ e \in Places /\ r \in Cells(e[1]) /\ s.value \in Nat
          /\ e[1] \in Odds /\ s.do = "put" => <<e, s.pub>> \in W
      BY <1>1 DEF Lines
    <2>2. r[1] = s.pub
      OBVIOUS
    <2>3. c[e] \in [Cells(e[1]) -> Nat]
      BY <2>1 DEF Rows
    <2>4. c[e][r] \in Nat
      BY <2>1, <2>3
    <2>5. CASE s.do = "put"
      <3> DEFINE v == IF e[1] \in Odds THEN First(c[e][r], s.value) ELSE s.value
      <3>1. v \in Nat
        BY <2>1, <2>4, FirstIs
      <3>2. Apply(d, c, s) = [c EXCEPT ![e][r] = v]
        BY <2>5 DEF Apply
      <3>3. e[1] \in Odds => <<e, r[1]>> \in W
        BY <2>1, <2>2, <2>5
      <3> HIDE DEF v, e, r
      <3>4. QED  BY <2>1, <3>1, <3>2, <3>3, CellIsPut
    <2>6. CASE s.do = "erase"
      <3>1. Apply(d, c, s) = [c EXCEPT ![e][r] = 0]
        BY <2>6 DEF Apply
      <3> HIDE DEF e, r
      <3>2. QED  BY <2>1, <3>1, CellIsPut
    <2>7. QED  BY <2>1, <2>5, <2>6
  <1>2. CASE s.do = "clear" /\ s.place \in Places
    <2> DEFINE a == Apply(d, c, s)
    <2>1. a = [c EXCEPT ![s.place] = Empty[s.place]]
      BY <1>2 DEF Apply
    <2>2. c \in [Places -> UNION {[Cells(kind) -> Nat] : kind \in Kinds}]
      BY DEF Rows
    <2> HIDE DEF a
    <2>3. DOMAIN a = Places /\ a = [e \in Places |-> a[e]]
      BY <2>1, <2>2
    <2>4. ASSUME NEW e \in Places
          PROVE  /\ a[e] \in [Cells(e[1]) -> Nat]
                 /\ e[1] \in Odds => \A r \in Have(a[e]) : r \in Have(c[e]) \/ <<e, r[1]>> \in W
      <3>1. Empty \in Rows(W)
        BY EmptyIs
      <3>2. a[e] = Empty[e] \/ a[e] = c[e]
        BY <2>1, <2>2
      <3>3. CASE a[e] = Empty[e]
        BY <3>1, <3>3 DEF Rows
      <3>4. CASE a[e] = c[e]
        BY <3>4 DEF Rows
      <3>5. QED  BY <3>2, <3>3, <3>4
    <2>5. a \in Rows(W)
      BY <2>3, <2>4, RowsAre
    <2>6. QED  BY <2>5 DEF a
  <1>3. CASE s.do = "many" /\ \A x \in s.rows : x \in Lines(W) /\ x.do = "put"
    <2> DEFINE Got(e, r) == {x.value : x \in {y \in s.rows : y.place = e /\ <<y.pub, y.slot>> = r}}
               v(e, r) == IF Got(e, r) = {} THEN c[e][r] ELSE First(c[e][r], Min(Got(e, r)))
               a == [e \in Places |-> [r \in Cells(e[1]) |-> v(e, r)]]
    <2>1. Apply(d, c, s) = a
      BY <1>3 DEF Apply
    <2>2. ASSUME NEW e \in Places, NEW r \in Cells(e[1])
          PROVE  /\ v(e, r) \in Nat
                 /\ v(e, r) # c[e][r] => (e[1] \in Odds => <<e, r[1]>> \in W)
      <3>1. c[e] \in [Cells(e[1]) -> Nat]
        BY DEF Rows
      <3>2. c[e][r] \in Nat
        BY <3>1
      <3>3. CASE Got(e, r) = {}
        BY <3>2, <3>3
      <3>4. CASE Got(e, r) # {}
        <4>1. Got(e, r) \in SUBSET Nat
          BY <1>3 DEF Lines
        <4>2. PICK x \in s.rows : x.place = e /\ <<x.pub, x.slot>> = r
          BY <3>4
        <4>3. e[1] \in Odds => <<e, r[1]>> \in W
          BY <1>3, <4>2 DEF Lines
        <4> HIDE DEF Got
        <4>4. Min(Got(e, r)) \in Nat
          BY <3>4, <4>1, MinIs
        <4>5. QED  BY <3>2, <3>4, <4>3, <4>4, FirstIs
      <3>5. QED  BY <3>3, <3>4
    <2> HIDE DEF Got, v
    <2>3. DOMAIN a = Places /\ \A e \in Places : a[e] = [r \in Cells(e[1]) |-> v(e, r)]
      OBVIOUS
    <2>4. a = [e \in Places |-> a[e]]
      OBVIOUS
    <2> HIDE DEF a
    <2>5. ASSUME NEW e \in Places
          PROVE  /\ a[e] \in [Cells(e[1]) -> Nat]
                 /\ e[1] \in Odds => \A r \in Have(a[e]) : r \in Have(c[e]) \/ <<e, r[1]>> \in W
      <3>1. c[e] \in [Cells(e[1]) -> Nat]
        BY DEF Rows
      <3>2. a[e] = [r \in Cells(e[1]) |-> v(e, r)]
        BY <2>3
      <3>3. a[e] \in [Cells(e[1]) -> Nat]
        BY <2>2, <3>2
      <3>4. ASSUME e[1] \in Odds, NEW r \in Have(a[e]) PROVE r \in Have(c[e]) \/ <<e, r[1]>> \in W
        <4>1. r \in Cells(e[1]) /\ v(e, r) # 0
          BY <3>2 DEF Have
        <4>2. CASE v(e, r) = c[e][r]
          BY <3>1, <4>1, <4>2 DEF Have
        <4>3. QED  BY <2>2, <3>4, <4>1, <4>2
      <3>5. QED  BY <3>3, <3>4
    <2>6. a \in Rows(W)
      BY <2>3, <2>4, <2>5, RowsAre
    <2>7. QED  BY <2>1, <2>6
  <1>4. QED  BY <1>1, <1>2, <1>3 DEF Stores

\* Sets of rows that a statement does not leave.
Keeps(V, s) == \A c \in V : \A d : Apply(d, c, s) \in V

\* An outcome after another, of a session or of a handle.
LEMMA CarriedIs ==
  ASSUME NEW V, NEW e \in Outcomes(V), NEW q \in Outcomes(V), NEW o,
         o = [q EXCEPT !.faults = @ + e.faults] \/ o = Err(q.db, e.faults + q.faults)
  PROVE  o \in Outcomes(V)
  <1>1. e.faults \in Nat /\ q.faults \in Nat /\ q.db \in Sessions(V) /\ q.ok \in BOOLEAN
    BY DEF Outcomes
  <1> DEFINE n == q.faults + e.faults
  <1>2. n \in Nat
    BY <1>1
  <1>3. CASE o = [q EXCEPT !.faults = @ + e.faults]
    <2>1. o = [q EXCEPT !.faults = n]
      BY <1>3
    <2> HIDE DEF n
    <2>2. QED  BY <1>2, <2>1 DEF Outcomes
  <1>4. CASE o = Err(q.db, e.faults + q.faults)
    BY <1>1, <1>4 DEF Outcomes, Err
  <1>5. QED  BY <1>3, <1>4

\* An outcome after another is one, with the faults of both.
LEMMA AfterIs ==
  ASSUME NEW V, NEW S, NEW e \in Results(V, S), NEW q \in Results(V, S), NEW o,
         o = [q EXCEPT !.faults = @ + e.faults] \/ o = Err(q.db, e.faults + q.faults)
  PROVE  o \in Results(V, S)
  <1>1. e.faults \in Nat
    BY DEF Results
  <1>2. CASE o = [q EXCEPT !.faults = @ + e.faults]
    BY <1>1, <1>2, CountedIs
  <1>3. CASE o = Err(q.db, e.faults + q.faults)
    BY <1>3 DEF Results, Err
  <1>4. QED  BY <1>2, <1>3

\* An outcome is Ok or Err of a handle.
LEMMA PlainIs ==
  ASSUME NEW V, NEW S, NEW hd \in HandlesOf(V, S), NEW n \in Nat
  PROVE  Ok(hd, n) \in Results(V, S) /\ Err(hd, n) \in Results(V, S)
  BY DEF Results, Ok, Err

\* An insert of many rows sees and stores what its statement makes of them,
\* whether or not it is a transaction of its own.
LEMMA InsertsMany ==
  ASSUME NEW V, NEW b \in Sessions(V), NEW s, Keeps(V, s), NEW o \in insert_many(b, s)
  PROVE  o \in Outcomes(V)
  <1> DEFINE Body(x) == execute(x, s)
             One == begin_transaction(b)
             Two == Then(One, Body)
             Three == Then(Two, commit)
             Undo(x) == IF has_pending_transaction(x) THEN rollback(x) ELSE {Ok(x, 0)}
  <1>1. ASSUME NEW c \in Sessions(V), NEW e \in execute(c, s) PROVE e \in Outcomes(V)
    <2>1. Apply(c.driver, c.seen, s) \in V
      BY DEF Keeps, Sessions
    <2>2. QED  BY <1>1, <2>1, Executes
  <1>2. ASSUME NEW e \in One PROVE e \in Outcomes(V)
    BY <1>2, Begins
  <1>3. \A e \in Two : \/ e \in One
                       \/ \E d \in One : \E q \in execute(d.db, s) : e = [q EXCEPT !.faults = @ + d.faults]
    BY Zenon DEF Then
  <1> HIDE DEF Two
  <1>4. \A e \in Three : \/ e \in Two
                         \/ \E d \in Two : \E q \in commit(d.db) : e = [q EXCEPT !.faults = @ + d.faults]
    BY Zenon DEF Then
  <1> HIDE DEF Three
  <1>5. \A e \in Handling(Three, Undo) :
           \/ e \in Three
           \/ \E d \in Three : \E q \in Undo(d.db) : e = Err(q.db, d.faults + q.faults)
    BY Zenon DEF Handling
  <1>6. o \in execute(b, s) \/ o \in Handling(Three, Undo)
    BY Zenon DEF insert_many, One, Two, Three
  <1>7. \A d \in Outcomes(V) : d.db \in Sessions(V)
    BY DEF Outcomes
  <1> HIDE DEF One
  <1>8. ASSUME NEW e \in Two PROVE e \in Outcomes(V)
    <2>1. CASE \E d \in One : \E q \in execute(d.db, s) : e = [q EXCEPT !.faults = @ + d.faults]
      <3>1. PICK d \in One : \E q \in execute(d.db, s) : e = [q EXCEPT !.faults = @ + d.faults]
        BY <2>1
      <3>2. PICK q \in execute(d.db, s) : e = [q EXCEPT !.faults = @ + d.faults]
        BY <3>1
      <3>3. d \in Outcomes(V) /\ q \in Outcomes(V)
        BY <1>1, <1>2, <1>7, <3>2
      <3>4. QED  BY <3>2, <3>3, CarriedIs
    <2>2. QED  BY <1>2, <1>3, <1>8, <2>1
  <1>9. ASSUME NEW e \in Three PROVE e \in Outcomes(V)
    <2>1. CASE \E d \in Two : \E q \in commit(d.db) : e = [q EXCEPT !.faults = @ + d.faults]
      <3>1. PICK d \in Two : \E q \in commit(d.db) : e = [q EXCEPT !.faults = @ + d.faults]
        BY <2>1
      <3>2. PICK q \in commit(d.db) : e = [q EXCEPT !.faults = @ + d.faults]
        BY <3>1
      <3>3. d \in Outcomes(V) /\ d.db \in Sessions(V)
        BY <1>7, <1>8
      <3>4. q \in Outcomes(V)
        BY <3>2, <3>3, Commits
      <3>5. QED  BY <3>2, <3>3, <3>4, CarriedIs
    <2>2. QED  BY <1>4, <1>8, <1>9, <2>1
  <1>10. ASSUME NEW c \in Sessions(V), NEW e \in Undo(c) PROVE e \in Outcomes(V)
    <2>1. CASE e \in rollback(c)
      BY <2>1, RollsBack
    <2>2. CASE e = Ok(c, 0)
      BY <2>2 DEF Outcomes, Ok
    <2>3. QED  BY <1>10, <2>1, <2>2
  <1> HIDE DEF Undo
  <1>11. ASSUME NEW d \in Three, NEW q \in Undo(d.db), o = Err(q.db, d.faults + q.faults)
         PROVE  o \in Outcomes(V)
    <2>1. d \in Outcomes(V) /\ d.db \in Sessions(V)
      BY <1>7, <1>9
    <2>2. q \in Outcomes(V)
      BY <1>10, <1>11, <2>1
    <2>3. QED  BY <1>11, <2>1, <2>2, CarriedIs
  <1>12. QED  BY <1>1, <1>5, <1>6, <1>9, <1>11

\* The same on both databases.
LEMMA InsertManyIs ==
  ASSUME NEW V, NEW S, NEW hd \in HandlesOf(V, S), NEW s, Keeps(V, s), Keeps(S, s),
         NEW o \in InsertMany(hd, s)
  PROVE  o \in Results(V, S)
  <1> DEFINE F(b) == insert_many(b, s)
             Second(g) ==
               {IF e.ok THEN e ELSE [e EXCEPT !.db = OutOfSync(e.db), !.ok = ~g.active]
                : e \in OnSecondary(g, F)}
             Both(g) == IF hd.dual THEN Second(g) ELSE {Ok(g, 0)}
  <1>1. o \in Then(OnPrimary(hd, F), LAMBDA g : IF hd.dual THEN Second(g) ELSE {Ok(g, 0)})
    BY Zenon DEF InsertMany, Mirrored
  <1>2. ASSUME NEW e \in OnPrimary(hd, F)
        PROVE  e \in Results(V, S)
    <2>1. PICK q \in insert_many(hd.p, s) : FromPrimary(hd, q, e)
      BY <1>2, Zenon DEF OnPrimary, FromPrimary
    <2>2. hd.p \in Sessions(V)
      BY DEF HandlesOf
    <2>3. q \in Outcomes(V)
      BY <2>1, <2>2, InsertsMany
    <2>4. QED  BY <2>1, <2>3, OnPrimaryIs
  <1>3. ASSUME NEW g \in HandlesOf(V, S), NEW e \in Second(g)
        PROVE  e \in Results(V, S)
    <2>1. PICK d \in OnSecondary(g, F) :
            e = IF d.ok THEN d ELSE [d EXCEPT !.db = OutOfSync(d.db), !.ok = ~g.active]
      BY <1>3, Zenon
    <2>2. PICK q \in insert_many(g.s, s) : FromSecondary(g, q, d)
      BY <2>1, Zenon DEF OnSecondary, FromSecondary
    <2>3. g.s \in Sessions(S)
      BY DEF HandlesOf
    <2>4. q \in Outcomes(S)
      BY <2>2, <2>3, InsertsMany
    <2>5. d \in Results(V, S)
      BY <2>2, <2>4, OnSecondaryIs
    <2>6. d.db \in HandlesOf(V, S)
      BY <2>5 DEF Results
    <2> DEFINE k == OutOfSync(d.db)
               x == ~g.active
    <2>7. k \in HandlesOf(V, S) /\ x \in BOOLEAN
      <3>1. Fronts(V, S, d.db, d.db.p, k)
        BY <2>6, OutOfSyncIs, Zenon
      <3>2. QED  BY <3>1 DEF Fronts
    <2> HIDE DEF k, x
    <2>8. CASE d.ok
      BY <2>1, <2>5, <2>8
    <2>9. CASE ~d.ok
      <3>1. e = [d EXCEPT !.db = k, !.ok = x]
        BY <2>1, <2>9 DEF k, x
      <3>2. QED  BY <2>5, <2>7, <3>1, Zenon DEF Results
    <2>10. QED  BY <2>8, <2>9
  <1> HIDE DEF Second, F
  <1>4. \/ o \in OnPrimary(hd, F)
        \/ \E e \in OnPrimary(hd, F) :
             \E d \in (IF hd.dual THEN Second(e.db) ELSE {Ok(e.db, 0)}) :
                  o = [d EXCEPT !.faults = @ + e.faults]
    BY <1>1, Zenon DEF Then
  <1>5. ASSUME NEW e \in OnPrimary(hd, F),
               NEW d \in (IF hd.dual THEN Second(e.db) ELSE {Ok(e.db, 0)}),
               o = [d EXCEPT !.faults = @ + e.faults]
        PROVE  o \in Results(V, S)
    <2>1. e \in Results(V, S) /\ e.db \in HandlesOf(V, S)
      BY <1>2 DEF Results
    <2>2. CASE hd.dual
      <3>1. d \in Results(V, S)
        BY <1>3, <1>5, <2>1, <2>2, Zenon
      <3>2. QED  BY <1>5, <2>1, <3>1, AfterIs
    <2>3. CASE ~hd.dual
      <3>1. d = Ok(e.db, 0)
        BY <1>5, <2>3
      <3>2. d \in Results(V, S)
        BY <2>1, <3>1, PlainIs
      <3>3. QED  BY <1>5, <2>1, <3>2, AfterIs
    <2>4. QED  BY <2>2, <2>3
  <1>6. QED  BY <1>2, <1>4, <1>5

\* A transaction that is active already is not begun again.
LEMMA BeginStays ==
  ASSUME NEW V, NEW S, NEW hd \in HandlesOf(V, S), NEW o \in Begin(hd)
  PROVE  o \in Results(V, S)
  <1>1. CASE is_transaction_active(hd)
    <2>1. o = Ok(hd, 0)
      BY <1>1, Zenon DEF Begin
    <2>2. QED  BY <2>1, PlainIs
  <1>2. QED  BY <1>1, BeginIs

\* A connection that cannot roll back is dropped.
LEMMA RollbackFailedImportIs ==
  ASSUME NEW V, NEW S, NEW hd \in HandlesOf(V, S), NEW o \in RollbackFailedImport(hd)
  PROVE  o \in Results(V, S)
  <1>1. PICK e \in Rollback(hd) :
          \/ o = e
          \/ \E q \in Invalidate(e.db) : o = [q EXCEPT !.faults = @ + e.faults]
    BY Zenon DEF RollbackFailedImport
  <1>2. e \in Results(V, S) /\ e.db \in HandlesOf(V, S)
    <2>1. e \in Results(V, S)
      BY RollbackIs
    <2>2. QED  BY <2>1 DEF Results
  <1>3. CASE \E q \in Invalidate(e.db) : o = [q EXCEPT !.faults = @ + e.faults]
    <2>1. PICK q \in Invalidate(e.db) : o = [q EXCEPT !.faults = @ + e.faults]
      BY <1>3
    <2>2. PICK d \in Disconnect(e.db) : q = [d EXCEPT !.db.invalid = ~is_connected(d.db)]
      BY Zenon DEF Invalidate
    <2>3. d \in Results(V, S)
      BY <1>2, DisconnectIs
    <2> DEFINE x == ~is_connected(d.db)
               k == [d.db EXCEPT !.invalid = x]
    <2>4. q = [d EXCEPT !.db = k]
      BY <2>2
    <2>5. x \in BOOLEAN /\ d.db \in HandlesOf(V, S)
      BY <2>3 DEF Results
    <2> HIDE DEF x
    <2>6. k \in HandlesOf(V, S)
      BY <2>5, Zenon DEF HandlesOf
    <2> HIDE DEF k
    <2>7. q \in Results(V, S)
      BY <2>3, <2>4, <2>6, Zenon DEF Results
    <2>8. QED  BY <1>2, <2>1, <2>7, AfterIs
  <1>4. QED  BY <1>1, <1>2, <1>3

\* What holds of 0, and of a number whenever of the one before, holds up to n.
LEMMA UpTo ==
  ASSUME NEW n \in Nat, NEW T, 0 \in T, \A i \in 1..n : i - 1 \in T => i \in T
  PROVE  n \in T
  <1> DEFINE S == {i \in 0..n : i \notin T}
             R == OpToRel(<, Nat)
  <1>1. SUFFICES ASSUME n \notin T PROVE FALSE
    OBVIOUS
  <1> n \in S
    BY <1>1
  <1>2. IsWellFoundedOn(R, Nat)
    BY NatLessThanWellFounded
  <1>3. \A x, y \in Nat : <<y, x>> \in R <=> y < x
    BY DEF OpToRel
  <1> HIDE DEF R
  <1>4. S \subseteq Nat
    OBVIOUS
  <1>5. \E x \in S : \A y \in S : ~ (<<y, x>> \in R)
    BY <1>2, <1>4, WFMin
  <1>6. PICK x \in S : \A y \in S : ~ (y < x)
    BY <1>3, <1>4, <1>5
  <1>7. x \in 0..n /\ x \notin T /\ x # 0
    OBVIOUS
  <1>8. x - 1 \in 0..n /\ x - 1 < x /\ x \in 1..n
    BY <1>7
  <1>9. x - 1 \in T
    BY <1>6, <1>8
  <1>10. QED  BY <1>7, <1>8, <1>9

\* Steps F[<<x, 1>>], ..., F[<<x, n>>] that stay inside a set, and the ways
\* they take.
StaysIn(S, n, F) == \A x \in S : \A i \in 1..n : F[<<x, i>>] \in S
Ways(S, n, b, F) == {g \in [0..n -> S] : g[0] = b /\ \A i \in 1..n : g[i] = F[<<g[i - 1], i>>]}

\* Such steps can be taken one after the other.
LEMMA Iterates ==
  ASSUME NEW S, NEW n \in Nat, NEW b \in S, NEW F, StaysIn(S, n, F)
  PROVE  Ways(S, n, b, F) # {}
  <1> DEFINE Goes(m) == \E g \in [0..m -> S] : g[0] = b /\ \A i \in 1..m : g[i] = F[<<g[i - 1], i>>]
             T == {m \in 0..n : Goes(m)}
  <1>1. Goes(0)
    <2>1. [i \in 0..0 |-> b] \in [0..0 -> S] /\ [i \in 0..0 |-> b][0] = b
      OBVIOUS
    <2>2. 1..0 = {}
      OBVIOUS
    <2>3. QED  BY <2>1, <2>2
  <1>2. ASSUME NEW m \in 0..n, m < n, Goes(m) PROVE Goes(m + 1)
    <2>1. PICK g \in [0..m -> S] : g[0] = b /\ \A i \in 1..m : g[i] = F[<<g[i - 1], i>>]
      BY <1>2
    <2> DEFINE x == F[<<g[m], m + 1>>]
               w == [i \in 0..(m + 1) |-> IF i = m + 1 THEN x ELSE g[i]]
    <2>2. x \in S
      <3>1. g[m] \in S /\ m + 1 \in 1..n
        BY <1>2
      <3>2. QED  BY <3>1 DEF StaysIn
    <2>3. \A i \in 0..m : w[i] = g[i]
      OBVIOUS
    <2>4. w[m + 1] = x
      OBVIOUS
    <2>5. w \in [0..(m + 1) -> S]
      BY <2>2
    <2> HIDE DEF w
    <2>6. w[0] = b
      BY <2>1, <2>3
    <2>7. ASSUME NEW i \in 1..(m + 1) PROVE w[i] = F[<<w[i - 1], i>>]
      <3>1. CASE i = m + 1
        <4>1. i - 1 = m /\ m \in 0..m
          BY <3>1
        <4>2. QED  BY <2>3, <2>4, <3>1, <4>1
      <3>2. CASE i # m + 1
        <4>1. i \in 1..m /\ i \in 0..m /\ i - 1 \in 0..m
          BY <3>2
        <4>2. QED  BY <2>1, <2>3, <4>1
      <3>3. QED  BY <3>1, <3>2
    <2>8. QED  BY <2>5, <2>6, <2>7
  <1>3. 0 \in T
    BY <1>1
  <1>4. ASSUME NEW i \in 1..n, i - 1 \in T PROVE i \in T
    <2>1. Goes(i - 1) /\ i - 1 \in 0..n /\ i - 1 < n /\ (i - 1) + 1 = i
      BY <1>4
    <2> HIDE DEF Goes
    <2>2. Goes(i)
      BY <1>2, <2>1
    <2>3. QED  BY <2>2
  <1>5. n \in T
    <2> HIDE DEF T
    <2>1. QED  BY <1>3, <1>4, UpTo
  <1>6. QED  BY <1>5 DEF Ways

\* Statements that store such odds keep the rows there are.
LEMMA StoresKeep ==
  ASSUME NEW W, NEW s, Stores(W, s)
  PROVE  Keeps(Rows(W), s)
  BY ApplyIsRows DEF Keeps

\* One statement of a batch.
LEMMA StoreIs ==
  ASSUME NEW V, NEW S, NEW hd \in HandlesOf(V, S), NEW s, Keeps(V, s), Keeps(S, s),
         NEW o \in Store(hd, s)
  PROVE  o \in Results(V, S)
  <1>1. CASE o \in InsertMany(hd, s)
    BY <1>1, InsertManyIs
  <1>2. CASE o = Err(hd, 0)
    BY <1>2, PlainIs
  <1>3. CASE o \in Execute(hd, s)
    <2>1. Apply(hd.p.driver, hd.p.seen, s) \in V /\ Apply(hd.s.driver, hd.s.seen, s) \in S
      BY DEF Keeps, HandlesOf, Sessions
    <2>2. QED  BY <1>3, <2>1, ExecuteIs
  <1>4. QED  BY <1>1, <1>2, <1>3 DEF Store

\* Statements in order.
LEMMA InOrderIs ==
  ASSUME NEW V, NEW S, NEW hd \in HandlesOf(V, S), NEW q, Len(q) \in Nat,
         \A i \in 1..Len(q) : Keeps(V, q[i]) /\ Keeps(S, q[i]),
         NEW o \in InOrder(hd, q)
  PROVE  o \in Results(V, S)
  <1> DEFINE n == Len(q)
             b == {Ok(hd, 0)}
             R == SUBSET Results(V, S)
             Next1(x, i) == Then(x, LAMBDA y : Store(y, q[i]))
             F == [x \in R \X (1..n) |-> Next1(x[1], x[2])]

             Goes(f) == f = [i \in 0..n |-> IF i = 0 THEN b ELSE Next1(f[i - 1], i)]
             after == CHOOSE f : Goes(f)
  <1>1. ASSUME NEW x \in R, NEW i \in 1..n PROVE Next1(x, i) \in R
    <2>1. SUFFICES ASSUME NEW e \in Next1(x, i) PROVE e \in Results(V, S)
      OBVIOUS
    <2>2. \/ e \in x
          \/ \E d \in x : \E p \in Store(d.db, q[i]) : e = [p EXCEPT !.faults = @ + d.faults]
      BY <2>1, Zenon DEF Then
    <2>3. CASE \E d \in x : \E p \in Store(d.db, q[i]) : e = [p EXCEPT !.faults = @ + d.faults]
      <3>1. PICK d \in x : \E p \in Store(d.db, q[i]) : e = [p EXCEPT !.faults = @ + d.faults]
        BY <2>3
      <3>2. PICK p \in Store(d.db, q[i]) : e = [p EXCEPT !.faults = @ + d.faults]
        BY <3>1
      <3>3. d \in Results(V, S) /\ d.db \in HandlesOf(V, S)
        BY <3>1 DEF Results
      <3>4. p \in Results(V, S)
        BY <3>2, <3>3, StoreIs
      <3>5. QED  BY <3>2, <3>3, <3>4, AfterIs
    <2>4. QED  BY <2>2, <2>3
  <1>2. o \in after[n]
    BY Zenon DEF InOrder
  <1> HIDE DEF Next1
  <1>3. b \in R
    BY PlainIs
  <1>4. StaysIn(R, n, F)
    BY <1>1 DEF StaysIn
  <1>5. \A x \in R : \A i \in 1..n : F[<<x, i>>] = Next1(x, i)
    OBVIOUS
  <1>6. n \in Nat
    OBVIOUS
  <1> HIDE DEF n, R, F, b
  <1>7. PICK g \in [0..n -> R] : g[0] = b /\ \A i \in 1..n : g[i] = F[<<g[i - 1], i>>]
    <2>1. Ways(R, n, b, F) # {}
      BY <1>3, <1>4, <1>6, Iterates
    <2>2. QED  BY <2>1 DEF Ways
  <1>8. \A i \in 1..n : g[i] = Next1(g[i - 1], i)
    <2>1. \A i \in 1..n : i - 1 \in 0..n
      BY <1>6
    <2>2. QED  BY <1>5, <1>7, <2>1
  <1>9. Goes(g)
    <2>1. \A i \in 0..n : i = 0 \/ i \in 1..n
      BY <1>6
    <2>2. \A i \in 0..n : g[i] = IF i = 0 THEN b ELSE Next1(g[i - 1], i)
      BY <1>7, <1>8, <2>1
    <2>3. QED  BY <1>7, <2>2
  <1>10. Goes(after)
    <2> HIDE DEF Goes
    <2>1. QED  BY <1>9
  <1>11. \A i \in 0..n : after[i] = IF i = 0 THEN b ELSE Next1(after[i - 1], i)
    <2> HIDE DEF after
    <2>1. QED  BY <1>10
  <1> HIDE DEF after
  <1> DEFINE T == {i \in 0..n : after[i] \in R}
  <1>12. 0 \in T
    BY <1>3, <1>6, <1>11
  <1>13. ASSUME NEW i \in 1..n, i - 1 \in T PROVE i \in T
    <2>1. i \in 0..n /\ i # 0
      BY <1>6
    <2>2. QED  BY <1>1, <1>11, <1>13, <2>1
  <1>14. n \in T
    <2> HIDE DEF T
    <2>1. QED  BY ONLY n \in Nat, <1>6, <1>12, <1>13, UpTo, Zenon
  <1>15. QED  BY <1>2, <1>14 DEF R

\* What is stored of more publications.
LEMMA RowsGrow ==
  ASSUME NEW W, NEW X, W \subseteq X
  PROVE  Rows(W) \subseteq Rows(X) /\ Lines(W) \subseteq Lines(X)
  BY DEF Rows, Lines

\* What a statement stores of more publications.
LEMMA StoresGrow ==
  ASSUME NEW W, NEW X, W \subseteq X, NEW s, Stores(W, s)
  PROVE  Stores(X, s)
  BY RowsGrow DEF Stores

\* A handle's rows are among more.
LEMMA HandlesGrow ==
  ASSUME NEW V, NEW S, NEW X, V \subseteq X, NEW hd \in HandlesOf(V, S)
  PROVE  hd \in HandlesOf(X, S)
  <1>1. Sessions(V) \subseteq Sessions(X)
    BY DEF Sessions
  <1>2. QED  BY <1>1 DEF HandlesOf

\* The tables of a batch in some order.
LEMMA InSomeOrder ==
  ASSUME NEW S, IsFiniteSet(S)
  PROVE  SetToSeq(S) \in Seq(S)
  <1>1. Cardinality(S) \in Nat /\ ExistsBijection(1..Cardinality(S), S)
    BY FS_CardinalityType
  <1>2. PICK f \in [1..Cardinality(S) -> S] : \A a, b \in 1..Cardinality(S) : f[a] = f[b] => a = b
    BY <1>1 DEF ExistsBijection, Bijection, Injection, IsInjective
  <1>3. \E g \in [1..Cardinality(S) -> S] : IsInjective(g)
    BY <1>2 DEF IsInjective
  <1>4. SetToSeq(S) \in [1..Cardinality(S) -> S]
    BY <1>3, Zenon DEF SetToSeq
  <1>5. QED  BY <1>1, <1>4

\* A batch of rows stores nothing but odds of the publications of its rows.
LEMMA OrderedBatchIs ==
  ASSUME NEW W, NEW X, W \subseteq X, NEW hd \in HandlesOf(Rows(W), Rows(X)),
         NEW B \in Seq(Lines(W)), NEW o \in OrderedBatch(hd, B)
  PROVE  o \in Results(Rows(W), Rows(X))
  <1> DEFINE V == Rows(W)
             S == Rows(X)
             own == ~Pending(hd)
             Body(x) == IF own THEN Then(InOrder(x, B), Commit) ELSE InOrder(x, B)
             Begun == IF own THEN Begin(hd) ELSE {Ok(hd, 0)}
  <1>1. Len(B) \in Nat /\ \A i \in 1..Len(B) : B[i] \in Lines(W) /\ B[i] \in Lines(X)
    BY RowsGrow
  <1>2. \A i \in 1..Len(B) : Keeps(V, B[i]) /\ Keeps(S, B[i])
    BY <1>1, StoresKeep DEF Stores
  <1>3. \/ o \in Begun
        \/ \E e \in Begun : \E q \in Handling(Body(e.db), RollbackFailedImport) :
             o = [q EXCEPT !.faults = @ + e.faults]
    <2> DEFINE Tried(g) == Handling(Body(g), RollbackFailedImport)
    <2>1. o \in Then(Begun, Tried)
      BY Zenon DEF OrderedBatch
    <2> HIDE DEF Begun, Body
    <2>2. QED  BY <2>1, Zenon DEF Then
  <1> HIDE DEF V, S
  <1>4. hd \in HandlesOf(V, S)
    BY DEF V, S
  <1>5. ASSUME NEW e \in Begun PROVE e \in Results(V, S)
    <2>1. CASE own
      BY <1>4, <1>5, <2>1, BeginStays
    <2>2. CASE ~own
      BY <1>4, <1>5, <2>2, PlainIs
    <2>3. QED  BY <2>1, <2>2
  <1>6. ASSUME NEW g \in HandlesOf(V, S), NEW e \in Body(g) PROVE e \in Results(V, S)
    <2>1. CASE ~own
      <3>1. e \in InOrder(g, B)
        BY <1>6, <2>1
      <3>2. QED  BY <1>1, <1>2, <3>1, InOrderIs
    <2>2. CASE own
      <3>1. \/ e \in InOrder(g, B)
            \/ \E d \in InOrder(g, B) : \E q \in Commit(d.db) : e = [q EXCEPT !.faults = @ + d.faults]
        BY <1>6, <2>2, Zenon DEF Then
      <3>2. CASE \E d \in InOrder(g, B) : \E q \in Commit(d.db) : e = [q EXCEPT !.faults = @ + d.faults]
        <4>1. PICK d \in InOrder(g, B) : \E q \in Commit(d.db) : e = [q EXCEPT !.faults = @ + d.faults]
          BY <3>2
        <4>2. PICK q \in Commit(d.db) : e = [q EXCEPT !.faults = @ + d.faults]
          BY <4>1
        <4>3. d \in Results(V, S)
          BY <1>1, <1>2, <4>1, InOrderIs
        <4>4. q \in Results(V, S)
          BY <4>2, <4>3, CommitIs DEF Results
        <4>5. QED  BY <4>2, <4>3, <4>4, AfterIs
      <3>3. QED  BY <1>1, <1>2, <3>1, <3>2, InOrderIs
    <2>3. QED  BY <2>1, <2>2
  <1> HIDE DEF Body, Begun
  <1>7. ASSUME NEW e \in Begun, NEW q \in Handling(Body(e.db), RollbackFailedImport)
        PROVE  q \in Results(V, S)
    <2>1. e.db \in HandlesOf(V, S)
      BY <1>5 DEF Results
    <2>2. \/ q \in Body(e.db)
          \/ \E d \in Body(e.db) : \E p \in RollbackFailedImport(d.db) : q = Err(p.db, d.faults + p.faults)
      BY <1>7, Zenon DEF Handling
    <2>3. CASE \E d \in Body(e.db) : \E p \in RollbackFailedImport(d.db) : q = Err(p.db, d.faults + p.faults)
      <3>1. PICK d \in Body(e.db) : \E p \in RollbackFailedImport(d.db) : q = Err(p.db, d.faults + p.faults)
        BY <2>3
      <3>2. PICK p \in RollbackFailedImport(d.db) : q = Err(p.db, d.faults + p.faults)
        BY <3>1
      <3>3. d \in Results(V, S) /\ d.db \in HandlesOf(V, S)
        BY <1>6, <2>1, <3>1 DEF Results
      <3>4. p \in Results(V, S)
        BY <3>2, <3>3, RollbackFailedImportIs
      <3>5. QED  BY <3>2, <3>3, <3>4, AfterIs
    <2>4. QED  BY <1>6, <2>1, <2>2, <2>3
  <1>8. o \in Results(V, S)
    <2>1. CASE \E e \in Begun : \E q \in Handling(Body(e.db), RollbackFailedImport) :
                 o = [q EXCEPT !.faults = @ + e.faults]
      <3>1. PICK e \in Begun : \E q \in Handling(Body(e.db), RollbackFailedImport) :
                   o = [q EXCEPT !.faults = @ + e.faults]
        BY <2>1
      <3>2. PICK q \in Handling(Body(e.db), RollbackFailedImport) : o = [q EXCEPT !.faults = @ + e.faults]
        BY <3>1
      <3>3. QED  BY <1>5, <1>7, <3>2, AfterIs
    <2>2. QED  BY <1>3, <1>5, <2>1
  <1>9. QED  BY <1>8 DEF V, S

\* The same of one insert for every table.
LEMMA GroupedBatchIs ==
  ASSUME NEW W, NEW X, W \subseteq X, NEW hd \in HandlesOf(Rows(W), Rows(X)),
         NEW B \in Seq(Lines(W)), \A i \in 1..Len(B) : B[i].do # "erase",
         NEW o \in GroupedBatch(hd, B)
  PROVE  o \in Results(Rows(W), Rows(X))
  <1> DEFINE V == Rows(W)
             S == Rows(X)
             good == {r \in Range(B) : r.flaw = "none"}
             slots == {r.slot : r \in good}
             tables == SetToSeq(slots)
             Many(t) == [do |-> "many", rows |-> {r \in good : r.slot = t}]
             q == [i \in DOMAIN tables |-> Many(tables[i])]
             Body(x) == InOrder(x, q)
             own == ~Pending(hd) /\ good # {}
             All == Owned(own, hd, Body)
  <1>1. \A r \in good : r \in Lines(W) /\ r \in Lines(X) /\ r.do = "put"
    <2>1. \A r \in Lines(W) : r.do \in {"put", "erase"} /\ r \in Lines(X)
      BY RowsGrow DEF Lines
    <2>2. QED  BY <2>1 DEF Range
  <1>2. \A t : Keeps(V, Many(t)) /\ Keeps(S, Many(t))
    <2>1. \A t : Stores(W, Many(t)) /\ Stores(X, Many(t))
      BY <1>1 DEF Stores
    <2> HIDE DEF Many
    <2>2. QED  BY <2>1, StoresKeep
  <1>3. tables \in Seq(slots)
    <2>1. slots \subseteq Slots
      BY <1>1 DEF Lines
    <2>2. IsFiniteSet(slots)
      BY <2>1, CollectAssumption, FS_Subset
    <2>3. QED  BY <2>2, InSomeOrder
  <1>4. PICK e \in Handling(All, RollbackFailedImport) :
          o = [e EXCEPT !.ok = @ /\ good = Range(B)]
    BY Zenon DEF GroupedBatch
  <1> HIDE DEF V, S, good, slots, tables, Many
  <1>5. Len(q) \in Nat /\ \A i \in 1..Len(q) : Keeps(V, q[i]) /\ Keeps(S, q[i])
    <2>1. DOMAIN tables = 1..Len(tables) /\ Len(tables) \in Nat
      BY <1>3
    <2>2. Len(q) = Len(tables) /\ \A i \in 1..Len(tables) : q[i] = Many(tables[i])
      BY <2>1
    <2>3. QED  BY <1>2, <2>1, <2>2
  <1> HIDE DEF q
  <1>6. ASSUME NEW g \in HandlesOf(V, S), NEW d \in Body(g) PROVE d \in Results(V, S)
    BY <1>5, <1>6, InOrderIs
  <1> HIDE DEF Body
  <1>7. hd \in HandlesOf(V, S)
    BY DEF V, S
  <1>8. ASSUME NEW d \in All PROVE d \in Results(V, S)
    <2>1. CASE ~own
      BY <1>6, <1>7, <1>8, <2>1 DEF Owned
    <2>2. CASE own
      <3> DEFINE One == Begin(hd)
                 Two == Then(One, Body)
      <3>1. d \in Then(Two, Commit)
        BY <1>8, <2>2, Zenon DEF Owned
      <3>2. \A x \in Two :
              x \in One \/ \E y \in One : \E p \in Body(y.db) : x = [p EXCEPT !.faults = @ + y.faults]
        BY Zenon DEF Then
      <3> HIDE DEF Two
      <3>3. d \in Two \/ \E x \in Two : \E p \in Commit(x.db) : d = [p EXCEPT !.faults = @ + x.faults]
        BY <3>1, Zenon DEF Then
      <3>4. \A x \in One : x \in Results(V, S)
        BY <1>7, BeginStays
      <3> HIDE DEF One
      <3>5. ASSUME NEW x \in Two PROVE x \in Results(V, S)
        <4>1. CASE \E y \in One : \E p \in Body(y.db) : x = [p EXCEPT !.faults = @ + y.faults]
          <5>1. PICK y \in One : \E p \in Body(y.db) : x = [p EXCEPT !.faults = @ + y.faults]
            BY <4>1
          <5>2. PICK p \in Body(y.db) : x = [p EXCEPT !.faults = @ + y.faults]
            BY <5>1
          <5>3. y \in Results(V, S) /\ y.db \in HandlesOf(V, S)
            BY <3>4 DEF Results
          <5>4. p \in Results(V, S)
            BY <1>6, <5>2, <5>3
          <5>5. QED  BY <5>2, <5>3, <5>4, AfterIs
        <4>2. QED  BY <3>2, <3>4, <3>5, <4>1
      <3>6. CASE \E x \in Two : \E p \in Commit(x.db) : d = [p EXCEPT !.faults = @ + x.faults]
        <4>1. PICK x \in Two : \E p \in Commit(x.db) : d = [p EXCEPT !.faults = @ + x.faults]
          BY <3>6
        <4>2. PICK p \in Commit(x.db) : d = [p EXCEPT !.faults = @ + x.faults]
          BY <4>1
        <4>3. x \in Results(V, S) /\ x.db \in HandlesOf(V, S)
          BY <3>5, <4>1 DEF Results
        <4>4. p \in Results(V, S)
          BY <4>2, <4>3, CommitIs
        <4>5. QED  BY <4>2, <4>3, <4>4, AfterIs
      <3>7. QED  BY <3>3, <3>5, <3>6
    <2>3. QED  BY <2>1, <2>2
  <1> HIDE DEF All
  <1>9. e \in Results(V, S)
    <2>1. \/ e \in All
          \/ \E d \in All : \E p \in RollbackFailedImport(d.db) : e = Err(p.db, d.faults + p.faults)
      BY <1>4, Zenon DEF Handling
    <2>2. CASE \E d \in All : \E p \in RollbackFailedImport(d.db) : e = Err(p.db, d.faults + p.faults)
      <3>1. PICK d \in All : \E p \in RollbackFailedImport(d.db) : e = Err(p.db, d.faults + p.faults)
        BY <2>2
      <3>2. PICK p \in RollbackFailedImport(d.db) : e = Err(p.db, d.faults + p.faults)
        BY <3>1
      <3>3. d \in Results(V, S) /\ d.db \in HandlesOf(V, S)
        BY <1>8, <3>1 DEF Results
      <3>4. p \in Results(V, S)
        BY <3>2, <3>3, RollbackFailedImportIs
      <3>5. QED  BY <3>2, <3>3, <3>4, AfterIs
    <2>3. QED  BY <1>8, <2>1, <2>2
  <1>10. o \in Results(V, S)
    <2> DEFINE x == e.ok /\ good = Range(B)
    <2>1. o = [e EXCEPT !.ok = x] /\ x \in BOOLEAN
      BY <1>4, <1>9 DEF Results
    <2> HIDE DEF x
    <2>2. QED  BY <1>9, <2>1, Zenon DEF Results
  <1>11. QED  BY <1>10 DEF V, S

\* So does what is made of a batch.
LEMMA ProcessBatchIs ==
  ASSUME NEW W, NEW X, W \subseteq X, NEW hd \in HandlesOf(Rows(W), Rows(X)),
         NEW B \in Seq(Lines(W)), NEW o \in ProcessBatch(hd, B)
  PROVE  o \in Results(Rows(W), Rows(X))
  <1>1. CASE B = <<>>
    BY <1>1, PlainIs DEF ProcessBatch
  <1>2. CASE B # <<>> /\ \E i \in DOMAIN B : B[i].flaw = "header"
    <2>1. PICK e \in (IF Pending(hd) THEN {Ok(hd, 0)} ELSE RollbackFailedImport(hd)) :
            o = Err(e.db, e.faults)
      BY <1>2, Zenon DEF ProcessBatch
    <2>2. e \in Results(Rows(W), Rows(X))
      BY <2>1, PlainIs, RollbackFailedImportIs
    <2>3. QED  BY <2>1, <2>2, PlainIs DEF Results
  <1>3. CASE B # <<>> /\ ~\E i \in DOMAIN B : B[i].flaw = "header"
    <2>1. CASE \E i \in DOMAIN B : B[i].do = "erase"
      <3>1. o \in OrderedBatch(hd, B)
        BY <1>3, <2>1, Zenon DEF ProcessBatch
      <3>2. QED  BY <3>1, OrderedBatchIs
    <2>2. CASE ~\E i \in DOMAIN B : B[i].do = "erase"
      <3>1. o \in GroupedBatch(hd, B)
        BY <1>3, <2>2, Zenon DEF ProcessBatch
      <3>2. \A i \in 1..Len(B) : B[i].do # "erase"
        BY <2>2
      <3>3. QED  BY <3>1, <3>2, GroupedBatchIs
    <2>3. QED  BY <2>1, <2>2
  <1>4. QED  BY <1>1, <1>2, <1>3

\* A response is rows of its publication.
LEMMA ResponseIs ==
  ASSUME NEW e \in Places, NEW v \in 1..MaxVersion, run \in Nat
  PROVE  Response(e, v) \in Seq(Lines(IF e[1] \in Odds THEN {<<e, v>>} ELSE {}))
  <1> DEFINE rows == Answers[e[1]][v]
             W == IF e[1] \in Odds THEN {<<e, v>>} ELSE {}
             n == Len(rows)
  <1>1. e[1] \in Kinds
    BY CellsOf
  <1>2. MaxVersion \in Nat
    BY CollectAssumption
  <1>3. /\ rows \in Seq([do : {"put", "erase"}, flaw : {"none", "nokey", "header"}, pub : Nat, slot : Slots])
        /\ \A i \in DOMAIN rows :
             /\ <<rows[i].pub, rows[i].slot>> \in Cells(e[1])
             /\ e[1] \in Odds /\ rows[i].do = "put" => rows[i].pub = v
    BY <1>1, AnswersAssumption
  <1> HIDE DEF rows
  <1>4. n \in Nat /\ DOMAIN rows = 1..n
    BY <1>3
  <1>5. ASSUME NEW i \in 1..n
        PROVE  Response(e, v)[i] \in Lines(W)
    <2> DEFINE s == [do |-> rows[i].do, flaw |-> rows[i].flaw, place |-> e, slot |-> rows[i].slot,
                     pub |-> rows[i].pub, value |-> IF e[1] \in Odds THEN run ELSE v]
    <2>1. Response(e, v)[i] = s
      BY <1>4 DEF Response, rows
    <2>2. rows[i] \in [do : {"put", "erase"}, flaw : {"none", "nokey", "header"}, pub : Nat, slot : Slots]
      BY <1>3, ElementOfSeq
    <2>3. (IF e[1] \in Odds THEN run ELSE v) \in Nat
      BY <1>2
    <2>4. s \in Lines(W)
      BY <1>3, <1>4, <2>2, <2>3 DEF Lines
    <2>5. QED  BY <2>1, <2>4
  <1>6. Response(e, v) = [i \in 1..n |-> Response(e, v)[i]]
    BY <1>4 DEF Response, rows
  <1> HIDE DEF n
  <1>7. QED
    <2> DEFINE r == Response(e, v)
               L == Lines(W)
    <2>1. (\A i \in 1..n : r[i] \in L) /\ r = [i \in 1..n |-> r[i]]
      BY <1>5, <1>6, Zenon
    <2> HIDE DEF r, L
    <2>2. r \in Seq(L)
      BY <1>4, <2>1
    <2>3. QED  BY <2>2 DEF r, L

\* The odds of the response that is being read, and those a connection may see:
\* of responses read to their end and of this one, once its rows are processed;
\* any, once the run cannot succeed.
Reading ==
    IF phase \in {"gather", "clear", "rows"} /\ At[1] \in Odds THEN {<<At, provider[At[2]]>>} ELSE {}
Doomed == raised \/ (failed /\ driver = "quicktime")
Seeable ==
    IF Doomed THEN Published ELSE whole \cup (IF phase = "gather" THEN {} ELSE Reading)

\* What is read, held and asked for.
ReadInv ==
    /\ run \in Nat /\ provider \in [Keys -> 0 .. MaxVersion] /\ whole \subseteq Published
    /\ plan \in Seq(Places) /\ hold \in Seq(Lines(whole))
    /\ phase \in {"gather", "clear", "rows"} => plan # <<>> /\ buf \in Seq(Lines(Reading))
    /\ driver = "capture" =>
         /\ \A i \in 1 .. Len(plan) : plan[i][1] \in Odds
         /\ phase # "clear" /\ (phase = "rows" => Reading \subseteq whole)

\* A run that raised or counted a failure is not committed.
DoomInv ==
    /\ raised => phase = "exit"
    /\ failed => phase # "idle"
    /\ phase = "exit" /\ Doomed => raised \/ result = "failed"

OddsInv ==
    /\ ReadInv /\ DoomInv
    /\ h \in HandlesOf(Rows(Seeable), Rows(Published))
    /\ h.p.store \in Rows(whole)

\* What the databases hold of fewer publications is what they may hold.
LEMMA MayHold ==
  ASSUME NEW X, X \subseteq Seeable', NEW W, W \subseteq whole',
         h' \in HandlesOf(Rows(X), Rows(Published)), h'.p.store \in Rows(W)
  PROVE  h' \in HandlesOf(Rows(Seeable'), Rows(Published)) /\ h'.p.store \in Rows(whole')
  BY RowsGrow, HandlesGrow

\* Places and publications.
LEMMA AtIs ==
  ASSUME ReadInv, plan # <<>>
  PROVE  /\ At \in Places /\ At[2] \in Keys /\ provider[At[2]] \in 0 .. MaxVersion
         /\ Tail(plan) \in Seq(Places) /\ <<At, provider[At[2]]>> \in Published
         /\ driver = "capture" =>
              At[1] \in Odds /\ \A i \in 1 .. Len(Tail(plan)) : Tail(plan)[i][1] \in Odds
  <1>1. plan \in Seq(Places) /\ provider \in [Keys -> 0 .. MaxVersion]
    BY DEF ReadInv
  <1>2. At \in Places /\ Tail(plan) \in Seq(Places)
    BY <1>1, HeadTailProperties DEF At
  <1>3. At[2] \in Keys
    BY <1>2, CellsOf
  <1>4. provider[At[2]] \in 0 .. MaxVersion
    BY <1>1, <1>3
  <1>5. <<At, provider[At[2]]>> \in Published
    BY <1>2, <1>4, CollectAssumption DEF Published
  <1>6. driver = "capture" =>
          At[1] \in Odds /\ \A i \in 1 .. Len(Tail(plan)) : Tail(plan)[i][1] \in Odds
    <2>1. Len(plan) \in Nat \ {0} /\ At = plan[1]
      BY <1>1 DEF At
    <2>2. /\ Len(Tail(plan)) = Len(plan) - 1
          /\ \A i \in 1 .. Len(Tail(plan)) : Tail(plan)[i] = plan[i + 1]
      BY <1>1, HeadTailProperties
    <2>3. driver = "capture" => \A i \in 1 .. Len(plan) : plan[i][1] \in Odds
      BY DEF ReadInv
    <2>4. \A i \in 1 .. Len(Tail(plan)) : i + 1 \in 1 .. Len(plan)
      BY <2>1, <2>2
    <2>5. QED  BY <2>1, <2>2, <2>3, <2>4
  <1>7. QED  BY <1>2, <1>3, <1>4, <1>5, <1>6

\* The keys of a run.
LEMMA PerIs ==
  ASSUME NEW kind \in Kinds
  PROVE  Per(kind) \in Seq(Places)
  <1>1. KeyOrder \in Seq(DOMAIN DayOf)
    BY CollectAssumption
  <1>2. Len(KeyOrder) \in Nat /\ DOMAIN KeyOrder = 1..Len(KeyOrder)
    BY <1>1
  <1>3. \A i \in 1..Len(KeyOrder) : <<kind, KeyOrder[i]>> \in Places
    BY <1>2 DEF Places, Keys, Range
  <1>4. QED  BY <1>2, <1>3 DEF Per

\* A run begins with places to open; a capture selects its own.
LEMMA PlansAre ==
  ASSUME NEW d \in Collectors, NEW p \in Plans(d)
  PROVE  p \in Seq(Places) /\ (d = "capture" => p = <<>>)
  <1>1. d \in {"background", "bgtime", "quickspeed", "quicktime", "daily", "capture"}
    BY CollectAssumption
  <1>2. {"speed", "date", "mining", "odds1", "odds2"} \subseteq Kinds
    BY DEF Kinds, Odds
  <1>3. \A kind \in Kinds, k \in Keys : <<kind, k>> \in Places
    BY DEF Places
  <1>4. CASE d = "background"
    <2>1. PICK kind \in {"speed", "date"}, k \in Keys : p = <<<<kind, k>>>>
      BY <1>4 DEF Plans
    <2>2. <<kind, k>> \in Places
      BY <1>2, <1>3
    <2>3. QED  BY <1>4, <2>1, <2>2
  <1>5. CASE d = "bgtime"
    BY <1>2, <1>3, <1>5 DEF Plans
  <1>6. CASE d \in {"quickspeed", "daily"}
    BY <1>2, <1>6, PerIs DEF Plans
  <1>7. CASE d = "quicktime"
    <2>1. p = Per("odds1") \o Per("odds2")
      BY <1>7 DEF Plans
    <2>2. Per("odds1") \in Seq(Places) /\ Per("odds2") \in Seq(Places)
      BY <1>2, PerIs
    <2>3. QED  BY <1>7, <2>1, <2>2
  <1>8. CASE d = "capture"
    BY <1>8 DEF Plans
  <1>9. QED  BY <1>1, <1>4, <1>5, <1>6, <1>7, <1>8

\* The invariant holds in the beginning.
LEMMA InitOddsInv == Init => OddsInv
  <1> SUFFICES ASSUME Init PROVE OddsInv
    OBVIOUS
  <1>1. PICK c \in Handles : h = Idle(c)
    BY Zenon DEF Init
  <1>2. c[1] \in BOOLEAN /\ c[2] \in Drivers /\ c[3] \in Drivers
    BY HandlesAssumption
  <1>3. \A W : Empty \in Rows(W)
    BY EmptyIs
  <1>4. \A W : \A d \in Drivers : Backend(d, Empty) \in Sessions(Rows(W)) /\ Backend(d, Empty).store = Empty
    BY <1>3 DEF Backend, Sessions
  <1>5. \A V, S : h \in HandlesOf(Rows(V), Rows(S)) /\ h.p.store = Empty
    BY <1>1, <1>2, <1>4 DEF Idle, Handle, HandlesOf
  <1>6. /\ phase = "idle" /\ run = 0 /\ provider = [k \in Keys |-> 0] /\ whole = {} /\ plan = <<>>
        /\ hold = <<>> /\ driver = "none" /\ raised = FALSE /\ failed = FALSE
    BY DEF Init
  <1>7. provider \in [Keys -> 0 .. MaxVersion]
    BY <1>6, CollectAssumption
  <1>8. ReadInv
    BY <1>6, <1>7 DEF ReadInv
  <1>9. DoomInv
    BY <1>6 DEF DoomInv, Doomed
  <1>10. QED  BY <1>3, <1>5, <1>8, <1>9 DEF OddsInv

\* A run begins with no odds but those that are durable.
LEMMA OddsStart ==
  ASSUME OddsInv, Start
  PROVE  OddsInv'
  <1>1. PICK d \in Collectors, o \in Opened(driver', Renewed(h)), p \in Plans(driver') :
          /\ driver' = d /\ o.ok /\ h' = o.db /\ plan' = p
          /\ IF d = "capture" THEN phase' = "select" ELSE phase' = "open"
    BY Zenon DEF Start
  <1>2. /\ phase = "idle" /\ run' = run + 1
        /\ UNCHANGED <<provider, hold, failed, raised, whole>>
    BY Zenon DEF Start, data
  <1> DEFINE V == Rows(whole)
             S == Rows(Published)
             g == Renewed(h)
  <1>3. g \in HandlesOf(V, S)
    <2>1. Typed(h) /\ h.p.store \in V /\ h.s.store \in S
      BY DEF OddsInv, HandlesOf, Sessions, Typed
    <2>2. QED  BY <2>1, RenewedIs
  <1> HIDE DEF V, S, g
  <1>4. o \in Results(V, S)
    <2>1. \/ o \in Connect(g)
          \/ \E e \in Connect(g) : \E q \in Commit(e.db) \cup Begin(e.db) :
               o = [q EXCEPT !.faults = @ + e.faults]
      <3>1. o \in Then(Connect(g), Commit) \/ o \in Then(Connect(g), Begin)
        BY <1>1, Zenon DEF Opened, g
      <3>2. QED  BY <3>1, Zenon DEF Then
    <2>2. CASE \E e \in Connect(g) : \E q \in Commit(e.db) \cup Begin(e.db) :
                  o = [q EXCEPT !.faults = @ + e.faults]
      <3>1. PICK e \in Connect(g) : \E q \in Commit(e.db) \cup Begin(e.db) :
                  o = [q EXCEPT !.faults = @ + e.faults]
        BY <2>2
      <3>2. PICK q \in Commit(e.db) \cup Begin(e.db) : o = [q EXCEPT !.faults = @ + e.faults]
        BY <3>1
      <3>3. e \in Results(V, S) /\ e.db \in HandlesOf(V, S)
        <4>1. e \in Results(V, S)
          BY <1>3, ConnectIs
        <4>2. QED  BY <4>1 DEF Results
      <3>4. q \in Results(V, S)
        BY <3>2, <3>3, CommitIs, BeginStays
      <3>5. QED  BY <3>2, <3>3, <3>4, AfterIs
    <2>3. QED  BY <1>3, <2>1, <2>2, ConnectIs
  <1>5. h' \in HandlesOf(V, S) /\ h'.p.store \in V
    BY <1>1, <1>4 DEF Results, HandlesOf, Sessions
  <1>6. ~raised' /\ ~failed' /\ phase' \in {"select", "open"}
    BY <1>1, <1>2 DEF OddsInv, DoomInv
  <1>7. whole \subseteq Seeable' /\ whole \subseteq whole'
    BY <1>2, <1>6 DEF Seeable, Doomed
  <1>8. ReadInv'
    <2>1. run' \in Nat /\ provider' \in [Keys -> 0 .. MaxVersion] /\ whole' \subseteq Published
          /\ hold' \in Seq(Lines(whole'))
      BY <1>2 DEF OddsInv, ReadInv
    <2>2. plan' \in Seq(Places) /\ (driver' = "capture" => plan' = <<>>)
      BY <1>1, PlansAre
    <2>3. QED  BY <1>6, <2>1, <2>2 DEF ReadInv
  <1>9. DoomInv'
    BY <1>6 DEF DoomInv, Doomed
  <1>10. QED  BY <1>5, <1>7, <1>8, <1>9, MayHold DEF OddsInv, V, S

\* A step that leaves the databases alone.
LEMMA OddsQuiet ==
  ASSUME OddsInv, ReadInv', DoomInv', h' = h, Seeable \subseteq Seeable', whole \subseteq whole'
  PROVE  OddsInv'
  <1>1. h' \in HandlesOf(Rows(Seeable), Rows(Published)) /\ h'.p.store \in Rows(whole)
    BY DEF OddsInv
  <1>2. h' \in HandlesOf(Rows(Seeable'), Rows(Published)) /\ h'.p.store \in Rows(whole')
    BY <1>1, MayHold
  <1>3. QED  BY <1>2 DEF OddsInv

\* What is left of an order of keys.
LEMMA KeysFinite == IsFiniteSet(Keys)
  <1>1. KeyOrder \in Seq(DOMAIN DayOf)
    BY CollectAssumption
  <1>2. Len(KeyOrder) \in Nat /\ DOMAIN KeyOrder = 1..Len(KeyOrder)
    BY <1>1
  <1>3. IsFiniteSet(1..Len(KeyOrder))
    BY <1>2, FS_Interval
  <1> DEFINE k == KeyOrder
             T == {k[i] : i \in 1..Len(k)}
  <1>4. k \in Surjection(1..Len(k), T)
    BY <1>1, <1>2 DEF Surjection
  <1>5. IsFiniteSet(T)
    BY <1>3, <1>4, FS_Surjection
  <1>6. QED  BY <1>2, <1>5 DEF Keys, Range

\* The races of a command are opened.
LEMMA OddsSelect ==
  ASSUME OddsInv, driver = "capture", Select
  PROVE  OddsInv'
  <1>1. /\ phase = "select" /\ UNCHANGED <<h, provider, run, driver, hold, failed, whole>>
        /\ \/ phase' = "exit" /\ raised' = TRUE /\ plan' = plan
           \/ /\ phase' = "open" /\ raised' = raised
              /\ \E kind \in Odds, s \in InTurn(Keys \cap Targets(ask.rows, ask.window)) :
                   plan' = [i \in DOMAIN s |-> <<kind, s[i]>>]
    BY Zenon DEF Select, job, data, aux
  <1>2. ~raised
    BY <1>1 DEF OddsInv, DoomInv
  <1>3. plan' \in Seq(Places) /\ \A i \in 1 .. Len(plan') : plan'[i][1] \in Odds
    <2>1. CASE plan' = plan
      BY <2>1 DEF OddsInv, ReadInv
    <2>2. CASE \E kind \in Odds, s \in InTurn(Keys \cap Targets(ask.rows, ask.window)) :
                 plan' = [i \in DOMAIN s |-> <<kind, s[i]>>]
      <3> DEFINE T == Keys \cap Targets(ask.rows, ask.window)
      <3>1. PICK kind \in Odds, s \in InTurn(T) : plan' = [i \in DOMAIN s |-> <<kind, s[i]>>]
        BY <2>2
      <3>2. IsFiniteSet(T) /\ T \subseteq Keys
        BY KeysFinite, FS_Subset
      <3> HIDE DEF T
      <3>3. Cardinality(T) \in Nat
        BY <3>2, FS_CardinalityType
      <3>4. s \in [1 .. Cardinality(T) -> T]
        BY Zenon DEF InTurn
      <3>5. plan' \in [1 .. Cardinality(T) -> Odds \X Keys]
        BY <3>1, <3>2, <3>4
      <3>6. Len(plan') = Cardinality(T)
        BY <3>3, <3>5
      <3>7. plan' \in Seq(Odds \X Keys)
        BY <3>3, <3>5
      <3>8. Odds \X Keys \subseteq Places
        BY DEF Places, Kinds
      <3>9. QED  BY <3>5, <3>6, <3>7, <3>8, SeqMonotonic
    <2>3. QED  BY <1>1, <2>1, <2>2
  <1>4. ReadInv'
    <2>1. phase' \in {"exit", "open"}
      BY <1>1
    <2>2. QED  BY <1>1, <1>3, <2>1 DEF OddsInv, ReadInv
  <1>5. DoomInv'
    BY <1>1, <1>2 DEF OddsInv, DoomInv, Doomed
  <1>6. Seeable \subseteq Seeable'
    <2>1. whole \subseteq Published
      BY DEF OddsInv, ReadInv
    <2>2. Seeable = whole
      BY <1>1, <1>2 DEF Seeable, Doomed, Reading
    <2>3. QED  BY <1>1, <2>1, <2>2 DEF Seeable, Doomed
  <1>7. QED  BY <1>1, <1>4, <1>5, <1>6, OddsQuiet

\* A response is opened.
LEMMA OddsOpen ==
  ASSUME OddsInv, OpenData
  PROVE  OddsInv'
  <1>1. PICK v \in (provider[At[2]] .. MaxVersion) \ {0} :
          provider' = [provider EXCEPT ![At[2]] = v] /\ buf' = Response(At, v)
    BY Zenon DEF OpenData
  <1>2. /\ phase = "open" /\ plan # <<>> /\ UNCHANGED <<h, run, driver, plan, hold, failed, raised, whole>>
        /\ phase' = IF Gathered(At[1]) THEN "gather" ELSE IF At[1] = "date" THEN "clear" ELSE "rows"
    BY Zenon DEF OpenData, job, aux
  <1>3. /\ At \in Places /\ At[2] \in Keys /\ provider[At[2]] \in 0 .. MaxVersion
        /\ driver = "capture" => At[1] \in Odds
    BY <1>2, AtIs DEF OddsInv
  <1>4. MaxVersion \in Nat /\ provider \in [Keys -> 0 .. MaxVersion] /\ run \in Nat
    BY CollectAssumption DEF OddsInv, ReadInv
  <1>5. v \in 1 .. MaxVersion
    BY <1>3, <1>4
  <1>6. provider' \in [Keys -> 0 .. MaxVersion] /\ provider'[At[2]] = v
    BY <1>1, <1>3, <1>4, <1>5
  <1>7. At' = At
    BY <1>2 DEF At
  <1>8. phase' \in {"gather", "clear", "rows"} /\ (driver = "capture" => phase' = "gather")
    BY <1>2 DEF Gathered
  <1>9. Reading' = IF At[1] \in Odds THEN {<<At, v>>} ELSE {}
    BY <1>6, <1>7, <1>8 DEF Reading
  <1>10. buf' \in Seq(Lines(Reading'))
    BY <1>1, <1>3, <1>4, <1>5, <1>9, ResponseIs
  <1>11. ReadInv'
    BY <1>2, <1>6, <1>8, <1>10 DEF OddsInv, ReadInv
  <1>12. DoomInv'
    BY <1>2, <1>8 DEF OddsInv, DoomInv, Doomed
  <1>13. Seeable \subseteq Seeable'
    <2>1. Reading = {}
      BY <1>2 DEF Reading
    <2>2. QED  BY <1>2, <2>1 DEF Seeable, Doomed
  <1>14. QED  BY <1>2, <1>11, <1>12, <1>13, OddsQuiet

\* There is none.
LEMMA OddsNoData ==
  ASSUME OddsInv, OpenNoData
  PROVE  OddsInv'
  <1>1. /\ phase = "open" /\ plan # <<>> /\ plan' = Tail(plan)
        /\ UNCHANGED <<h, provider, run, driver, phase, hold, failed, raised, whole>>
    BY Zenon DEF OpenNoData, job, aux, data
  <1>2. /\ Tail(plan) \in Seq(Places)
        /\ driver = "capture" => \A i \in 1 .. Len(Tail(plan)) : Tail(plan)[i][1] \in Odds
    BY <1>1, AtIs DEF OddsInv
  <1>3. ReadInv'
    BY <1>1, <1>2 DEF OddsInv, ReadInv
  <1>4. DoomInv'
    BY <1>1 DEF OddsInv, DoomInv, Doomed
  <1>5. Seeable \subseteq Seeable'
    BY <1>1 DEF Seeable, Doomed, Reading
  <1>6. QED  BY <1>1, <1>3, <1>4, <1>5, OddsQuiet

\* A response that was read to its end is whole; an odds response that ends adds
\* itself, of the others nothing is asked.
LEMMA OddsWhole ==
  ASSUME OddsInv, Gather \/ EndResponse
  PROVE  OddsInv'
  <1>1. /\ phase \in {"gather", "rows"}
        /\ UNCHANGED <<h, provider, run, driver, hold, failed, raised>>
        /\ whole' = whole \cup (IF At[1] \in Odds THEN {<<At, provider[At[2]]>>} ELSE {})
        /\ \/ plan' = plan /\ buf' = buf /\ phase' = IF At[1] = "date" THEN "clear" ELSE "rows"
           \/ plan' = Tail(plan) /\ phase' = "open"
    BY Zenon DEF Gather, EndResponse, job, data
  <1>2. whole' = whole \cup Reading
    BY <1>1 DEF Reading
  <1>3. plan # <<>> /\ buf \in Seq(Lines(Reading))
    BY <1>1 DEF OddsInv, ReadInv
  <1>4. /\ At \in Places /\ <<At, provider[At[2]]>> \in Published
        /\ Tail(plan) \in Seq(Places)
        /\ driver = "capture" =>
             At[1] \in Odds /\ \A i \in 1 .. Len(Tail(plan)) : Tail(plan)[i][1] \in Odds
    BY <1>3, AtIs DEF OddsInv
  <1>5. whole \subseteq Published /\ hold \in Seq(Lines(whole))
    BY DEF OddsInv, ReadInv
  <1>6. whole' \subseteq Published
    BY <1>1, <1>4, <1>5
  <1>7. hold' \in Seq(Lines(whole'))
    <2>1. Lines(whole) \subseteq Lines(whole')
      BY <1>2, RowsGrow
    <2>2. QED  BY <1>1, <1>5, <2>1, SeqMonotonic
  <1>8. plan' = plan => Reading' = IF phase' \in {"clear", "rows"} THEN Reading ELSE {}
    BY <1>1 DEF Reading, At
  <1>9. "date" \notin Odds
    BY DEF Odds
  <1>10. ReadInv'
    <2>1. CASE plan' = plan /\ buf' = buf /\ phase' = IF At[1] = "date" THEN "clear" ELSE "rows"
      <3>1. Reading' = Reading /\ phase' \in {"clear", "rows"}
        BY <1>8, <2>1
      <3>2. driver = "capture" => phase' = "rows"
        BY <1>4, <1>9, <2>1
      <3>3. QED  BY <1>1, <1>2, <1>3, <1>6, <1>7, <2>1, <3>1, <3>2 DEF OddsInv, ReadInv
    <2>2. CASE plan' = Tail(plan) /\ phase' = "open"
      BY <1>1, <1>4, <1>6, <1>7, <2>2 DEF OddsInv, ReadInv
    <2>3. QED  BY <1>1, <2>1, <2>2
  <1>11. DoomInv'
    BY <1>1 DEF OddsInv, DoomInv, Doomed
  <1>12. Seeable \subseteq Seeable'
    <2>1. Doomed' = Doomed
      BY <1>1 DEF Doomed
    <2>2. ~Doomed => Seeable \subseteq whole'
      BY <1>2 DEF Seeable
    <2>3. ~Doomed => whole' \subseteq Seeable'
      BY <2>1 DEF Seeable
    <2>4. Doomed => Seeable = Published /\ Seeable' = Published
      BY <2>1 DEF Seeable
    <2>5. QED  BY <2>2, <2>3, <2>4
  <1>13. QED  BY <1>1, <1>2, <1>10, <1>11, <1>12, OddsQuiet

\* What an error makes of the rest of the run.
LEMMA ErrorLeaves ==
  ASSUME NEW g, NEW sub, NEW n, Error(g, sub, n)
  PROVE  \/ /\ phase' = "open" /\ plan' = Rest /\ ~raised' /\ Continues(sub)
            /\ failed' = (failed \/ (driver = "quicktime" /\ ~sub))
         \/ /\ phase' = "exit" /\ plan' = <<>> /\ failed' = failed /\ (raised' \/ sub)
            /\ ~Continues(sub)
  BY Zenon DEF Error

\* What is left to open is places, for a capture those of odds.
LEMMA RestIs ==
  ASSUME ReadInv, plan # <<>>
  PROVE  /\ Rest \in Seq(Places)
         /\ driver = "capture" => \A i \in 1 .. Len(Rest) : Rest[i][1] \in Odds
  <1>1. /\ Tail(plan) \in Seq(Places)
        /\ driver = "capture" => \A i \in 1 .. Len(Tail(plan)) : Tail(plan)[i][1] \in Odds
    BY AtIs
  <1>2. CASE driver = "capture"
    BY <1>1, <1>2 DEF Rest
  <1>3. CASE driver \in {"bgtime", "quicktime"}
    <2> DEFINE D == {i \in DOMAIN plan : plan[i][1] = At[1]}
               m == 1 + Cardinality(D)
    <2>1. plan \in Seq(Places)
      BY DEF ReadInv
    <2>2. Len(plan) \in Nat /\ DOMAIN plan = 1..Len(plan) /\ \A i \in 1..Len(plan) : plan[i] \in Places
      BY <2>1
    <2>3. IsFiniteSet(D)
      <3>1. IsFiniteSet(1..Len(plan))
        BY <2>2, FS_Interval
      <3>2. QED  BY <2>2, <3>1, FS_Subset
    <2> HIDE DEF D
    <2>4. Cardinality(D) \in Nat
      BY <2>3, FS_CardinalityType
    <2>5. m \in Int /\ \A i \in m .. Len(plan) : plan[i] \in Places
      BY <2>2, <2>4
    <2>6. Rest = SubSeq(plan, m, Len(plan))
      BY <1>3, Zenon DEF Rest, D
    <2> HIDE DEF m
    <2>7. SubSeq(plan, m, Len(plan)) \in Seq(Places)
      BY <2>2, <2>5, SubSeqProperties
    <2>8. QED  BY <1>3, <2>6, <2>7
  <1>4. CASE driver \notin {"capture", "bgtime", "quicktime"}
    BY <1>4 DEF Rest
  <1>5. QED  BY <1>2, <1>3, <1>4

\* An error leaves the odds the run has written, or makes it one that is not
\* committed.
LEMMA OddsError ==
  ASSUME OddsInv, Busy, plan # <<>>, UNCHANGED <<provider, run, driver, hold, whole>>,
         NEW g \in HandlesOf(Rows(Seeable), Rows(Published)), g.p.store \in Rows(whole),
         NEW sub, NEW n, Error(g, sub, n),
         sub => phase = "open", driver = "capture" => phase \in {"open", "gather"}
  PROVE  OddsInv'
  <1>1. /\ h' \in HandlesOf(Rows(Seeable), Rows(Published)) /\ h'.p.store = g.p.store
    <2> DEFINE V == Rows(Seeable)
               S == Rows(Published)
    <2> HIDE DEF V, S
    <2>1. g \in HandlesOf(V, S)
      BY DEF V, S
    <2>2. h' \in HandlesOf(V, S) /\ Same(V, g.p, h'.p)
      BY <2>1, ErrorIs
    <2>3. QED  BY <2>2 DEF Same, V, S
  <1>2. \/ /\ phase' = "open" /\ plan' = Rest /\ ~raised' /\ Continues(sub)
           /\ failed' = (failed \/ (driver = "quicktime" /\ ~sub))
        \/ /\ phase' = "exit" /\ plan' = <<>> /\ failed' = failed /\ (raised' \/ sub)
           /\ ~Continues(sub)
    BY ErrorLeaves
  <1>3. ~raised /\ whole \subseteq Published
    BY DEF OddsInv, DoomInv, ReadInv, Busy
  <1>4. ReadInv'
    <2>1. ReadInv
      BY DEF OddsInv
    <2>2. /\ Rest \in Seq(Places)
          /\ driver = "capture" => \A i \in 1 .. Len(Rest) : Rest[i][1] \in Odds
      BY <2>1, RestIs
    <2>3. /\ plan' \in Seq(Places)
          /\ driver = "capture" => \A i \in 1 .. Len(plan') : plan'[i][1] \in Odds
      <3>1. plan' = Rest \/ plan' = <<>>
        BY <1>2, Zenon
      <3>2. CASE plan' = Rest
        BY <2>2, <3>2
      <3>3. CASE plan' = <<>>
        BY <3>3
      <3>4. QED  BY <3>1, <3>2, <3>3
    <2>4. phase' \in {"open", "exit"}
      BY <1>2
    <2>5. QED  BY <2>1, <2>3, <2>4 DEF ReadInv
  <1>5. DoomInv'
    <2>1. driver' = driver /\ (driver = "quicktime" => Continues(sub))
      <3>1. driver = "quicktime" => driver \in {"capture", "quicktime"}
        OBVIOUS
      <3>2. QED  BY <3>1, Zenon DEF Continues
    <2>2. CASE phase' = "open" /\ ~raised'
      BY <2>2 DEF DoomInv
    <2>3. CASE phase' = "exit" /\ driver # "quicktime"
      BY <2>1, <2>3 DEF DoomInv, Doomed
    <2>4. QED  BY <1>2, <2>1, <2>2, <2>3
  <1>6. Reading' = {}
    BY <1>2 DEF Reading
  <1>7. Seeable \subseteq Published
    <2>1. CASE phase = "open"
      BY <1>3, <2>1 DEF Seeable, Reading
    <2>2. CASE phase # "open"
      <3>1. <<At, provider[At[2]]>> \in Published
        BY AtIs DEF OddsInv
      <3>2. QED  BY <1>3, <3>1 DEF Seeable, Reading
    <2>3. QED  BY <2>1, <2>2
  <1>8. Seeable \subseteq Seeable'
    <2>1. CASE Doomed'
      BY <1>7, <2>1 DEF Seeable
    <2>2. CASE ~Doomed'
      <3>1. ~Doomed /\ (sub \/ driver = "capture")
        BY <1>2, <1>3, <2>2 DEF Doomed, Continues
      <3>2. phase \in {"open", "gather"}
        BY <3>1
      <3>3. Seeable = whole
        BY <3>1, <3>2 DEF Seeable, Reading
      <3>4. QED  BY <2>2, <3>3 DEF Seeable
    <2>3. QED  BY <2>1, <2>2
  <1>9. QED  BY <1>1, <1>4, <1>5, <1>8, MayHold DEF OddsInv

\* A stream that cannot be opened or read.
LEMMA OddsFails ==
  ASSUME OddsInv, OpenFails \/ ReadFails
  PROVE  OddsInv'
  <1>1. /\ Busy /\ UNCHANGED <<provider, run, driver, hold, whole>>
        /\ phase \in {"open", "gather", "rows"} /\ (phase = "open" => plan # <<>>)
        /\ driver = "capture" => phase \in {"open", "gather"}
    BY Zenon DEF OpenFails, ReadFails, Busy, job, Gathered
  <1>2. plan # <<>>
    BY <1>1 DEF OddsInv, ReadInv
  <1>3. \E sub \in BOOLEAN, n \in {0, 1} : Error(h, sub, n) /\ (sub => phase = "open")
    BY Zenon DEF OpenFails, ReadFails
  <1>4. h \in HandlesOf(Rows(Seeable), Rows(Published)) /\ h.p.store \in Rows(whole)
    BY DEF OddsInv
  <1>5. QED  BY <1>1, <1>2, <1>3, <1>4, OddsError

\* Statements of the response that is being processed.
LEMMA SeeableIs ==
  ASSUME OddsInv, plan # <<>>
  PROVE  /\ whole \subseteq Published /\ Seeable \subseteq Published
         /\ ~Doomed => whole \subseteq Seeable
         /\ phase # "gather" => Reading \subseteq Seeable
  <1>1. <<At, provider[At[2]]>> \in Published /\ whole \subseteq Published
    BY AtIs DEF OddsInv, ReadInv
  <1>2. QED  BY <1>1 DEF Seeable, Reading

\* A statement of a run, inside its transaction.
LEMMA OddsExecute ==
  ASSUME OddsInv, plan # <<>>, InTransaction(h.p), NEW s, Stores(Seeable, s), NEW o \in Execute(h, s)
  PROVE  /\ o.db \in HandlesOf(Rows(Seeable), Rows(Published)) /\ o.db.p.store \in Rows(whole)
  <1>1. Stores(Published, s)
    BY SeeableIs, StoresGrow
  <1> DEFINE V == Rows(Seeable)
             S == Rows(Published)
  <1>2. h \in HandlesOf(V, S) /\ h.p.store \in Rows(whole)
    BY DEF OddsInv
  <1>3. Keeps(V, s) /\ Keeps(S, s)
    BY <1>1, StoresKeep
  <1> HIDE DEF V, S
  <1>4. Apply(h.p.driver, h.p.seen, s) \in V /\ Apply(h.s.driver, h.s.seen, s) \in S
    BY <1>2, <1>3 DEF Keeps, HandlesOf, Sessions
  <1>5. o \in Results(V, S) /\ Same(V, h.p, o.db.p)
    BY <1>2, <1>4, ExecuteIs
  <1>6. QED  BY <1>2, <1>5 DEF Results, Same, V, S

\* The snapshot of a date is cleared.
LEMMA OddsClear ==
  ASSUME OddsInv, RunInv, Clear
  PROVE  OddsInv'
  <1> DEFINE s == [do |-> "clear", place |-> At]
  <1>1. /\ phase = "clear" /\ UNCHANGED <<provider, run, driver, hold, whole>>
    BY Zenon DEF Clear, job
  <1>2. PICK o \in Execute(h, s) :
          \/ /\ h' = o.db /\ phase' = "rows" /\ UNCHANGED <<plan, buf, failed, raised>>
          \/ Error(o.db, FALSE, o.faults)
    BY Zenon DEF Clear
  <1>3. /\ driver # "capture" /\ plan # <<>> /\ buf \in Seq(Lines(Reading))
    BY <1>1 DEF OddsInv, ReadInv
  <1>4. Busy /\ InTransaction(h.p)
    <2>1. Busy
      BY <1>1 DEF Busy
    <2>2. QED  BY <1>3, <2>1, InTheRun
  <1>5. Stores(Seeable, s)
    BY <1>3, AtIs DEF OddsInv, Stores
  <1> HIDE DEF s
  <1>6. o.db \in HandlesOf(Rows(Seeable), Rows(Published)) /\ o.db.p.store \in Rows(whole)
    BY <1>3, <1>4, <1>5, OddsExecute
  <1>7. CASE /\ h' = o.db /\ phase' = "rows" /\ UNCHANGED <<plan, buf, failed, raised>>
    <2>1. Reading' = Reading
      BY <1>1, <1>7 DEF Reading, At
    <2>2. ReadInv'
      BY <1>1, <1>3, <1>7, <2>1 DEF OddsInv, ReadInv
    <2>3. DoomInv'
      BY <1>1, <1>7 DEF OddsInv, DoomInv, Doomed
    <2>4. Seeable' = Seeable
      BY <1>1, <1>7, <2>1 DEF Seeable, Doomed
    <2>5. QED  BY <1>1, <1>6, <1>7, <2>2, <2>3, <2>4 DEF OddsInv
  <1>8. CASE Error(o.db, FALSE, o.faults)
    BY <1>1, <1>3, <1>4, <1>6, <1>8, OddsError
  <1>9. QED  BY <1>2, <1>7, <1>8

\* One row is accepted, counted as a failure or ends the run.
LEMMA OddsRow ==
  ASSUME OddsInv, RunInv, Row
  PROVE  OddsInv'
  <1> DEFINE r == Head(buf)
  <1>1. /\ phase = "rows" /\ buf # <<>> /\ driver # "capture"
        /\ UNCHANGED <<provider, run, driver, hold, whole>>
    BY Zenon DEF Row, job
  <1>2. PICK o \in ProcessRecord(h, r) :
          \/ /\ h' = o.db /\ buf' = Tail(buf) /\ failed' = (failed \/ o.is # "accepted")
             /\ UNCHANGED <<phase, plan, raised>>
          \/ Error(o.db, FALSE, o.faults)
    BY Zenon DEF Row
  <1>3. /\ plan # <<>> /\ buf \in Seq(Lines(Reading))
    BY <1>1 DEF OddsInv, ReadInv
  <1>4. Busy /\ InTransaction(h.p)
    <2>1. Busy
      BY <1>1 DEF Busy
    <2>2. QED  BY <1>1, <2>1, InTheRun
  <1>5. Stores(Seeable, r) /\ Tail(buf) \in Seq(Lines(Reading))
    <2>1. r \in Lines(Reading) /\ Tail(buf) \in Seq(Lines(Reading))
      BY <1>1, <1>3, HeadTailProperties
    <2>2. Reading \subseteq Seeable
      BY <1>1, <1>3, SeeableIs
    <2>3. QED  BY <2>1, <2>2, RowsGrow DEF Stores
  <1> HIDE DEF r
  <1>6. o.db \in HandlesOf(Rows(Seeable), Rows(Published)) /\ o.db.p.store \in Rows(whole)
    <2>1. o.db = h \/ \E e \in Execute(h, r) : o.db = e.db
      BY DEF ProcessRecord
    <2>2. h \in HandlesOf(Rows(Seeable), Rows(Published)) /\ h.p.store \in Rows(whole)
      BY DEF OddsInv
    <2>3. QED  BY <1>3, <1>4, <1>5, <2>1, <2>2, OddsExecute
  <1>7. CASE /\ h' = o.db /\ buf' = Tail(buf) /\ failed' = (failed \/ o.is # "accepted")
             /\ UNCHANGED <<phase, plan, raised>>
    <2>1. Reading' = Reading
      BY <1>1, <1>7 DEF Reading, At
    <2>2. ReadInv'
      BY <1>1, <1>3, <1>5, <1>7, <2>1 DEF OddsInv, ReadInv
    <2>3. DoomInv'
      BY <1>1, <1>7 DEF OddsInv, DoomInv, Doomed
    <2>4. Seeable \subseteq Seeable'
      <3>1. Doomed => Doomed'
        BY <1>1, <1>7 DEF Doomed
      <3>2. CASE Doomed'
        BY <1>3, <3>2, SeeableIs DEF Seeable
      <3>3. CASE ~Doomed'
        BY <1>1, <1>7, <2>1, <3>1, <3>3 DEF Seeable
      <3>4. QED  BY <3>2, <3>3
    <2>5. QED  BY <1>1, <1>6, <1>7, <2>2, <2>3, <2>4, MayHold DEF OddsInv
  <1>8. CASE Error(o.db, FALSE, o.faults)
    BY <1>1, <1>3, <1>4, <1>6, <1>8, OddsError
  <1>9. QED  BY <1>2, <1>7, <1>8

\* What a command flushes is rows of responses read to their end.
LEMMA OddsFlush ==
  ASSUME OddsInv, driver = "capture", phase \in {"open", "rows"},
         UNCHANGED <<provider, run, driver, plan, failed, whole>>,
         NEW B \in Seq(Lines(whole)), NEW p \in {"rows", "exit"}, Flush(B, p),
         p = "rows" => phase = "rows" /\ buf' \in Seq(Lines(Reading))
  PROVE  OddsInv'
  <1>1. PICK o \in ProcessBatch(h, B) :
          /\ h' = o.db /\ hold' = <<>>
          /\ \/ phase' = p /\ raised' = raised
             \/ phase' = "exit" /\ raised' = TRUE
    BY Zenon DEF Flush
  <1>2. ~raised /\ whole \subseteq Published
    BY DEF OddsInv, DoomInv, ReadInv
  <1>3. Seeable = whole
    <2>1. Reading \subseteq whole
      BY DEF OddsInv, ReadInv, Reading
    <2>2. QED  BY <1>2, <2>1 DEF Seeable, Doomed
  <1>4. h' \in HandlesOf(Rows(whole), Rows(Published)) /\ h'.p.store \in Rows(whole)
    <2> DEFINE V == Rows(whole)
               S == Rows(Published)
    <2>1. h \in HandlesOf(V, S)
      BY <1>3 DEF OddsInv
    <2>2. o \in Results(V, S)
      BY <1>2, <2>1, ProcessBatchIs
    <2> HIDE DEF V, S
    <2>3. h' \in HandlesOf(V, S) /\ h'.p.store \in V
      BY <1>1, <2>2 DEF Results, HandlesOf, Sessions
    <2>4. QED  BY <2>3 DEF V, S
  <1>5. phase' = "rows" => Reading' = Reading /\ phase = "rows" /\ buf' \in Seq(Lines(Reading))
    BY <1>1 DEF Reading, At
  <1>6. phase' \in {"rows", "exit"} /\ (raised' => phase' = "exit")
    BY <1>1, <1>2
  <1>7. ReadInv'
    <2>1. hold' \in Seq(Lines(whole'))
      BY <1>1
    <2>2. /\ run' \in Nat /\ provider' \in [Keys -> 0 .. MaxVersion] /\ whole' \subseteq Published
          /\ plan' \in Seq(Places) /\ \A i \in 1 .. Len(plan') : plan'[i][1] \in Odds
      BY DEF OddsInv, ReadInv
    <2>3. phase' = "rows" => plan' # <<>> /\ buf' \in Seq(Lines(Reading')) /\ Reading' \subseteq whole'
      BY <1>5 DEF OddsInv, ReadInv
    <2>4. QED  BY <1>6, <2>1, <2>2, <2>3 DEF ReadInv
  <1>8. DoomInv'
    BY <1>6 DEF DoomInv, Doomed
  <1>9. whole \subseteq Seeable'
    <2>1. CASE Doomed'
      BY <1>2, <2>1 DEF Seeable
    <2>2. CASE ~Doomed'
      BY <2>2 DEF Seeable
    <2>3. QED  BY <2>1, <2>2
  <1>10. QED  BY <1>4, <1>7, <1>8, <1>9, MayHold DEF OddsInv

\* A row joins the batch, or the batch is flushed.
LEMMA OddsCollect ==
  ASSUME OddsInv, Collect
  PROVE  OddsInv'
  <1> DEFINE B == Append(hold, Head(buf))
  <1>1. /\ phase = "rows" /\ buf # <<>> /\ driver = "capture" /\ buf' = Tail(buf)
        /\ UNCHANGED <<provider, run, driver, plan, failed, whole>>
        /\ \/ Flush(B, "rows")
           \/ hold' = B /\ UNCHANGED <<h, phase, raised>>
    BY Zenon DEF Collect, job
  <1>2. buf \in Seq(Lines(Reading)) /\ Reading \subseteq whole /\ hold \in Seq(Lines(whole)) /\ plan # <<>>
    BY <1>1 DEF OddsInv, ReadInv
  <1>3. Head(buf) \in Lines(Reading) /\ Tail(buf) \in Seq(Lines(Reading))
    BY <1>1, <1>2, HeadTailProperties
  <1>4. B \in Seq(Lines(whole))
    <2>1. Head(buf) \in Lines(whole)
      BY <1>2, <1>3, RowsGrow
    <2>2. QED  BY <1>2, <2>1
  <1> HIDE DEF B
  <1>5. CASE Flush(B, "rows")
    BY <1>1, <1>3, <1>4, <1>5, OddsFlush
  <1>6. CASE hold' = B /\ UNCHANGED <<h, phase, raised>>
    <2>1. Reading' = Reading
      BY <1>1, <1>6 DEF Reading, At
    <2>2. ReadInv'
      BY <1>1, <1>2, <1>3, <1>4, <1>6, <2>1 DEF OddsInv, ReadInv
    <2>3. DoomInv'
      BY <1>1, <1>6 DEF OddsInv, DoomInv, Doomed
    <2>4. Seeable' = Seeable
      BY <1>1, <1>6, <2>1 DEF Seeable, Doomed
    <2>5. QED  BY <1>1, <1>6, <2>2, <2>3, <2>4, OddsQuiet
  <1>7. QED  BY <1>1, <1>5, <1>6

\* The last batch.
LEMMA OddsFinishCapture ==
  ASSUME OddsInv, FinishCapture
  PROVE  OddsInv'
  <1>1. /\ phase = "open" /\ driver = "capture" /\ Flush(hold, "exit")
        /\ UNCHANGED <<provider, run, driver, plan, failed, whole>>
    BY Zenon DEF FinishCapture, AllOpened, job, aux
  <1>2. hold \in Seq(Lines(whole))
    BY DEF OddsInv, ReadInv
  <1>3. QED  BY <1>1, <1>2, OddsFlush

\* The judgement of the run.
LEMMA OddsFinish ==
  ASSUME OddsInv, FinishSpecs \/ FinishSpec \/ FinishRun
  PROVE  OddsInv'
  <1> DEFINE V == Rows(Seeable)
             S == Rows(Published)
  <1>1. /\ phase = "open" /\ phase' = "exit"
        /\ UNCHANGED <<provider, run, driver, plan, hold, failed, whole>>
    BY Zenon DEF FinishSpecs, FinishSpec, FinishRun, AllOpened, Leave, job, aux, data
  <1>2. ~raised /\ whole \subseteq Published
    BY <1>1 DEF OddsInv, DoomInv, ReadInv
  <1>3. ~failed => Seeable = whole
    BY <1>1, <1>2 DEF Seeable, Doomed, Reading
  <1>4. Seeable \subseteq Seeable'
    <2>1. Seeable \in {whole, Published} /\ Seeable' \in {whole, Published}
      BY <1>1 DEF Seeable, Reading
    <2>2. Doomed => Doomed'
      BY <1>1, <1>2 DEF Doomed
    <2>3. CASE Doomed'
      BY <1>2, <2>1, <2>3 DEF Seeable
    <2>4. CASE ~Doomed'
      BY <1>1, <2>2, <2>4 DEF Seeable, Reading
    <2>5. QED  BY <2>3, <2>4
  <1>5. h \in HandlesOf(V, S) /\ h.p.store \in Rows(whole)
    BY DEF OddsInv
  <1>6. ReadInv'
    BY <1>1 DEF OddsInv, ReadInv
  <1> HIDE DEF V, S
  <1>7. ~failed => V = Rows(whole)
    BY <1>3 DEF V
  <1>8. /\ h' \in HandlesOf(V, S) /\ h'.p.store \in Rows(whole)
        /\ failed => raised' \/ result' = "failed"
    <2>1. ASSUME NEW o \in Rollback(h), failed, h' = o.db, result' = "failed"
          PROVE  h' \in HandlesOf(V, S) /\ h'.p.store \in Rows(whole)
      <3>1. o \in Results(V, S) /\ Same(V, h.p, o.db.p)
        BY <1>5, RollbackIs
      <3>2. QED  BY <1>5, <2>1, <3>1 DEF Results, Same
    <2>2. ASSUME NEW g, g \in HandlesOf(V, S), ~failed
          PROVE  g.p.store \in Rows(whole)
      BY <1>7, <2>2 DEF HandlesOf, Sessions
    <2>3. ASSUME NEW o \in Commit(h), ~failed
          PROVE  o.db \in HandlesOf(V, S) /\ o.db.p.store \in Rows(whole)
      <3>1. o \in Results(V, S)
        BY <1>5, CommitIs
      <3>2. o.db \in HandlesOf(V, S)
        BY <3>1 DEF Results
      <3>3. QED  BY <2>2, <2>3, <3>2
    <2>4. ASSUME NEW o \in (IF failed THEN {Err(h, 0)} ELSE Commit(h)),
                 h' = o.db \/ \E q \in Rollback(o.db) : h' = q.db
          PROVE  h' \in HandlesOf(V, S) /\ h'.p.store \in Rows(whole)
      <3>1. o.db \in HandlesOf(V, S) /\ o.db.p.store \in Rows(whole)
        <4>1. CASE failed
          BY <1>5, <2>4, <4>1 DEF Err
        <4>2. CASE ~failed
          BY <2>3, <2>4, <4>2
        <4>3. QED  BY <4>1, <4>2
      <3>2. CASE h' = o.db
        BY <3>1, <3>2
      <3>3. CASE \E q \in Rollback(o.db) : h' = q.db
        <4>1. PICK q \in Rollback(o.db) : h' = q.db
          BY <3>3
        <4>2. q \in Results(V, S) /\ Same(V, o.db.p, q.db.p)
          BY <3>1, RollbackIs
        <4>3. QED  BY <3>1, <4>1, <4>2 DEF Results, Same
      <3>4. QED  BY <2>4, <3>2, <3>3
    <2>5. \/ \E o \in Rollback(h) : failed /\ h' = o.db /\ result' = "failed" /\ raised' = ~o.ok
          \/ \E o \in Commit(h) : ~failed /\ h' = o.db /\ result' = "success" /\ raised' = ~o.ok
          \/ ~failed /\ h' = h /\ result' = "success" /\ ~raised'
          \/ \E o \in (IF failed THEN {Err(h, 0)} ELSE Commit(h)) :
               /\ result' = "success" /\ raised' /\ ~o.ok
               /\ h' = o.db \/ \E q \in Rollback(o.db) : h' = q.db
      BY FinishIs
    <2>6. CASE \E o \in Rollback(h) : failed /\ h' = o.db /\ result' = "failed" /\ raised' = ~o.ok
      BY <2>1, <2>6
    <2>7. CASE \E o \in Commit(h) : ~failed /\ h' = o.db /\ result' = "success" /\ raised' = ~o.ok
      BY <2>3, <2>7
    <2>8. CASE ~failed /\ h' = h
      BY <1>5, <2>8
    <2>9. CASE \E o \in (IF failed THEN {Err(h, 0)} ELSE Commit(h)) :
               /\ result' = "success" /\ raised' /\ ~o.ok
               /\ h' = o.db \/ \E q \in Rollback(o.db) : h' = q.db
      BY <2>4, <2>9
    <2>10. QED  BY <2>5, <2>6, <2>7, <2>8, <2>9
  <1>9. DoomInv'
    BY <1>1, <1>8 DEF DoomInv, Doomed
  <1>10. QED  BY <1>1, <1>4, <1>6, <1>8, <1>9, MayHold DEF OddsInv, V, S

\* What is dropped of a handle is not seen any more.
LEMMA DroppedSees ==
  ASSUME NEW V, NEW S, NEW hd \in HandlesOf(V, S), NEW X, hd.p.store \in X
  PROVE  Dropped(hd) \in HandlesOf(X, S) /\ Dropped(hd).p.store = hd.p.store
  <1> DEFINE p == Closed(hd.p)
             s == Closed(hd.s)
  <1>1. hd.p \in Sessions(V) /\ hd.s \in Sessions(S)
    BY DEF HandlesOf
  <1>2. Same(V, hd.p, p) /\ Same(S, hd.s, s) /\ p.seen = hd.p.store
    BY <1>1, ClosedIs
  <1>3. p \in Sessions(X)
    BY <1>2 DEF Same, Sessions
  <1>4. Dropped(hd) = [hd EXCEPT !.p = p, !.s = s]
    BY Zenon DEF Dropped
  <1>5. s \in Sessions(S)
    BY <1>2 DEF Same
  <1> HIDE DEF p, s
  <1>6. Dropped(hd) \in HandlesOf(X, S) /\ Dropped(hd).p = p
    BY <1>3, <1>4, <1>5, Zenon DEF HandlesOf
  <1>7. QED  BY <1>2, <1>6 DEF Same

\* A run that ended has left its connection.
LEMMA OddsEnds ==
  ASSUME OddsInv, NEW g \in HandlesOf(Rows(Seeable), Rows(Published)), g.p.store \in Rows(whole),
         h' = Dropped(g), phase' = "idle", hold' = <<>>, driver' = "none", ~raised', ~failed',
         plan' = <<>>, UNCHANGED <<provider, run, whole>>
  PROVE  OddsInv'
  <1>1. h' \in HandlesOf(Rows(whole), Rows(Published)) /\ h'.p.store \in Rows(whole)
    <2> DEFINE V == Rows(Seeable)
               S == Rows(Published)
               X == Rows(whole)
    <2> HIDE DEF V, S, X
    <2>1. g \in HandlesOf(V, S) /\ g.p.store \in X
      BY DEF V, S, X
    <2>2. Dropped(g) \in HandlesOf(X, S) /\ Dropped(g).p.store = g.p.store
      BY <2>1, DroppedSees
    <2>3. QED  BY <2>1, <2>2 DEF V, S, X
  <1>2. whole \subseteq Seeable'
    BY DEF Seeable, Doomed
  <1>3. ReadInv'
    BY DEF OddsInv, ReadInv
  <1>4. DoomInv'
    BY DEF DoomInv, Doomed
  <1>5. QED  BY <1>1, <1>2, <1>3, <1>4, MayHold DEF OddsInv

\* The context commits only a run that did not fail.
LEMMA OddsExit ==
  ASSUME OddsInv, RunInv, Exit
  PROVE  OddsInv'
  <1> DEFINE V == Rows(Seeable)
             S == Rows(Published)
  <1>1. /\ phase = "exit" /\ phase' = "idle" /\ hold' = <<>> /\ driver' = "none" /\ raised' = FALSE
        /\ plan' = <<>> /\ failed' = FALSE /\ UNCHANGED <<provider, run, whole>>
    BY Zenon DEF Exit, aux
  <1>2. PICK o \in ContextExit(h, raised) : h' = Dropped(o.db)
    BY Zenon DEF Exit
  <1>3. h \in HandlesOf(V, S) /\ h.p.store \in Rows(whole)
    BY DEF OddsInv
  <1>4. ~Doomed => V = Rows(whole)
    BY <1>1 DEF Seeable, Reading
  <1>5. Doomed /\ ~raised => h.p.seen = h.p.store
    <2>1. Doomed /\ ~raised => driver = "quicktime" /\ result = "failed"
      BY <1>1 DEF OddsInv, DoomInv, Doomed
    <2>2. driver = "quicktime" => Single
      BY DEF Single
    <2>3. QED  BY <1>1, <2>1, <2>2 DEF RunInv, CollectInv, JudgedFirst
  <1> HIDE DEF V, S
  <1>6. /\ o \in Results(V, S)
        /\ raised => o.db.p.store = h.p.store
        /\ h.p.seen = h.p.store => o.db.p.store = h.p.store
    BY <1>2, <1>3, ContextExitIs
  <1>7. o.db \in HandlesOf(V, S) /\ o.db.p.store \in V
    BY <1>6 DEF Results, HandlesOf, Sessions
  <1>8. o.db.p.store \in Rows(whole)
    BY <1>3, <1>4, <1>5, <1>6, <1>7
  <1>9. o.db \in HandlesOf(Rows(Seeable), Rows(Published))
    BY <1>7 DEF V, S
  <1>10. QED  BY <1>1, <1>2, <1>8, <1>9, OddsEnds

\* A crash loses what was not committed.
LEMMA OddsCrash ==
  ASSUME OddsInv, Crash
  PROVE  OddsInv'
  <1>1. /\ phase' = "idle" /\ hold' = <<>> /\ driver' = "none" /\ raised' = FALSE
        /\ plan' = <<>> /\ failed' = FALSE /\ UNCHANGED <<provider, run, whole>> /\ h' = Dropped(h)
    BY Zenon DEF Crash, aux
  <1>2. h \in HandlesOf(Rows(Seeable), Rows(Published)) /\ h.p.store \in Rows(whole)
    BY DEF OddsInv
  <1>3. QED  BY <1>1, <1>2, OddsEnds

\* Every step preserves both invariants.
LEMMA StepOddsInv == OddsInv /\ RunInv /\ [Next]_vars => OddsInv'
  <1> SUFFICES ASSUME OddsInv, RunInv, [Next]_vars  PROVE OddsInv'
    OBVIOUS
  <1>1. CASE Start
    BY <1>1, OddsStart
  <1>2. CASE Select
    <2>1. driver = "capture"
      BY <1>2 DEF Select, RunInv, CollectInv
    <2>2. QED  BY <1>2, <2>1, OddsSelect
  <1>3. CASE OpenData
    BY <1>3, OddsOpen
  <1>4. CASE OpenNoData
    BY <1>4, OddsNoData
  <1>5. CASE Gather \/ EndResponse
    BY <1>5, OddsWhole
  <1>6. CASE OpenFails \/ ReadFails
    BY <1>6, OddsFails
  <1>7. CASE Clear
    BY <1>7, OddsClear
  <1>8. CASE Row
    BY <1>8, OddsRow
  <1>9. CASE Collect
    BY <1>9, OddsCollect
  <1>10. CASE FinishSpecs \/ FinishSpec \/ FinishRun
    BY <1>10, OddsFinish
  <1>11. CASE FinishCapture
    BY <1>11, OddsFinishCapture
  <1>12. CASE Exit
    BY <1>12, OddsExit
  <1>13. CASE Crash
    BY <1>13, OddsCrash
  <1>14. CASE UNCHANGED vars
    <2>1. UNCHANGED <<h, provider, run, driver, phase, plan, buf, hold, failed, raised, result, whole>>
      BY <1>14 DEF vars, job, data, aux
    <2>2. Reading' = Reading
      BY <2>1 DEF Reading, At
    <2>3. Seeable' = Seeable
      BY <2>1, <2>2 DEF Seeable, Doomed
    <2>4. ReadInv' /\ DoomInv'
      BY <2>1, <2>2 DEF OddsInv, ReadInv, DoomInv, Doomed
    <2>5. QED  BY <2>1, <2>3, <2>4 DEF OddsInv
  <1>15. QED
    BY <1>1, <1>2, <1>3, <1>4, <1>5, <1>6, <1>7, <1>8, <1>9, <1>10, <1>11, <1>12, <1>13, <1>14
    DEF Next

\* Both hold throughout.
LEMMA RunInvariant == Spec => [](RunInv /\ OddsInv)
  <1>1. OddsInv => Typed(h)
    BY DEF OddsInv, HandlesOf, Sessions, Typed
  <1>2. RunInv /\ OddsInv /\ [Next]_vars => (RunInv /\ OddsInv)'
    BY <1>1, StepRunInv, StepOddsInv
  <1>3. QED  BY <1>2, InitRunInv, InitOddsInv, PTL DEF Spec

\* A collector that reports failure has changed nothing, whatever was rejected,
\* broke off or crashed and on whichever databases, except where a commit went
\* unanswered (the transactions of quickstart.py, daily_update.py and
\* background_updater.py around RealtimeUpdater).
THEOREM FailuresStoreNothing == Spec => []FailedRunStoresNothing
  <1>1. RunInv => FailedRunStoresNothing
    BY DEF RunInv, CollectInv
  <1>2. QED  BY <1>1, RunInvariant, PTL

\* A collector that reports success has stored every row it accepted and nothing
\* else; the capture command, which commits batch by batch, is left to TLC.
THEOREM SuccessesAreStored ==
  ASSUME "capture" \notin Collectors
  PROVE  Spec => []SuccessIsStored
  <1>1. RunInv => SuccessIsStored
    BY DEF RunInv, CollectInv
  <1>2. QED  BY <1>1, RunInvariant, PTL

\* An odds row is stored only if its response was read to its end, by whichever
\* collector, whatever broke off, was rejected, retried or crashed and whatever a
\* commit that was not answered made durable (fetch_timeseries and
\* process_parsed_records_batch behind the transactions of the collectors).
THEOREM OddsAreRead == Spec => []StoredOddsRead
  <1>1. OddsInv => StoredOddsRead
    BY DEF OddsInv, Rows, StoredOddsRead
  <1>2. QED  BY <1>1, RunInvariant, PTL

=============================================================================
