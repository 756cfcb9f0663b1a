---------------------------- MODULE ServicesProofs ---------------------------
(***************************************************************************)
(* Proofs about the two services that run for days: RealtimeMonitor, which *)
(* polls while races run, and BackgroundUpdater, which keeps a database up *)
(* to date.  The first has no more threads beside its last than stops have *)
(* given up; until it is started over one of those, it can stop its thread *)
(* and what it commits are whole streams; for any keys, versions, stops    *)
(* and starts.  The second keeps its lock and flags true, for any number   *)
(* of specs, API handlers, starts and triggers.                            *)
(***************************************************************************)
EXTENDS RealtimeMonitor, BackgroundUpdater, FiniteSetTheorems, TLAPS

Phase(l) == loop[l].phase

\* What a step of thread l leaves alone: the other threads, and the service.
OnlyLoop(l) ==
    /\ loop' \in [Loops -> LoopStates]
    /\ \A m \in Loops : m # l => loop'[m] = loop[m]
    /\ UNCHANGED <<service, givenUp, overlapped>>
    /\ Alive(l) /\ Alive(l)'
    /\ link' \in Loops \cup {Closed, NoData}
    /\ cycles' \in Nat

LEMMA InitMonitor == Init => MonitorInv
  <1> SUFFICES ASSUME Init PROVE MonitorInv
    OBVIOUS
  <1>1. /\ started = 0 /\ started \in 0..MaxLoops /\ cycles \in Nat /\ specs \in Keys
        /\ provider \in [Keys -> Versions] /\ givenUp = 0 /\ givenUp \in Nat
    BY MonitorAssumption DEF Init, Versions
  <1>2. db \in Rows /\ stored \in Rows
    BY MonitorAssumption DEF Init, Rows, Versions
  <1>3. NotStarted \in LoopStates
    BY MonitorAssumption DEF NotStarted, LoopStates, Versions
  <1>4. loop \in [Loops -> LoopStates]
    BY <1>3 DEF Init
  <1>5. \A l \in Loops : loop[l].phase = "none"
    BY DEF Init, NotStarted
  <1>6. TypeOK
    BY <1>1, <1>2, <1>4, Zenon DEF TypeOK, Init
  <1>7. main = "idle" /\ isRunning = FALSE
    BY DEF Init
  <1>8. LeftBehind = {} /\ ~CanBeLeft
    BY <1>5 DEF LeftBehind, CanBeLeft, Alive
  <1>9. OneThreadPerGivenUp
    BY <1>1, <1>8, FS_EmptySet DEF OneThreadPerGivenUp
  <1>10. QED
    BY <1>5, <1>6, <1>7, <1>8, <1>9 DEF MonitorInv, LaterNotStarted, LastIsAlone, RunningIsAlive,
                            StoppingIsAsked, PollingIsStoppable, Alive

\* The threads left behind are finitely many.
LEMMA LeftBehindIsFinite == IsFiniteSet(LeftBehind) /\ Cardinality(LeftBehind) \in Nat
  <1>1. IsFiniteSet(Loops)
    BY MonitorAssumption, FS_Interval DEF Loops
  <1>2. LeftBehind \subseteq Loops
    BY DEF LeftBehind
  <1>3. QED  BY <1>1, <1>2, FS_Subset, FS_CardinalityType

\* Steps that leave the same threads alive and start none.
LEMMA SameThreads ==
  ASSUME MonitorInv, UNCHANGED <<started, overlapped>>,
         \A m \in Loops : Alive(m)' <=> Alive(m),
         \/ isRunning' = isRunning /\ main' = main /\ givenUp' = givenUp
         \/ main' = "stopping" /\ isRunning' = isRunning /\ givenUp' = givenUp
         \/ /\ main = "stopping" /\ isRunning' = FALSE
            /\ givenUp' = IF started > 0 /\ Alive(started) THEN givenUp + 1 ELSE givenUp
  PROVE  OneThreadPerGivenUp' /\ LastIsAlone' /\ RunningIsAlive'
  <1>1. LeftBehind' = LeftBehind
    BY DEF LeftBehind
  <1>2. givenUp \in Nat /\ Cardinality(LeftBehind) \in Nat
    BY LeftBehindIsFinite DEF MonitorInv, TypeOK
  <1>3. LastIsAlone' /\ RunningIsAlive'
    BY <1>1 DEF MonitorInv, LastIsAlone, RunningIsAlive
  <1>4. CanBeLeft' => CanBeLeft \/ givenUp' = givenUp + 1
    BY MonitorAssumption DEF CanBeLeft, Loops
  <1>5. Cardinality(LeftBehind) + (IF CanBeLeft THEN 1 ELSE 0) <= givenUp
    BY DEF MonitorInv, OneThreadPerGivenUp
  <1>6. main = "stopping" => ~CanBeLeft
    BY DEF CanBeLeft
  <1>7. Cardinality(LeftBehind) + (IF CanBeLeft' THEN 1 ELSE 0) <= givenUp'
    <2>1. CASE givenUp' = givenUp
      <3>1. CanBeLeft' => CanBeLeft
        BY <1>2, <1>4, <2>1
      <3>2. QED  BY <1>2, <1>5, <2>1, <3>1
    <2>2. CASE givenUp' = givenUp + 1
      <3>1. Cardinality(LeftBehind) <= givenUp
        BY <1>2, <1>5
      <3>2. QED  BY <1>2, <2>2, <3>1
    <2>3. QED  BY <2>1, <2>2
  <1>8. QED  BY <1>1, <1>3, <1>7 DEF OneThreadPerGivenUp

\* Each step of a thread that stays alive.
LEMMA StaysAlive ==
  ASSUME MonitorInv, NEW l \in Loops, OnlyLoop(l), db' \in Rows, stored' \in Rows,
         inTransaction' \in BOOLEAN, provider' \in [Keys -> Versions]
  PROVE  MonitorInv'
  <1>1. TypeOK
    BY DEF MonitorInv
  <1>2. TypeOK'
    BY <1>1, Zenon DEF TypeOK, OnlyLoop, service
  <1>3. \A m \in Loops : Alive(m)' <=> Alive(m)
    BY DEF Alive, OnlyLoop
  <1>4. LaterNotStarted'
    BY DEF OnlyLoop, MonitorInv, LaterNotStarted, service, Alive
  <1>5. OneThreadPerGivenUp' /\ LastIsAlone' /\ RunningIsAlive'
    BY <1>3, SameThreads DEF OnlyLoop, service
  <1>6. PollingIsStoppable' /\ StoppingIsAsked'
    BY <1>3 DEF MonitorInv, PollingIsStoppable, StoppingIsAsked, OnlyLoop, service
  <1>7. QED  BY <1>2, <1>4, <1>5, <1>6 DEF MonitorInv

LEMMA LoopStepMonitor ==
  ASSUME MonitorInv, NEW l \in Loops, LoopStep(l) \/ CycleRaises(l), ~Leave(l)
  PROVE  /\ OnlyLoop(l) /\ db' \in Rows /\ stored' \in Rows
         /\ inTransaction' \in BOOLEAN /\ provider' \in [Keys -> Versions]
  <1>0. \A m \in Loops : Alive(m)' <=> loop'[m].phase \notin {"none", "dead"}
    BY DEF Alive
  <1>1. /\ TypeOK /\ loop \in [Loops -> LoopStates] /\ loop[l] \in LoopStates
        /\ Closed \in Loops \cup {Closed, NoData} /\ NoData \in Loops \cup {Closed, NoData}
    BY DEF MonitorInv, TypeOK
  <1>2. CASE InitDone(l) \/ SeesStop(l)
    BY <1>0, <1>1, <1>2 DEF TypeOK, LoopStates, InitDone, SeesStop, OnlyLoop, Alive, data, history
  <1>3. CASE BeginCycle(l)
    <2>0. specs \in 0..LastKey /\ 0 \in 0..LastKey /\ 0 \in Versions
      BY <1>1, MonitorAssumption DEF TypeOK, Keys, Versions
    <2>1. NotStarted \in LoopStates
      BY <2>0 DEF NotStarted, LoopStates
    <2>2. [NotStarted EXCEPT !.phase = "keys", !.last = specs] \in LoopStates
      BY <2>0, <2>1 DEF LoopStates
    <2>3. QED  BY <1>0, <1>1, <1>3, <2>2 DEF TypeOK, BeginCycle, OnlyLoop, Alive, NotStarted
  <1>4. ASSUME NEW fails \in BOOLEAN, Return(l, fails)
        PROVE  /\ loop' \in [Loops -> LoopStates] /\ loop'[l].phase = "keys"
               /\ \A m \in Loops : m # l => loop'[m] = loop[m]
    <2>1. /\ loop[l].failed \in BOOLEAN /\ loop[l].key + 1 \in Nat \ {0} /\ 0 \in Versions
          /\ loop[l].last \in 0..LastKey
      BY <1>1, MonitorAssumption DEF LoopStates, Versions
    <2>2. (loop[l].failed \/ fails) \in BOOLEAN
      BY <2>1, <1>4
    <2>3. ASSUME NEW f, f \in BOOLEAN, NEW k \in Nat \ {0}
          PROVE  [loop EXCEPT ![l].phase = "keys", ![l].key = k, ![l].version = 0,
                              ![l].toRead = {}, ![l].failed = f] \in [Loops -> LoopStates]
      BY <1>1, <2>1, <2>3 DEF LoopStates
    <2>4. loop' \in [Loops -> LoopStates]
      BY <1>4, <2>1, <2>2, <2>3 DEF Return
    <2>5. QED  BY <1>1, <1>4, <2>4 DEF Return, LoopStates
  <1>5. CASE OpenRaises(l)
    BY <1>0, <1>1, <1>4, <1>5 DEF TypeOK, OpenRaises, CallsOpen, Close, OnlyLoop, Alive, data, history
  <1>6. CASE OpenNoData(l)
    BY <1>0, <1>1, <1>4, <1>6 DEF TypeOK, OpenNoData, CallsOpen, OnlyLoop, Alive, data, history
  <1>7. CASE OpenStream(l)
    <2>1. PICK v \in Versions \ {0} :
            /\ v >= provider[loop[l].key]
            /\ provider' = [provider EXCEPT ![loop[l].key] = v]
            /\ db' = Cleared(loop[l].key)
            /\ inTransaction' = (inTransaction \/ loop[l].key \in SnapshotKeys)
            /\ loop' = [loop EXCEPT ![l].phase = "drain", ![l].version = v,
                                    ![l].toRead = Content[v]]
      BY <1>7 DEF OpenStream
    <2>2. [loop[l] EXCEPT !.phase = "drain", !.version = v, !.toRead = Content[v]] \in LoopStates
      BY <1>1, MonitorAssumption DEF LoopStates
    <2>3. db' \in Rows
      BY <1>1, <2>1, MonitorAssumption DEF TypeOK, Rows, Cleared, Versions
    <2>4. provider' \in [Keys -> Versions] /\ inTransaction' \in BOOLEAN
      BY <1>1, <2>1 DEF TypeOK
    <2>5. QED
      BY <1>0, <1>1, <1>7, <2>1, <2>2, <2>3, <2>4
      DEF TypeOK, OpenStream, CallsOpen, OnlyLoop, Alive, history, LoopStates
  <1>8. ASSUME NEW s \in Slots, ReadRow(l, s) \/ ReadAndCommitRow(l, s)
        PROVE  /\ loop' \in [Loops -> LoopStates] /\ Alive(l) /\ loop'[l].phase = "drain"
               /\ \A m \in Loops : m # l => loop'[m] = loop[m]
               /\ db' \in Rows
    <2>1. /\ Draining(l) /\ db' = [db EXCEPT ![loop[l].key][s] = loop[l].version]
          /\ loop' = [loop EXCEPT ![l].toRead = @ \ {s}]
      BY <1>8 DEF ReadRow, ReadAndCommitRow, IsRead
    <2>2. [loop[l] EXCEPT !.toRead = loop[l].toRead \ {s}] \in LoopStates
      BY <1>1 DEF LoopStates
    <2>3. loop[l].version \in Versions
      BY <1>1 DEF LoopStates
    <2>4. db' \in Rows
      BY <1>1, <2>1, <2>3 DEF TypeOK, Rows
    <2>5. QED  BY <1>1, <2>1, <2>2, <2>4 DEF Alive, Draining, LoopStates
  <1>9. CASE \E s \in Slots : ReadRow(l, s)
    BY <1>0, <1>1, <1>8, <1>9 DEF TypeOK, ReadRow, OnlyLoop, history
  <1>10. CASE \E s \in Slots : ReadAndCommitRow(l, s)
    BY <1>0, <1>1, <1>8, <1>10 DEF TypeOK, ReadAndCommitRow, OnlyLoop, history
  <1>11. CASE \E s \in Slots : RowFails(l, s)
    <2>1. PICK s \in Slots : RowFails(l, s)
      BY <1>11
    <2>2. [loop[l] EXCEPT !.toRead = loop[l].toRead \ {s}, !.failed = TRUE] \in LoopStates
      BY <1>1 DEF LoopStates
    <2>3. db' \in Rows /\ inTransaction' \in BOOLEAN
      BY <1>1, <2>1 DEF RowFails, TypeOK
    <2>4. QED  BY <1>0, <1>1, <2>1, <2>2, <2>3 DEF RowFails, TypeOK, OnlyLoop, Alive, IsRead, Draining, history, LoopStates
  <1>12. CASE EndStream(l)
    BY <1>0, <1>1, <1>4, <1>12 DEF TypeOK, EndStream, Draining, OnlyLoop, Alive, data, history
  <1>13. CASE DrainFails(l)
    BY <1>0, <1>1, <1>4, <1>13 DEF TypeOK, DrainFails, Draining, Close, OnlyLoop, Alive, data, history
  <1>14. CASE Commit(l) \/ Rollback(l) \/ CycleRaises(l)
    <2>1. loop' = [loop EXCEPT ![l] = Waiting] /\ loop[l].phase = "keys"
      BY <1>14 DEF Commit, Rollback, CycleRaises, CycleOver
    <2>2. /\ loop' \in [Loops -> LoopStates] /\ loop'[l].phase = "wait"
          /\ \A m \in Loops : m # l => loop'[m] = loop[m]
      <3>1. Waiting \in LoopStates /\ Waiting.phase = "wait"
        <4>1. 0 \in 0..LastKey /\ 0 \in Versions
          BY MonitorAssumption DEF Versions
        <4>2. NotStarted \in LoopStates
          BY <4>1 DEF NotStarted, LoopStates
        <4>3. QED  BY <4>2 DEF Waiting, LoopStates
      <3>2. QED  BY <1>1, <2>1, <3>1
    <2>3. QED
      BY <1>0, <1>1, <1>14, <2>1, <2>2
      DEF TypeOK, Commit, Rollback, CycleRaises, OnlyLoop, Alive, history
  <1>15. QED
    BY <1>2, <1>3, <1>5, <1>6, <1>7, <1>9, <1>10, <1>11, <1>12, <1>13, <1>14 DEF LoopStep

\* The last step of a thread: one thread less is left behind, or none is.
LEMMA LeaveMonitor ==
  ASSUME MonitorInv, NEW l \in Loops, Leave(l) \/ InitFails(l)
  PROVE  MonitorInv'
  <1>1. TypeOK /\ loop[l] \in LoopStates /\ loop \in [Loops -> LoopStates]
    BY DEF MonitorInv, TypeOK
  <1>2. /\ loop' = [loop EXCEPT ![l].phase = "dead"] /\ isRunning' = FALSE
        /\ Alive(l) /\ link' \in {Closed, link}
        /\ UNCHANGED <<stopEvent, main, started, specs, provider, data, cycles, givenUp,
                       overlapped>>
    BY DEF Leave, InitFails, Dies, Close, Alive, history
  <1>3. loop' \in [Loops -> LoopStates]
    BY <1>1, <1>2 DEF LoopStates
  <1>4. link' \in Loops \cup {Closed, NoData}
    BY <1>1, <1>2 DEF TypeOK
  <1>5. TypeOK'
    BY <1>1, <1>2, <1>3, <1>4, Zenon DEF TypeOK, data
  <1>6. ~Alive(l)' /\ \A m \in Loops : m # l => (Alive(m)' <=> Alive(m))
    BY <1>1, <1>2 DEF Alive, LoopStates
  <1>7. LaterNotStarted'
    BY <1>1, <1>2 DEF MonitorInv, LaterNotStarted, Alive
  <1>8. LeftBehind' = LeftBehind \ {l}
    BY <1>2, <1>6 DEF LeftBehind
  <1>9. /\ givenUp \in Nat /\ IsFiniteSet(LeftBehind) /\ Cardinality(LeftBehind) \in Nat
        /\ Cardinality(LeftBehind) <= givenUp
    BY LeftBehindIsFinite DEF MonitorInv, TypeOK, OneThreadPerGivenUp
  <1>10. OneThreadPerGivenUp'
    <2>1. CASE l = started
      <3>1. LeftBehind' = LeftBehind /\ ~CanBeLeft'
        BY <1>2, <1>6, <1>8, <2>1 DEF LeftBehind, CanBeLeft
      <3>2. QED  BY <1>2, <1>9, <3>1 DEF OneThreadPerGivenUp
    <2>2. CASE l # started
      <3>1. l \in LeftBehind
        BY <1>2, <2>2 DEF LeftBehind
      <3>2. Cardinality(LeftBehind') = Cardinality(LeftBehind) - 1
        BY <1>8, <1>9, <3>1, FS_RemoveElement
      <3>3. QED  BY <1>2, <1>9, <3>2 DEF OneThreadPerGivenUp
    <2>3. QED  BY <2>1, <2>2
  <1>11. LastIsAlone' /\ RunningIsAlive'
    BY <1>2, <1>8 DEF MonitorInv, LastIsAlone, RunningIsAlive
  <1>12. PollingIsStoppable'
    <2>1. ASSUME ~overlapped, NEW m \in Loops PROVE ~Alive(m)'
      <3>1. LeftBehind = {}
        BY <2>1 DEF MonitorInv, LastIsAlone
      <3>2. l = started /\ (Alive(m) => m = started)
        BY <1>2, <3>1 DEF LeftBehind
      <3>3. QED  BY <1>6, <3>2
    <2>2. QED  BY <1>2, <2>1 DEF PollingIsStoppable
  <1>13. QED
    BY <1>2, <1>5, <1>7, <1>10, <1>11, <1>12 DEF MonitorInv, StoppingIsAsked

\* A start over a living thread leaves it behind.
LEMMA StartMonitor ==
  ASSUME MonitorInv, Start
  PROVE  MonitorInv'
  <1>1. /\ TypeOK /\ loop \in [Loops -> LoopStates] /\ started \in 0..MaxLoops
        /\ MaxLoops \in Nat
    BY MonitorAssumption DEF MonitorInv, TypeOK
  <1>n. PICK n \in Loops : n = started + 1
    BY <1>1 DEF Start, Loops
  <1>2. /\ started' = n /\ started' \in 0..MaxLoops /\ started # n
        /\ \A m \in Loops : m > n => m > started
        /\ loop' = [loop EXCEPT ![n].phase = "init"]
        /\ stopEvent' = FALSE /\ isRunning' = TRUE /\ ~isRunning /\ main = "idle"
        /\ overlapped' = (overlapped \/ \E l \in Loops : Alive(l))
        /\ UNCHANGED <<main, specs, link, provider, data, cycles, givenUp>>
    BY <1>1, <1>n DEF Start, Loops
  <1>3. loop' \in [Loops -> LoopStates]
    BY <1>1, <1>2 DEF LoopStates
  <1>4. overlapped' \in BOOLEAN
    BY <1>2, Zenon
  <1>5. TypeOK'
    BY <1>1, <1>2, <1>3, <1>4, Zenon DEF TypeOK, data
  <1>6. ~Alive(n)
    BY <1>1, <1>n DEF MonitorInv, LaterNotStarted, Alive
  <1>7. /\ Alive(n)'
        /\ \A m \in Loops : m # n => (Alive(m)' <=> Alive(m))
    <2>1. loop[n] \in LoopStates
      BY <1>1, <1>2
    <2>2. /\ loop'[n] = [loop[n] EXCEPT !.phase = "init"]
          /\ \A m \in Loops : m # n => loop'[m] = loop[m]
      BY <1>1, <1>2
    <2>3. loop'[n].phase = "init"
      BY <2>1, <2>2 DEF LoopStates
    <2>4. Alive(n)'
      BY <1>2, <2>3 DEF Alive
    <2>5. QED  BY <2>2, <2>4 DEF Alive
  <1>8. LaterNotStarted'
    BY <1>1, <1>2 DEF MonitorInv, LaterNotStarted
  <1>9. LeftBehind' = {m \in Loops : Alive(m)}
    BY <1>2, <1>6, <1>7 DEF LeftBehind
  <1>10. OneThreadPerGivenUp'
    <2>1. ~CanBeLeft'
      BY <1>2 DEF CanBeLeft
    <2>2. /\ givenUp \in Nat /\ IsFiniteSet(LeftBehind) /\ Cardinality(LeftBehind) \in Nat
          /\ Cardinality(LeftBehind) + (IF CanBeLeft THEN 1 ELSE 0) <= givenUp
      BY LeftBehindIsFinite DEF MonitorInv, TypeOK, OneThreadPerGivenUp
    <2>3. CASE started \in Loops /\ Alive(started)
      <3>1. CanBeLeft /\ started \notin LeftBehind
        BY <1>2, <2>3 DEF CanBeLeft, LeftBehind
      <3>2. LeftBehind' = LeftBehind \cup {started}
        BY <1>9, <2>3 DEF LeftBehind
      <3>3. Cardinality(LeftBehind') = Cardinality(LeftBehind) + 1
        BY <2>2, <3>1, <3>2, FS_AddElement
      <3>4. QED  BY <1>2, <2>1, <2>2, <3>1, <3>3 DEF OneThreadPerGivenUp
    <2>4. CASE ~(started \in Loops /\ Alive(started))
      <3>1. LeftBehind' = LeftBehind
        BY <1>9, <2>4 DEF LeftBehind
      <3>2. QED  BY <1>2, <2>1, <2>2, <3>1 DEF OneThreadPerGivenUp
    <2>5. QED  BY <2>3, <2>4
  <1>11. LastIsAlone' /\ RunningIsAlive'
    <2>1. RunningIsAlive'
      BY <1>2, <1>7 DEF RunningIsAlive
    <2>2. ~overlapped' => {m \in Loops : Alive(m)} = {}
      BY <1>2, Zenon
    <2>3. QED  BY <1>9, <2>1, <2>2 DEF LastIsAlone
  <1>12. StoppingIsAsked' /\ PollingIsStoppable'
    BY <1>2 DEF StoppingIsAsked, PollingIsStoppable
  <1>13. QED
    BY <1>5, <1>8, <1>10, <1>11, <1>12 DEF MonitorInv

\* The other calls of the service's methods.
LEMMA ServiceMonitor ==
  ASSUME MonitorInv, BeginStop \/ EndStop \/ AddDataSpec
  PROVE  MonitorInv'
  <1>1. TypeOK /\ LastKey \in Nat /\ givenUp \in Nat
    BY MonitorAssumption DEF MonitorInv, TypeOK
  <1>2. /\ UNCHANGED <<started, loop, overlapped>>
        /\ \A m \in Loops : Alive(m)' <=> Alive(m)
    BY DEF BeginStop, EndStop, AddDataSpec, Alive, history
  <1>3. specs' \in Keys
    BY <1>1 DEF BeginStop, EndStop, AddDataSpec, TypeOK, Keys
  <1>4. givenUp' \in Nat
    BY <1>1 DEF BeginStop, EndStop, AddDataSpec, history
  <1>5. TypeOK'
    BY <1>1, <1>2, <1>3, <1>4, Zenon DEF TypeOK, BeginStop, EndStop, AddDataSpec, data, history
  <1>6. OneThreadPerGivenUp' /\ LastIsAlone' /\ RunningIsAlive'
    BY <1>2, SameThreads DEF BeginStop, EndStop, AddDataSpec, history
  <1>7. LaterNotStarted'
    BY <1>2 DEF MonitorInv, LaterNotStarted
  <1>8. StoppingIsAsked' /\ PollingIsStoppable'
    BY <1>2 DEF BeginStop, EndStop, AddDataSpec, MonitorInv, StoppingIsAsked,
                PollingIsStoppable
  <1>9. QED  BY <1>5, <1>6, <1>7, <1>8 DEF MonitorInv

LEMMA StepMonitor ==
  ASSUME MonitorInv, [Next]_vars
  PROVE  MonitorInv'
  <1>1. CASE Start
    BY <1>1, StartMonitor
  <1>2. CASE BeginStop \/ EndStop \/ AddDataSpec
    BY <1>2, ServiceMonitor
  <1>3. ASSUME NEW l \in Loops, LoopStep(l) \/ InitFails(l) \/ CycleRaises(l)
        PROVE  MonitorInv'
    <2>1. CASE Leave(l) \/ InitFails(l)
      BY <2>1, LeaveMonitor
    <2>2. CASE (LoopStep(l) \/ CycleRaises(l)) /\ ~Leave(l)
      BY <2>2, LoopStepMonitor, StaysAlive
    <2>3. QED  BY <1>3, <2>1, <2>2
  <1>4. CASE UNCHANGED vars
    <2>1. TypeOK'
      BY <1>4, Zenon DEF vars, service, data, history, MonitorInv, TypeOK
    <2>2. LeftBehind' = LeftBehind /\ (CanBeLeft' <=> CanBeLeft)
      BY <1>4 DEF vars, service, LeftBehind, CanBeLeft, Alive
    <2>3. OneThreadPerGivenUp' /\ LastIsAlone'
      BY <1>4, <2>2 DEF vars, history, MonitorInv, OneThreadPerGivenUp, LastIsAlone
    <2>4. QED
      BY <1>4, <2>1, <2>3 DEF vars, service, history, MonitorInv, LaterNotStarted, RunningIsAlive,
                         StoppingIsAsked, PollingIsStoppable, Alive
  <1>5. QED  BY <1>1, <1>2, <1>3, <1>4 DEF Next

\* For any keys, streams, stops that time out and starts after them: the polling
\* threads that live beside the last one started are never more than the joins
\* that timed out, so that there is one thread until a stop gives up; is_running
\* is never true of a thread that has ended; and until a start is made over a
\* living thread, stop() does not refuse while one polls.
THEOREM MonitorInvariant == Spec => []MonitorInv
  <1>1. MonitorInv /\ [Next]_vars => MonitorInv'
    BY StepMonitor
  <1>2. QED  BY InitMonitor, <1>1, PTL DEF Spec

-----------------------------------------------------------------------------

InCycle(l) == Phase(l) \in {"keys", "drain"}

\* No row is newer than its key's last stream.
Newest ==
    \A k \in Keys : \A s \in Slots : stored[k][s] <= provider[k] /\ db[k][s] <= provider[k]

\* A transaction is that of a cycle, and without one everything is committed.
TransactionOfCycle ==
    /\ (\A l \in Loops : ~InCycle(l)) => ~inTransaction
    /\ ~inTransaction => db = stored

\* The rows r of a key of which the rows toRead of version v are still to come.
PartOf(k, r, v, toRead) ==
    IF k \in SnapshotKeys
      THEN \A s \in Slots : r[s] = IF s \in Content[v] \ toRead THEN v ELSE 0
      ELSE /\ \A s \in Content[v] \ toRead : r[s] = v
           /\ \A s, t \in Slots :
                t \in Content[r[s]] => r[t] >= r[s] \/ (r[s] = v /\ t \in toRead)

\* The stream of thread l is its key's last; its rows so far are in the database.
StreamOf(l) ==
    /\ loop[l].key \in Keys /\ loop[l].version = provider[loop[l].key]
    /\ loop[l].toRead \subseteq Content[loop[l].version]
    /\ (~loop[l].failed /\ loop[l].key \notin MiningKeys) =>
          PartOf(loop[l].key, db[loop[l].key], loop[l].version, loop[l].toRead)

\* While nothing has failed the cycle can be committed but for the open stream.
CycleIsWhole(l) ==
    \A k \in Keys \ MiningKeys : (Draining(l) /\ k = loop[l].key) \/ Whole(db, k)

StreamInv ==
    /\ StreamsWhole
    /\ Newest
    /\ TransactionOfCycle
    /\ \A l \in Loops : Draining(l) => StreamOf(l)
    /\ \A l \in Loops : InCycle(l) /\ ~loop[l].failed => CycleIsWhole(l)

LEMMA WholeSame ==
  ASSUME NEW r1, NEW r2, NEW k, r1[k] = r2[k]
  PROVE  Whole(r1, k) <=> Whole(r2, k)
  BY DEF Whole

LEMMA PartOfNothing ==
  ASSUME NEW k \in Keys, NEW v \in Versions, NEW rows \in Rows,
         IF k \in SnapshotKeys THEN \A s \in Slots : rows[k][s] = 0 ELSE Whole(rows, k)
  PROVE  PartOf(k, rows[k], v, Content[v])
  BY DEF PartOf, Whole

LEMMA WholeOfPart ==
  ASSUME NEW k \in Keys, NEW v \in Versions, NEW rows \in Rows, PartOf(k, rows[k], v, {})
  PROVE  Whole(rows, k)
  <1>1. rows[k] \in [Slots -> Versions]
    BY DEF Rows
  <1>2. CASE k \in SnapshotKeys
    <2>1. \A s \in Slots : rows[k][s] = IF s \in Content[v] THEN v ELSE 0
      BY <1>2 DEF PartOf
    <2>2. rows[k] = [s \in Slots |-> IF s \in Content[v] THEN v ELSE 0]
      BY <1>1, <2>1
    <2>3. QED  BY <1>2, <2>2 DEF Whole
  <1>3. CASE k \notin SnapshotKeys
    BY <1>3 DEF PartOf, Whole
  <1>4. QED  BY <1>2, <1>3

\* Reading the next row leaves one row less to come.
LEMMA PartOfRead ==
  ASSUME NEW k \in Keys, NEW v \in Versions, NEW r \in [Slots -> Versions],
         NEW toRead, toRead \subseteq Content[v], NEW s \in toRead, s \in Slots,
         \A t \in Slots : r[t] <= v,
         PartOf(k, r, v, toRead)
  PROVE  PartOf(k, [r EXCEPT ![s] = v], v, toRead \ {s})
  <1> DEFINE q == [r EXCEPT ![s] = v]
  <1>1. q[s] = v /\ \A t \in Slots : t # s => q[t] = r[t]
    OBVIOUS
  <1>2. Content[v] \subseteq Slots /\ v \in Int /\ \A t \in Slots : r[t] \in Int
    BY MonitorAssumption DEF Versions
  <1>3. \A t \in Slots : r[t] <= q[t]
    BY <1>1, <1>2
  <1> HIDE DEF q
  <1>4. CASE k \in SnapshotKeys
    <2>1. \A t \in Slots : r[t] = IF t \in Content[v] \ toRead THEN v ELSE 0
      BY <1>4 DEF PartOf
    <2>2. \A t \in Slots : q[t] = IF t \in Content[v] \ (toRead \ {s}) THEN v ELSE 0
      BY <1>1, <2>1
    <2>3. QED  BY <1>4, <2>2 DEF PartOf, q
  <1>5. CASE k \notin SnapshotKeys
    <2>1. /\ \A t \in Content[v] \ toRead : r[t] = v
          /\ \A t, u \in Slots :
               u \in Content[r[t]] => r[u] >= r[t] \/ (r[t] = v /\ u \in toRead)
      BY <1>5 DEF PartOf
    <2>2. \A t \in Content[v] \ (toRead \ {s}) : q[t] = v
      BY <1>1, <1>2, <2>1
    <2>3. ASSUME NEW t \in Slots, NEW u \in Slots, u \in Content[q[t]]
          PROVE  q[u] >= q[t] \/ (q[t] = v /\ u \in toRead \ {s})
      <3>1. CASE t = s
        BY <1>1, <1>2, <2>2, <2>3, <3>1
      <3>2. CASE t # s /\ u = s
        BY <1>1, <1>2, <3>2
      <3>3. CASE t # s /\ u # s
        BY <1>1, <2>1, <2>3, <3>3
      <3>4. QED  BY <3>1, <3>2, <3>3
    <2>4. QED  BY <1>5, <2>2, <2>3 DEF PartOf, q
  <1>6. QED  BY <1>4, <1>5

\* Beside the one thread that lives, the others do nothing.
LEMMA OthersIdle ==
  ASSUME MonitorInv, ~overlapped, NEW l \in Loops, Alive(l)
  PROVE  \A m \in Loops : m # l => ~Draining(m) /\ ~InCycle(m)
  BY DEF MonitorInv, LastIsAlone, LeftBehind, Alive, Draining, InCycle, Phase

\* What a step of thread l has to preserve.
LEMMA StreamStep ==
  ASSUME MonitorInv, ~overlapped, NEW l \in Loops, Alive(l),
         \A m \in Loops : m # l => loop'[m] = loop[m],
         StreamsWhole', Newest',
         InCycle(l)' \/ ~inTransaction', ~inTransaction' => db' = stored',
         Draining(l)' => StreamOf(l)',
         InCycle(l)' /\ ~loop'[l].failed => CycleIsWhole(l)'
  PROVE  StreamInv'
  <1>1. \A m \in Loops : m # l => ~Draining(m)' /\ ~InCycle(m)'
    BY OthersIdle DEF Draining, InCycle, Phase
  <1>2. TransactionOfCycle'
    BY DEF TransactionOfCycle
  <1>3. \A m \in Loops : Draining(m)' => StreamOf(m)'
    BY <1>1
  <1>4. \A m \in Loops : InCycle(m)' /\ ~loop'[m].failed => CycleIsWhole(m)'
    BY <1>1
  <1>5. QED  BY <1>2, <1>3, <1>4 DEF StreamInv

LEMMA InitStream == Init => StreamInv
  <1> SUFFICES ASSUME Init PROVE StreamInv
    OBVIOUS
  <1>1. \A l \in Loops : ~Draining(l) /\ ~InCycle(l)
    BY DEF Init, NotStarted, Draining, InCycle, Phase
  <1>2. \A k \in Keys : stored[k] = [s \in Slots |-> 0] /\ db[k] = stored[k] /\ provider[k] = 0
    BY DEF Init
  <1>3. ASSUME NEW k \in Keys PROVE Whole(stored, k)
    <2>1. 0 \in Versions /\ Content[0] = {}
      BY MonitorAssumption DEF Versions
    <2>2. [s \in Slots |-> 0] = [s \in Slots |-> IF s \in Content[0] THEN 0 ELSE 0]
      OBVIOUS
    <2>3. \A s \in Slots : stored[k][s] = 0
      BY <1>2
    <2>4. QED  BY <1>2, <2>1, <2>2, <2>3 DEF Whole
  <1>4. Newest
    BY <1>2 DEF Newest
  <1>5. QED
    BY <1>1, <1>3, <1>4 DEF StreamInv, StreamsWhole, TransactionOfCycle, Init

\* The steps outside a cycle.
LEMMA ServiceStream ==
  ASSUME MonitorInv, ~overlapped', StreamInv,
         Start \/ BeginStop \/ EndStop \/ AddDataSpec
  PROVE  StreamInv'
  <1>1. UNCHANGED <<data, provider>>
    BY DEF Start, BeginStop, EndStop, AddDataSpec
  <1>2. loop \in [Loops -> LoopStates]
    BY DEF MonitorInv, TypeOK
  <1>3. CASE BeginStop \/ EndStop \/ AddDataSpec
    BY <1>1, <1>3 DEF BeginStop, EndStop, AddDataSpec, StreamInv, StreamsWhole, Newest,
                      TransactionOfCycle, StreamOf, PartOf, CycleIsWhole, Whole, Draining, InCycle,
                      Phase, data
  <1>4. CASE Start
    <2>1. \A m \in Loops : ~Alive(m)
      BY <1>4, Zenon DEF Start
    <2>2. \A m \in Loops : ~Draining(m)' /\ ~InCycle(m)'
      <3>1. /\ loop' = [loop EXCEPT ![started + 1].phase = "init"]
            /\ started + 1 \in Loops
        BY <1>4, MonitorAssumption DEF Start, MonitorInv, TypeOK, Loops
      <3>2. loop[started + 1] \in LoopStates
        BY <1>2, <3>1
      <3>3. \A m \in Loops : loop'[m] = IF m = started + 1
                                      THEN [loop[started + 1] EXCEPT !.phase = "init"]
                                      ELSE loop[m]
        BY <1>2, <3>1
      <3>4. loop'[started + 1].phase = "init"
        BY <3>1, <3>2, <3>3 DEF LoopStates
      <3>5. QED  BY <2>1, <3>3, <3>4 DEF Alive, Draining, InCycle, Phase
    <2>5. ~inTransaction'
      BY <1>1, <2>1 DEF StreamInv, TransactionOfCycle, InCycle, Phase, Alive, data
    <2>3. StreamsWhole' /\ Newest' /\ (~inTransaction' => db' = stored')
      BY <1>1 DEF StreamInv, StreamsWhole, Whole, Newest, TransactionOfCycle, data
    <2>4. QED  BY <2>2, <2>3, <2>5 DEF StreamInv, TransactionOfCycle
  <1>5. QED  BY <1>3, <1>4

LEMMA OutsideStream ==
  ASSUME MonitorInv, ~overlapped, StreamInv, NEW l \in Loops,
         InitDone(l) \/ SeesStop(l) \/ Leave(l) \/ InitFails(l)
  PROVE  StreamInv'
  <1>1. UNCHANGED <<data, provider>>
    BY DEF InitDone, SeesStop, Leave, InitFails, Dies
  <1>2. StreamsWhole' /\ Newest' /\ (~inTransaction' => db' = stored')
    BY <1>1 DEF StreamInv, StreamsWhole, Whole, Newest, TransactionOfCycle, data
  <1>3. loop \in [Loops -> LoopStates] /\ loop[l].phase \in {"init", "wait", "leaving"}
    BY DEF MonitorInv, TypeOK, InitDone, SeesStop, Leave, InitFails
  <1>4. PICK p \in {"wait", "leaving", "dead"} : loop' = [loop EXCEPT ![l].phase = p]
    BY DEF InitDone, SeesStop, Leave, InitFails, Dies
  <1>5. loop'[l].phase = p /\ \A m \in Loops : m # l => loop'[m] = loop[m]
    BY <1>3, <1>4 DEF LoopStates
  <1>6. Alive(l) /\ ~InCycle(l) /\ ~Draining(l)' /\ ~InCycle(l)'
    BY <1>3, <1>5 DEF Alive, Draining, InCycle, Phase
  <1>7. ~inTransaction'
    BY <1>1, <1>6, OthersIdle DEF StreamInv, TransactionOfCycle, data
  <1>8. QED  BY <1>2, <1>5, <1>6, <1>7, StreamStep

LEMMA BeginStream ==
  ASSUME MonitorInv, ~overlapped, StreamInv, NEW l \in Loops, BeginCycle(l)
  PROVE  StreamInv'
  <1>1. loop \in [Loops -> LoopStates]
    BY DEF MonitorInv, TypeOK
  <1>2. /\ Alive(l) /\ ~InCycle(l) /\ Phase(l)' = "keys"
        /\ \A m \in Loops : m # l => loop'[m] = loop[m]
        /\ inTransaction' = TRUE /\ UNCHANGED <<db, stored, provider>>
    BY <1>1 DEF BeginCycle, NotStarted, Alive, InCycle, Phase
  <1>3. db = stored
    BY <1>2, OthersIdle DEF StreamInv, TransactionOfCycle
  <1>4. StreamsWhole' /\ Newest' /\ CycleIsWhole(l)'
    BY <1>2, <1>3 DEF StreamInv, StreamsWhole, Whole, Newest, CycleIsWhole
  <1>5. ~Draining(l)' /\ InCycle(l)'
    BY <1>2 DEF Draining, InCycle, Phase
  <1>6. QED  BY <1>2, <1>4, <1>5, StreamStep

\* The key ends.
LEMMA ReturnStream ==
  ASSUME MonitorInv, ~overlapped, StreamInv, NEW l \in Loops,
         OpenRaises(l) \/ OpenNoData(l) \/ EndStream(l) \/ DrainFails(l)
  PROVE  StreamInv'
  <1>1. loop \in [Loops -> LoopStates] /\ loop[l] \in LoopStates /\ db \in Rows
        /\ provider \in [Keys -> Versions]
    BY DEF MonitorInv, TypeOK
  <1>2. PICK fails \in BOOLEAN :
          /\ Return(l, fails) /\ UNCHANGED <<provider, data>>
          /\ DrainFails(l) => fails
    BY DEF OpenRaises, OpenNoData, EndStream, DrainFails
  <1>3. /\ Alive(l) /\ InCycle(l) /\ Phase(l)' = "keys"
        /\ loop'[l].failed = (loop[l].failed \/ fails)
        /\ \A m \in Loops : m # l => loop'[m] = loop[m]
    BY <1>1, <1>2 DEF Return, OpenRaises, OpenNoData, EndStream, DrainFails, CallsOpen, Draining,
                      Alive, InCycle, Phase, LoopStates
  <1>4. StreamsWhole' /\ Newest' /\ (~inTransaction' => db' = stored')
    BY <1>2 DEF StreamInv, StreamsWhole, Whole, Newest, TransactionOfCycle, data
  <1>5. ASSUME ~loop'[l].failed PROVE CycleIsWhole(l)'
    <2>1. ~loop[l].failed /\ ~DrainFails(l) /\ CycleIsWhole(l)
      BY <1>2, <1>3, <1>5 DEF StreamInv
    <2>2. CASE ~Draining(l)
      BY <1>2, <2>1, <2>2 DEF CycleIsWhole, Whole, data
    <2>3. CASE Draining(l)
      <3>1. loop[l].toRead = {} /\ StreamOf(l)
        BY <2>1, <2>3 DEF StreamInv, OpenRaises, OpenNoData, EndStream, CallsOpen, Draining
      <3>2. /\ loop[l].key \in Keys /\ loop[l].version \in Versions
            /\ loop[l].key \notin MiningKeys =>
                 PartOf(loop[l].key, db[loop[l].key], loop[l].version, {})
        BY <1>1, <2>1, <3>1 DEF StreamOf, LoopStates
      <3>3. loop[l].key \notin MiningKeys => Whole(db, loop[l].key)
        BY <1>1, <3>2, WholeOfPart
      <3>4. \A k \in Keys \ MiningKeys : Whole(db, k)
        BY <2>1, <3>3 DEF CycleIsWhole
      <3>5. QED  BY <1>2, <3>4 DEF CycleIsWhole, Whole, data
    <2>4. QED  BY <2>2, <2>3
  <1>6. ~Draining(l)' /\ InCycle(l)'
    BY <1>3 DEF Draining, InCycle, Phase
  <1>7. QED  BY <1>3, <1>4, <1>5, <1>6, StreamStep

\* The cycle ends.
LEMMA EndCycleStream ==
  ASSUME MonitorInv, ~overlapped, StreamInv, NEW l \in Loops, Commit(l) \/ Rollback(l) \/ CycleRaises(l)
  PROVE  StreamInv'
  <1>1. loop \in [Loops -> LoopStates]
    BY DEF MonitorInv, TypeOK
  <1>2. loop[l].phase = "keys" /\ loop' = [loop EXCEPT ![l] = Waiting]
    BY DEF Commit, Rollback, CycleRaises, CycleOver
  <1>3. /\ provider' = provider /\ db' = stored' /\ ~inTransaction'
        /\ stored' = stored \/ (stored' = db /\ ~loop[l].failed)
    BY Zenon DEF Commit, Rollback, CycleRaises
  <1>4. Phase(l)' = "wait" /\ \A m \in Loops : m # l => loop'[m] = loop[m]
    BY <1>1, <1>2 DEF Phase, Waiting, NotStarted
  <1>5. /\ Alive(l) /\ InCycle(l) /\ ~Draining(l) /\ Phase(l)' = "wait"
        /\ \A m \in Loops : m # l => loop'[m] = loop[m]
        /\ provider' = provider /\ db' = stored' /\ ~inTransaction'
        /\ stored' = stored \/ (stored' = db /\ ~loop[l].failed)
    BY <1>2, <1>3, <1>4 DEF Alive, InCycle, Draining, Phase
  <1>6. StreamsWhole'
    BY <1>5 DEF StreamInv, StreamsWhole, CycleIsWhole, Whole
  <1>7. Newest'
    BY <1>5 DEF StreamInv, Newest
  <1>8. ~Draining(l)' /\ ~InCycle(l)'
    BY <1>5 DEF Draining, InCycle, Phase
  <1>9. QED  BY <1>5, <1>6, <1>7, <1>8, StreamStep

LEMMA OpenStreamStep ==
  ASSUME MonitorInv, ~overlapped, StreamInv, NEW l \in Loops, OpenStream(l)
  PROVE  StreamInv'
  <1> DEFINE k == loop[l].key
  <1>1. /\ loop \in [Loops -> LoopStates] /\ loop[l] \in LoopStates /\ db \in Rows
        /\ provider \in [Keys -> Versions] /\ inTransaction \in BOOLEAN
    BY DEF MonitorInv, TypeOK
  <1>2. /\ loop[l].phase = "keys" /\ k \in Keys
    BY <1>1, MonitorAssumption DEF OpenStream, CallsOpen, LoopStates, Keys
  <1>3. PICK v \in Versions \ {0} :
          /\ v >= provider[k]
          /\ provider' = [provider EXCEPT ![k] = v]
          /\ db' = Cleared(k)
          /\ inTransaction' = (inTransaction \/ k \in SnapshotKeys)
          /\ loop' = [loop EXCEPT ![l].phase = "drain", ![l].version = v,
                                  ![l].toRead = Content[v]]
    BY DEF OpenStream
  <1>4. stored' = stored
    BY DEF OpenStream
  <1>5. /\ loop'[l].phase = "drain" /\ loop'[l].version = v /\ loop'[l].toRead = Content[v]
        /\ loop'[l].key = k /\ loop'[l].failed = loop[l].failed
        /\ \A m \in Loops : m # l => loop'[m] = loop[m]
    BY <1>1, <1>3 DEF LoopStates
  <1> HIDE DEF k
  <1>6. /\ \A j \in Keys : j # k => db'[j] = db[j] /\ provider'[j] = provider[j]
        /\ k \in SnapshotKeys => \A s \in Slots : db'[k][s] = 0
        /\ k \notin SnapshotKeys => db' = db
        /\ provider'[k] = v
        /\ db' \in Rows
    <2>1. 0 \in Versions
      BY MonitorAssumption DEF Versions
    <2>2. QED  BY <1>1, <1>2, <1>3, <2>1 DEF Cleared, Rows
  <1>7. StreamsWhole'
    BY <1>4 DEF StreamInv, StreamsWhole, Whole
  <1>8. Newest'
    <2>1. /\ v \in Nat
          /\ \A j \in Keys : provider[j] \in Nat
          /\ \A j \in Keys : \A s \in Slots : stored[j][s] \in Nat /\ db[j][s] \in Nat
      BY <1>1 DEF MonitorInv, TypeOK, Rows, Versions
    <2>2. \A j \in Keys : provider[j] <= provider'[j]
      BY <1>3, <1>6, <2>1
    <2>3. \A j \in Keys : \A s \in Slots : db'[j][s] = 0 \/ db'[j][s] = db[j][s]
      BY <1>6
    <2>4. \A j \in Keys : provider'[j] \in Nat
      BY <1>6, <2>1
    <2>5. ASSUME NEW j \in Keys, NEW s \in Slots
          PROVE  stored[j][s] <= provider'[j] /\ db'[j][s] <= provider'[j]
      <3>1. stored[j][s] <= provider[j] /\ db[j][s] <= provider[j]
        BY DEF StreamInv, Newest
      <3>2. QED  BY <2>1, <2>2, <2>3, <2>4, <3>1
    <2>6. QED  BY <1>4, <2>5 DEF Newest
  <1>9. ~inTransaction' => db' = stored'
    BY <1>3, <1>4, <1>6 DEF StreamInv, TransactionOfCycle
  <1>10. Alive(l) /\ Draining(l)' /\ InCycle(l)' /\ InCycle(l) /\ ~Draining(l)
    BY <1>2, <1>5 DEF Alive, Draining, InCycle, Phase
  <1>11. ~loop[l].failed => CycleIsWhole(l)
    BY <1>10 DEF StreamInv
  <1>12. StreamOf(l)'
    <2>1. ASSUME ~loop[l].failed, k \notin MiningKeys
          PROVE  PartOf(k, db'[k], v, Content[v])
      <3>1. IF k \in SnapshotKeys THEN \A s \in Slots : db'[k][s] = 0 ELSE Whole(db', k)
        BY <1>2, <1>6, <1>10, <1>11, <2>1 DEF CycleIsWhole
      <3>2. QED  BY <1>2, <1>6, <3>1, PartOfNothing
    <2>2. QED  BY <1>2, <1>5, <1>6, <2>1 DEF StreamOf, PartOf
  <1>13. InCycle(l)' /\ ~loop'[l].failed => CycleIsWhole(l)'
    <2>1. ASSUME ~loop[l].failed, NEW j \in Keys \ MiningKeys, j # k
          PROVE  Whole(db', j)
      <3>1. Whole(db, j) /\ db'[j] = db[j]
        BY <1>6, <1>10, <1>11, <2>1 DEF CycleIsWhole
      <3>2. QED  BY <3>1, WholeSame
    <2>2. QED  BY <1>5, <1>10, <2>1 DEF CycleIsWhole, Whole
  <1>14. QED  BY <1>5, <1>7, <1>8, <1>9, <1>10, <1>12, <1>13, StreamStep

\* A row is read, accepted or not.
LEMMA ReadStream ==
  ASSUME MonitorInv, ~overlapped, StreamInv, NEW l \in Loops, NEW s \in Slots,
         ReadRow(l, s) \/ ReadAndCommitRow(l, s) \/ RowFails(l, s)
  PROVE  StreamInv'
  <1> DEFINE k == loop[l].key
             v == loop[l].version
             toRead == loop[l].toRead
  <1>1. /\ loop \in [Loops -> LoopStates] /\ loop[l] \in LoopStates /\ db \in Rows
        /\ stored \in Rows
    BY DEF MonitorInv, TypeOK
  <1>2. /\ Draining(l) /\ s \in toRead /\ provider' = provider
    BY DEF ReadRow, ReadAndCommitRow, RowFails, IsRead
  <1>3. /\ StreamOf(l) /\ k \in Keys /\ v \in Versions /\ toRead \subseteq Content[v]
        /\ v = provider[k]
        /\ ~loop[l].failed /\ k \notin MiningKeys => PartOf(k, db[k], v, toRead)
    BY <1>1, <1>2 DEF StreamInv, StreamOf, LoopStates
  <1>4. PICK f \in {loop[l].failed, TRUE} :
          /\ loop' = [loop EXCEPT ![l].toRead = toRead \ {s}, ![l].failed = f]
          /\ RowFails(l, s) => f = TRUE
    <2>1. CASE ReadRow(l, s) \/ ReadAndCommitRow(l, s)
      <3>1. loop' = [loop EXCEPT ![l].toRead = toRead \ {s}]
        BY <2>1 DEF ReadRow, ReadAndCommitRow
      <3>2. loop' = [loop EXCEPT ![l].toRead = toRead \ {s}, ![l].failed = loop[l].failed]
        BY <1>1, <3>1 DEF LoopStates
      <3>3. RowFails(l, s) => loop[l].failed = TRUE
        BY <1>1, <3>1 DEF RowFails, LoopStates
      <3>4. QED  BY <3>2, <3>3
    <2>2. CASE RowFails(l, s)
      BY <2>2 DEF RowFails
    <2>3. QED  BY <2>1, <2>2
  <1>5. /\ Phase(l)' = "drain" /\ loop'[l].key = k /\ loop'[l].version = v
        /\ loop'[l].toRead = toRead \ {s} /\ loop'[l].failed = f
        /\ \A m \in Loops : m # l => loop'[m] = loop[m]
    BY <1>1, <1>2, <1>4 DEF LoopStates, Draining, Phase
  <1>6. Alive(l) /\ InCycle(l)' /\ Draining(l)'
    BY <1>2, <1>5 DEF Alive, InCycle, Draining, Phase
  <1> HIDE DEF k, v, toRead
  <1>7. CASE ReadRow(l, s) \/ ReadAndCommitRow(l, s)
    <2>1. db' = [db EXCEPT ![k][s] = v]
      BY <1>7 DEF ReadRow, ReadAndCommitRow, k, v
    <2>2. /\ \A j \in Keys : j # k => db'[j] = db[j]
          /\ db'[k] = [db[k] EXCEPT ![s] = v]
          /\ db[k] \in [Slots -> Versions]
      BY <1>1, <1>3, <2>1 DEF Rows
    <2>3. \A t \in Slots : db[k][t] <= v /\ stored[k][t] <= v
      BY <1>3 DEF StreamInv, Newest
    <2>4. v \in Int
      BY <1>3 DEF Versions
    <2>5. \A j \in Keys : \A t \in Slots : db'[j][t] <= provider[j]
      BY <1>3, <2>2, <2>3, <2>4 DEF StreamInv, Newest
    <2>6. stored' = stored \/ (stored' = db' /\ db = stored /\ k \in MiningKeys)
      BY <1>7 DEF ReadRow, ReadAndCommitRow, CommitsItself, StreamInv, TransactionOfCycle, k
    <2>7. Newest'
      BY <1>2, <2>5, <2>6 DEF StreamInv, Newest
    <2>8. StreamsWhole'
      <3>1. ASSUME NEW j \in Keys \ MiningKeys PROVE Whole(stored', j)
        <4>1. stored'[j] = stored[j] /\ Whole(stored, j)
          BY <2>2, <2>6 DEF StreamInv, StreamsWhole
        <4>2. QED  BY <4>1, WholeSame
      <3>2. QED  BY <3>1 DEF StreamsWhole, Whole
    <2>9. ~inTransaction' => db' = stored'
      BY <1>7 DEF ReadRow, ReadAndCommitRow
    <2>10. StreamOf(l)'
      <3>1. ASSUME ~f, k \notin MiningKeys
            PROVE  PartOf(k, db'[k], v, toRead \ {s})
        <4>1. PartOf(k, db[k], v, toRead)
          BY <1>3, <3>1
        <4>2. QED  BY <1>2, <1>3, <2>2, <2>3, <4>1, PartOfRead
      <3>2. QED  BY <1>2, <1>3, <1>5, <3>1 DEF StreamOf, PartOf
    <2>11. ~loop'[l].failed => CycleIsWhole(l)'
      <3>1. ASSUME ~f, NEW j \in Keys \ MiningKeys, j # k
            PROVE  Whole(db', j)
        <4>1. Whole(db, j) /\ db'[j] = db[j]
          BY <1>2, <2>2, <3>1 DEF StreamInv, CycleIsWhole, InCycle, Draining, Phase, k
        <4>2. QED  BY <4>1, WholeSame
      <3>2. QED  BY <1>5, <1>6, <3>1 DEF CycleIsWhole, Whole
    <2>12. QED  BY <1>5, <1>6, <2>7, <2>8, <2>9, <2>10, <2>11, StreamStep
  <1>8. CASE RowFails(l, s)
    <2>1. stored' = stored /\ (db' = db \/ db' = stored)
      BY <1>8 DEF RowFails
    <2>2. ~inTransaction' => db' = stored'
      <3>1. ~inTransaction => db = stored
        BY DEF StreamInv, TransactionOfCycle
      <3>2. (db' = db /\ inTransaction' = inTransaction) \/ db' = stored
        BY <1>8 DEF RowFails
      <3>3. QED  BY <2>1, <3>1, <3>2
    <2>3. loop'[l].failed
      BY <1>4, <1>5, <1>8
    <2>4. StreamsWhole' /\ Newest'
      BY <1>2, <2>1 DEF StreamInv, StreamsWhole, Whole, Newest
    <2>5. StreamOf(l)'
      BY <1>2, <1>3, <1>5, <2>3 DEF StreamOf
    <2>6. QED  BY <1>5, <1>6, <2>2, <2>3, <2>4, <2>5, StreamStep
  <1>9. QED  BY <1>7, <1>8

LEMMA StepStream ==
  ASSUME MonitorInv, ~overlapped, ~overlapped', StreamInv, [Next]_vars
  PROVE  StreamInv'
  <1>1. CASE Start \/ BeginStop \/ EndStop \/ AddDataSpec
    BY <1>1, ServiceStream
  <1>2. ASSUME NEW l \in Loops, LoopStep(l) \/ InitFails(l) \/ CycleRaises(l)
        PROVE  StreamInv'
    BY <1>2, OutsideStream, BeginStream, ReturnStream, EndCycleStream, OpenStreamStep, ReadStream
       DEF LoopStep
  <1>3. CASE UNCHANGED vars
    BY <1>3 DEF vars, service, data, StreamInv, StreamsWhole, Newest, TransactionOfCycle,
                StreamOf, PartOf, CycleIsWhole, Whole, Draining, InCycle, Phase
  <1>4. QED  BY <1>1, <1>2, <1>3 DEF Next

\* Whatever is rejected, fails or is interrupted in a cycle, every commit leaves
\* rows of streams that were read to their end, until a start is made over a
\* thread that a stop has given up.
THEOREM StoredWhole == Spec => []StoredStreamsWhole
  <1> DEFINE Inv == MonitorInv /\ (~overlapped => StreamInv)
  <1>1. Init => Inv
    BY InitMonitor, InitStream
  <1>2. Inv /\ [Next]_vars => Inv'
    <2> SUFFICES ASSUME Inv, [Next]_vars PROVE Inv'
      OBVIOUS
    <2>1. MonitorInv'
      BY StepMonitor
    <2>2. ~overlapped' => ~overlapped
      <3>1. CASE Start
        BY <3>1 DEF Start
      <3>2. CASE ~Start
        BY <3>2 DEF Next, vars, history, BeginStop, EndStop, AddDataSpec, LoopStep, InitFails,
           CycleRaises, InitDone, SeesStop, Leave, Dies, BeginCycle, OpenRaises, OpenNoData,
           OpenStream, ReadRow, ReadAndCommitRow, RowFails, EndStream, DrainFails, Commit, Rollback
      <3>3. QED  BY <3>1, <3>2
    <2>3. ~overlapped' => StreamInv'
      BY <2>2, StepStream
    <2>4. QED  BY <2>1, <2>3
  <1>3. Inv => StoredStreamsWhole
    BY DEF StreamInv, StoredStreamsWhole
  <1>4. QED  BY <1>1, <1>2, <1>3, PTL DEF Spec

-----------------------------------------------------------------------------
(***************************************************************************)
(* The background updater.                                                 *)
(***************************************************************************)

\* What a thread can be set to is a state, and neither running nor returning
\* puts it inside an update or ends a collection thread.
LEMMA States ==
    /\ Looping \in ThreadState /\ Looping.pc = "loop"
    /\ Ended \in ThreadState /\ Ended.pc = "ended"
    /\ \A todo \in SUBSET Kinds : Running(todo) \in ThreadState /\ Running(todo).pc = "check"
<1>1. Looping \in ThreadState /\ Looping.pc = "loop"
  BY DEF Looping, ThreadState, Kinds
<1>2. Ended \in ThreadState /\ Ended.pc = "ended"
  BY DEF Looping, Ended, ThreadState, Kinds
<1>3. ASSUME NEW todo \in SUBSET Kinds
      PROVE  Running(todo) \in ThreadState /\ Running(todo).pc = "check"
  <2>1. CASE "historical" \in todo
    BY <2>1 DEF Running, Looping, ThreadState, Kinds
  <2>2. CASE "historical" \notin todo
    BY <2>2 DEF Running, Looping, ThreadState, Kinds
  <2> QED
    BY <2>1, <2>2
<1> QED
  BY <1>1, <1>2, <1>3

LEMMA Returning ==
    ASSUME thread \in [Threads -> ThreadState], NEW t \in Threads, NEW raised \in BOOLEAN
    PROVE  /\ Returned(t, raised) \in ThreadState
           /\ Returned(t, raised).pc \in {"loop", "check", "ended"}
           /\ t \in Kinds => Returned(t, raised).pc # "ended"
<1>1. thread[t].todo \in SUBSET Kinds
  BY DEF ThreadState
<1>2. t \in Kinds => t # "trigger"
  BY DEF Kinds
<1> QED
  BY <1>1, <1>2, States DEF Returned

\* The steps of an update that neither enter nor leave it.
Advance(t) ==
    \/ Check(t) \/ Acquire(t) \/ Mark(t) \/ Prepare(t) \/ BeginSpec(t) \/ EndSpec(t)
    \/ EndSpecs(t) \/ TimeSeries(t) \/ Raise(t) \/ Clear(t)

LEMMA Advancing ==
    ASSUME thread \in [Threads -> ThreadState], NEW t \in Threads, Advance(t)
    PROVE  /\ \A u \in Threads \ {t} : thread'[u] = thread[u]
           /\ thread'[t].kind = thread[t].kind
           /\ thread'[t].pc \notin {"ended", "read", "unlink"}
<1>0. thread[t] \in ThreadState
  OBVIOUS
<1>1. \A pc \in STRING :
          /\ [thread[t] EXCEPT !.pc = pc].pc = pc
          /\ [thread[t] EXCEPT !.pc = pc].kind = thread[t].kind
  BY <1>0 DEF ThreadState
<1>2. CASE Check(t) \/ Acquire(t) \/ Prepare(t) \/ BeginSpec(t) \/ TimeSeries(t) \/ Clear(t)
  <2>1. PICK pc \in {"acquire", "mark", "ready", "busy", "clear", "release"} :
            thread' = [thread EXCEPT ![t].pc = pc]
    BY <1>2 DEF Check, Acquire, Prepare, BeginSpec, TimeSeries, Clear
  <2> QED
    BY <1>0, <1>1, <2>1
<1>3. CASE Mark(t)
  BY <1>1, <1>3 DEF Mark
<1>4. CASE EndSpecs(t)
  BY <1>1, <1>4 DEF EndSpecs
<1>5. CASE EndSpec(t)
  <2>1. \A n : LET next == [thread[t] EXCEPT !.pc = "ready", !.spec = n]
               IN  next.pc = "ready" /\ next.kind = thread[t].kind
    BY <1>0 DEF ThreadState
  <2> QED
    BY <1>5, <2>1 DEF EndSpec
<1>6. CASE Raise(t)
  BY <1>0, <1>6 DEF Raise, ThreadState
<1> QED
  BY <1>2, <1>3, <1>4, <1>5, <1>6 DEF Advance

-----------------------------------------------------------------------------
\* The invariant of a step is proved in three parts: for the process and the
\* writers, for the loops, and for the updates.

ProcessStep == StartService \/ Stop \/ Exit \/ Killed \/ \E w \in Writers : OpenTrigger(w) \/ WriteTrigger(w)
UpdaterLoopStep == WatchTrigger \/ \E t \in Threads : Wake(t) \/ EndLoop(t)
UpdateStep == \E t \in Threads : Update(t)

LEMMA Steps == UpdaterNext => ProcessStep \/ UpdaterLoopStep \/ UpdateStep
BY Zenon DEF UpdaterNext, ProcessStep, UpdaterLoopStep, UpdateStep

LEMMA ProcessTypes == UpdaterTypeOK /\ ProcessStep => UpdaterTypeOK'
<1> SUFFICES ASSUME UpdaterTypeOK, ProcessStep PROVE UpdaterTypeOK'
  OBVIOUS
<1>1. CASE StartService
  BY <1>1, States DEF UpdaterTypeOK, StartService, updates, requests
<1>2. CASE Stop
  BY <1>2 DEF UpdaterTypeOK, Stop, updates, requests
<1>3. CASE Gone
  BY <1>3, States DEF UpdaterTypeOK, Gone
<1>4. ASSUME NEW w \in Writers, OpenTrigger(w) PROVE UpdaterTypeOK'
  BY <1>4 DEF UpdaterTypeOK, OpenTrigger, process, updates
<1>5. ASSUME NEW w \in Writers, WriteTrigger(w) PROVE UpdaterTypeOK'
  <2>1. trigger' \in Modes \cup {"none", "empty"}
    BY <1>5 DEF UpdaterTypeOK, WriteTrigger, Over, Modes, Kinds
  <2> QED
    BY <1>5, <2>1 DEF UpdaterTypeOK, WriteTrigger, process, updates
<1> QED
  BY <1>1, <1>2, <1>3, <1>4, <1>5 DEF ProcessStep, Exit, Killed

LEMMA LoopTypes == UpdaterTypeOK /\ UpdaterLoopStep => UpdaterTypeOK'
<1> SUFFICES ASSUME UpdaterTypeOK, UpdaterLoopStep PROVE UpdaterTypeOK'
  OBVIOUS
<1>0. "trigger" \in Threads
  BY DEF Threads
<1>1. ASSUME NEW t \in Threads, Wake(t) PROVE UpdaterTypeOK'
  BY <1>1, States DEF UpdaterTypeOK, Wake, process, updates, requests
<1>2. ASSUME NEW t \in Threads, EndLoop(t) PROVE UpdaterTypeOK'
  BY <1>2, States DEF UpdaterTypeOK, EndLoop, process, updates, requests
<1>3. CASE SeeTrigger
  BY <1>0, <1>3 DEF UpdaterTypeOK, ThreadState, SeeTrigger, process, updates, requests
<1>4. CASE ReadTrigger
  <2>1. thread["trigger"] \in ThreadState
    BY <1>0 DEF UpdaterTypeOK
  <2>2. PICK todo \in SUBSET Kinds :
            thread' = [thread EXCEPT !["trigger"] =
                          [thread["trigger"] EXCEPT !.pc = "unlink", !.todo = todo]]
    BY <1>4 DEF ReadTrigger
  <2>3. [thread["trigger"] EXCEPT !.pc = "unlink", !.todo = todo] \in ThreadState
    BY <2>1 DEF ThreadState
  <2>4. thread' \in [Threads -> ThreadState]
    BY <2>2, <2>3 DEF UpdaterTypeOK
  <2> QED
    BY <1>4, <2>4 DEF UpdaterTypeOK, ReadTrigger, process, updates, requests
<1>5. CASE UnlinkTrigger
  <2>1. thread["trigger"].todo \in SUBSET Kinds
    BY <1>0 DEF UpdaterTypeOK, ThreadState
  <2>2. thread' \in [Threads -> ThreadState]
    BY <1>5, <2>1, States DEF UpdaterTypeOK, UnlinkTrigger
  <2> QED
    BY <1>5, <2>2 DEF UpdaterTypeOK, UnlinkTrigger, process, updates
<1>6. CASE UnlinkFails
  BY <1>6, States DEF UpdaterTypeOK, UnlinkFails, process, updates, requests
<1> QED
  BY <1>1, <1>2, <1>3, <1>4, <1>5, <1>6 DEF UpdaterLoopStep, WatchTrigger

LEMMA UpdateTypes == UpdaterTypeOK /\ UpdateStep => UpdaterTypeOK'
<1> SUFFICES ASSUME UpdaterTypeOK, NEW t \in Threads, Update(t) PROVE UpdaterTypeOK'
  BY DEF UpdateStep
<1>0. thread \in [Threads -> ThreadState] /\ thread[t].kind \in Kinds /\ thread[t].raised \in BOOLEAN
  BY DEF UpdaterTypeOK, ThreadState
<1>1. CASE Skip(t)
  <2>1. thread' \in [Threads -> ThreadState]
    BY <1>0, <1>1, Returning DEF Skip
  <2> QED
    BY <1>1, <2>1 DEF UpdaterTypeOK, Skip, process, updates, requests
<1>2. CASE Check(t)
  BY <1>2 DEF UpdaterTypeOK, ThreadState, Check, process, updates, requests
<1>3. CASE Acquire(t)
  BY <1>3 DEF UpdaterTypeOK, ThreadState, Acquire, process, requests
<1>4. CASE Mark(t)
  BY <1>0, <1>4 DEF UpdaterTypeOK, ThreadState, Mark, process, requests
<1>5. CASE Prepare(t)
  BY <1>5 DEF UpdaterTypeOK, ThreadState, Prepare, process, requests
<1>6. CASE BeginSpec(t)
  BY <1>6 DEF UpdaterTypeOK, ThreadState, BeginSpec, process, updates, requests
<1>7. CASE EndSpec(t)
  <2>0. thread[t].spec + 1 \in Nat
    BY <1>0 DEF ThreadState
  <2>1. \A n \in Nat : [thread[t] EXCEPT !.pc = "ready", !.spec = n] \in ThreadState
    BY <1>0 DEF ThreadState
  <2>2. thread' \in [Threads -> ThreadState]
    BY <1>0, <1>7, <2>0, <2>1 DEF EndSpec
  <2> QED
    BY <1>7, <2>2 DEF UpdaterTypeOK, EndSpec, process, updates, requests
<1>8. CASE EndSpecs(t)
  BY <1>8 DEF UpdaterTypeOK, ThreadState, EndSpecs, process, updates, requests
<1>9. CASE TimeSeries(t)
  BY <1>9 DEF UpdaterTypeOK, ThreadState, TimeSeries, process, updates, requests
<1>10. CASE Raise(t)
  <2>1. [thread[t] EXCEPT !.pc = "clear", !.raised = TRUE] \in ThreadState
    BY <1>0 DEF ThreadState
  <2>2. thread' \in [Threads -> ThreadState]
    BY <1>0, <1>10, <2>1 DEF Raise
  <2> QED
    BY <1>10, <2>2 DEF UpdaterTypeOK, Raise, process, updates, requests
<1>11. CASE Clear(t)
  BY <1>11 DEF UpdaterTypeOK, ThreadState, Clear, process, requests
<1>12. CASE Release(t)
  <2>1. thread' \in [Threads -> ThreadState]
    BY <1>0, <1>12, Returning DEF Release
  <2> QED
    BY <1>12, <2>1 DEF UpdaterTypeOK, Release, process, requests
<1> QED
  BY <1>1, <1>2, <1>3, <1>4, <1>5, <1>6, <1>7, <1>8, <1>9, <1>10, <1>11, <1>12 DEF Update

THEOREM UpdaterTypes == UpdaterSpec => []UpdaterTypeOK
<1>1. UpdaterInit => UpdaterTypeOK
  <2> SUFFICES ASSUME UpdaterInit PROVE UpdaterTypeOK
    OBVIOUS
  <2>1. thread \in [Threads -> ThreadState]
    BY States DEF UpdaterInit
  <2>2. writer \in [Writers -> {"idle", "open", "gone"}]
    BY DEF UpdaterInit
  <2>3. owner \in Threads \cup {Nobody} /\ updating \in SUBSET Kinds /\ trigger \in Modes \cup {"none", "empty"}
    BY DEF UpdaterInit
  <2>4. sent \in Nat /\ handled \in Nat /\ starts \in Nat
    BY DEF UpdaterInit
  <2> QED
    BY <2>1, <2>2, <2>3, <2>4 DEF UpdaterInit, UpdaterTypeOK
<1>2. UpdaterTypeOK /\ [UpdaterNext]_updaterVars => UpdaterTypeOK'
  <2>1. CASE UNCHANGED updaterVars
    BY <2>1 DEF UpdaterTypeOK, updaterVars, process, updates, requests
  <2> QED
    BY <2>1, Steps, ProcessTypes, LoopTypes, UpdateTypes
<1> QED
  BY <1>1, <1>2, PTL DEF UpdaterSpec

-----------------------------------------------------------------------------
\* The lock and the flags.

LockInv == LockHeldInside /\ FlagsAreTrue

\* A step that takes no thread into an update, out of it or from mark to clear
\* disturbs nothing.
LEMMA Undisturbed ==
    ASSUME LockInv, UNCHANGED <<owner, updating>>,
           \A t \in Threads : Inside(t)' = Inside(t),
           \A t \in Threads : Marked(t)' = Marked(t),
           \A t \in Threads : Marked(t) => thread'[t].kind = thread[t].kind
    PROVE  LockInv'
<1>1. LockHeldInside'
  BY Zenon DEF LockInv, LockHeldInside
<1>2. ASSUME NEW k \in Kinds
      PROVE  k \in updating' <=> \E t \in Threads : Marked(t)' /\ thread'[t].kind = k
  <2>1. k \in updating <=> \E t \in Threads : Marked(t) /\ thread[t].kind = k
    BY Zenon DEF LockInv, FlagsAreTrue
  <2> QED
    BY Zenon, <2>1
<1>3. FlagsAreTrue'
  BY Zenon, <1>2 DEF FlagsAreTrue
<1> QED
  BY <1>1, <1>3 DEF LockInv

\* All threads are outside, nothing is held.
LEMMA AllOutside ==
    ASSUME owner' = Nobody, updating' = {}, \A t \in Threads : ~Inside(t)'
    PROVE  LockInv'
<1>1. \A t \in Threads : ~Marked(t)'
  BY DEF Inside, Marked
<1>2. Nobody \notin Threads
  BY DEF Nobody, Threads, Kinds
<1> QED
  BY <1>1, <1>2 DEF LockInv, LockHeldInside, FlagsAreTrue

\* A process that is gone has no threads.
Quiet == ~up => ~running /\ \A t \in Threads : At(t, "ended")

LEMMA ProcessLocks == UpdaterTypeOK /\ LockInv /\ Quiet /\ ProcessStep => LockInv' /\ Quiet'
<1> SUFFICES ASSUME UpdaterTypeOK, LockInv, Quiet, ProcessStep PROVE LockInv' /\ Quiet'
  OBVIOUS
<1>1. CASE StartService
  <2>0. \A t \in Threads : thread[t].pc = "ended" /\ thread'[t].pc = "loop"
    BY <1>1, States DEF StartService, Quiet, At
  <2>1. \A t \in Threads : Inside(t)' = Inside(t)
    BY <2>0 DEF Inside
  <2>2. \A t \in Threads : Marked(t)' = Marked(t) /\ ~Marked(t)
    BY <2>0 DEF Marked
  <2>3. LockInv'
    BY <1>1, <2>1, <2>2, Undisturbed DEF StartService, updates
  <2> QED
    BY <1>1, <2>3 DEF StartService, Quiet
<1>2. CASE Stop
  <2>1. LockInv'
    BY <1>2, Undisturbed DEF Stop, updates, Inside, Marked
  <2> QED
    BY <1>2, <2>1 DEF Stop, Quiet
<1>3. CASE Gone
  <2>1. \A t \in Threads : thread'[t].pc = "ended"
    BY <1>3, States DEF Gone
  <2>2. LockInv'
    BY <1>3, <2>1, AllOutside DEF Gone, Inside
  <2> QED
    BY <1>3, <2>1, <2>2 DEF Gone, Quiet, At
<1>4. ASSUME NEW w \in Writers, OpenTrigger(w) \/ WriteTrigger(w) PROVE LockInv' /\ Quiet'
  <2>1. UNCHANGED <<process, thread, updates>>
    BY <1>4 DEF OpenTrigger, WriteTrigger
  <2>2. LockInv'
    BY <2>1, Undisturbed DEF updates, Inside, Marked
  <2> QED
    BY <2>1, <2>2 DEF Quiet, process, At
<1> QED
  BY <1>1, <1>2, <1>3, <1>4 DEF ProcessStep, Exit, Killed

\* A step of thread t from one state outside an update to another.
LEMMA OutsideStep ==
    ASSUME UpdaterTypeOK, LockInv, Quiet, NEW t \in Threads, NEW next \in ThreadState,
           thread' = [thread EXCEPT ![t] = next], UNCHANGED <<process, updates>>,
           thread[t].pc \in {"loop", "read", "unlink", "check", "acquire"},
           next.pc \in {"loop", "ended", "read", "unlink", "check", "acquire"}
    PROVE  LockInv' /\ Quiet'
<1>0. thread \in [Threads -> ThreadState]
  BY DEF UpdaterTypeOK
<1>1. \A u \in Threads : Inside(u)' = Inside(u)
  BY <1>0 DEF Inside
<1>2. \A u \in Threads : Marked(u)' = Marked(u)
  BY <1>0 DEF Marked
<1>3. \A u \in Threads : Marked(u) => thread'[u].kind = thread[u].kind
  BY <1>0 DEF Marked
<1>4. LockInv'
  BY <1>1, <1>2, <1>3, Undisturbed DEF updates
<1>5. up
  BY DEF Quiet, At
<1> QED
  BY <1>4, <1>5 DEF Quiet, process

\* A step of thread t from one state between mark and clear to another.
LEMMA MarkedStep ==
    ASSUME LockInv, Quiet, NEW t \in Threads, UNCHANGED <<process, owner, updating>>,
           \A u \in Threads \ {t} : thread'[u] = thread[u],
           Marked(t), thread'[t].kind = thread[t].kind,
           thread'[t].pc \in {"prepare", "ready", "busy", "timeseries", "clear"}
    PROVE  LockInv' /\ Quiet'
<1>1. \A u \in Threads : Inside(u)' = Inside(u)
  BY DEF Inside, Marked
<1>2. \A u \in Threads : Marked(u)' = Marked(u)
  BY DEF Marked
<1>3. \A u \in Threads : Marked(u) => thread'[u].kind = thread[u].kind
  OBVIOUS
<1>4. LockInv'
  BY <1>1, <1>2, <1>3, Undisturbed
<1>5. up
  BY DEF Quiet, At, Marked
<1> QED
  BY <1>4, <1>5 DEF Quiet, process

LEMMA LoopLocks == UpdaterTypeOK /\ LockInv /\ Quiet /\ UpdaterLoopStep => LockInv' /\ Quiet'
<1> SUFFICES ASSUME UpdaterTypeOK, LockInv, Quiet, UpdaterLoopStep PROVE LockInv' /\ Quiet'
  OBVIOUS
<1>0. "trigger" \in Threads /\ thread["trigger"] \in ThreadState
  BY DEF Threads, UpdaterTypeOK
<1>1. ASSUME NEW t \in Threads, Wake(t) PROVE LockInv' /\ Quiet'
  <2>1. t \in Kinds /\ Running({t}) \in ThreadState /\ Running({t}).pc = "check"
    BY <1>1, States DEF Wake
  <2> QED
    BY <1>1, <2>1, OutsideStep DEF Wake, At
<1>2. ASSUME NEW t \in Threads, EndLoop(t) PROVE LockInv' /\ Quiet'
  BY <1>2, States, OutsideStep DEF EndLoop, At
<1>3. CASE SeeTrigger
  <2>1. [thread["trigger"] EXCEPT !.pc = "read"] \in ThreadState
    BY <1>0 DEF ThreadState
  <2>2. [thread["trigger"] EXCEPT !.pc = "read"].pc = "read"
    BY <1>0 DEF ThreadState
  <2> QED
    BY <1>0, <1>3, <2>1, <2>2, OutsideStep DEF SeeTrigger, At
<1>4. CASE ReadTrigger
  <2>1. PICK todo \in SUBSET Kinds :
            thread' = [thread EXCEPT !["trigger"] =
                          [thread["trigger"] EXCEPT !.pc = "unlink", !.todo = todo]]
    BY <1>4 DEF ReadTrigger
  <2>2. [thread["trigger"] EXCEPT !.pc = "unlink", !.todo = todo] \in ThreadState
    BY <1>0 DEF ThreadState
  <2>3. [thread["trigger"] EXCEPT !.pc = "unlink", !.todo = todo].pc = "unlink"
    BY <1>0 DEF ThreadState
  <2> QED
    BY <1>0, <1>4, <2>1, <2>2, <2>3, OutsideStep DEF ReadTrigger, At
<1>5. CASE UnlinkTrigger
  <2>1. thread["trigger"].todo \in SUBSET Kinds
    BY <1>0 DEF ThreadState
  <2> QED
    BY <1>0, <1>5, <2>1, States, OutsideStep DEF UnlinkTrigger, At
<1>6. CASE UnlinkFails
  BY <1>0, <1>6, States, OutsideStep DEF UnlinkFails, At
<1> QED
  BY <1>1, <1>2, <1>3, <1>4, <1>5, <1>6 DEF UpdaterLoopStep, WatchTrigger

LEMMA UpdateLocks == UpdaterTypeOK /\ LockInv /\ Quiet /\ UpdateStep => LockInv' /\ Quiet'
<1> SUFFICES ASSUME UpdaterTypeOK, LockInv, Quiet, NEW t \in Threads, Update(t)
             PROVE  LockInv' /\ Quiet'
  BY DEF UpdateStep
<1>0. thread \in [Threads -> ThreadState] /\ thread[t] \in ThreadState /\ thread[t].raised \in BOOLEAN
  BY DEF UpdaterTypeOK, ThreadState
<1>1. CASE Skip(t)
  <2>1. thread[t].pc \in {"check", "acquire"}
    BY <1>1 DEF Skip, At
  <2> QED
    BY <1>0, <1>1, <2>1, Returning, OutsideStep DEF Skip
<1>2. CASE Check(t)
  <2>1. [thread[t] EXCEPT !.pc = "acquire"] \in ThreadState
    BY <1>0 DEF ThreadState
  <2>2. [thread[t] EXCEPT !.pc = "acquire"].pc = "acquire"
    BY <1>0 DEF ThreadState
  <2> QED
    BY <1>2, <2>1, <2>2, OutsideStep DEF Check, At
\* Nobody else is inside when t comes in.
<1>3. CASE Acquire(t)
  <2>1. \A u \in Threads : ~Inside(u)
    BY <1>3 DEF Acquire, LockInv, LockHeldInside, Nobody, Threads, Kinds
  <2>2. \A u \in Threads : Inside(u)' <=> u = t
    BY <1>0, <1>3, <2>1 DEF Acquire, Inside
  <2>3. \A u \in Threads : ~Marked(u) /\ ~Marked(u)'
    BY <1>0, <1>3, <2>1 DEF Acquire, Inside, Marked
  <2>4. LockHeldInside'
    BY <1>3, <2>2 DEF Acquire, LockHeldInside
  <2>5. FlagsAreTrue'
    BY <1>3, <2>3 DEF Acquire, LockInv, FlagsAreTrue
  <2> QED
    BY <1>3, <2>4, <2>5 DEF Acquire, LockInv, Quiet, process, At
\* Only t is marked, so only its flag is set.
<1>4. CASE Mark(t)
  <2>1. \A u \in Threads : Inside(u) <=> u = t
    BY <1>4 DEF Mark, At, LockInv, LockHeldInside, Inside
  <2>2. \A u \in Threads : ~Marked(u)
    BY <1>4, <2>1 DEF Mark, At, Inside, Marked
  <2>3. \A u \in Threads : (Inside(u)' <=> u = t) /\ (Marked(u)' <=> u = t)
    BY <1>0, <1>4, <2>1, <2>2 DEF Mark, At, Inside, Marked
  <2>4. thread'[t].kind = thread[t].kind
    BY <1>0, <1>4 DEF Mark, ThreadState
  <2>5. updating = {}
    BY <2>2 DEF LockInv, FlagsAreTrue, UpdaterTypeOK
  <2>6. LockHeldInside'
    BY <1>4, <2>1, <2>3 DEF Mark, LockInv, LockHeldInside
  <2>7. FlagsAreTrue'
    BY <1>4, <2>3, <2>4, <2>5 DEF Mark, FlagsAreTrue
  <2> QED
    BY <1>4, <2>6, <2>7 DEF Mark, LockInv, Quiet, process, At
<1>5. ASSUME Prepare(t) \/ BeginSpec(t) \/ EndSpec(t) \/ EndSpecs(t) \/ TimeSeries(t) \/ Raise(t)
      PROVE  LockInv' /\ Quiet'
  <2>1. Marked(t) /\ UNCHANGED <<process, owner, updating>>
    BY <1>5 DEF Prepare, BeginSpec, EndSpec, EndSpecs, TimeSeries, Raise, At, Marked, updates
  <2>2. \A u \in Threads \ {t} : thread'[u] = thread[u]
    BY <1>0, <1>5, Advancing DEF Advance
  <2>3. thread'[t].kind = thread[t].kind
    BY <1>0, <1>5, Advancing DEF Advance
  <2>4. thread'[t].pc \in {"ready", "busy", "timeseries", "clear"}
    BY <1>0, <1>5 DEF Prepare, BeginSpec, EndSpec, EndSpecs, TimeSeries, Raise, ThreadState
  <2> QED
    BY <2>1, <2>2, <2>3, <2>4, MarkedStep
\* No other thread holds a flag of this kind.
<1>6. CASE Clear(t)
  <2>1. \A u \in Threads : Inside(u) <=> u = t
    BY <1>6 DEF Clear, At, LockInv, LockHeldInside, Inside
  <2>2. \A u \in Threads : Marked(u) <=> u = t
    BY <1>6, <2>1 DEF Clear, At, Inside, Marked
  <2>3. \A u \in Threads : (Inside(u)' <=> u = t) /\ ~Marked(u)'
    BY <1>0, <1>6, <2>1, <2>2 DEF Clear, At, Inside, Marked
  <2>4. updating' = {}
    BY <1>6, <2>2 DEF Clear, LockInv, FlagsAreTrue, UpdaterTypeOK
  <2>5. LockHeldInside'
    BY <1>6, <2>1, <2>3 DEF Clear, LockInv, LockHeldInside
  <2>6. FlagsAreTrue'
    BY <2>3, <2>4 DEF FlagsAreTrue
  <2> QED
    BY <1>6, <2>5, <2>6 DEF Clear, LockInv, Quiet, process, At
<1>7. CASE Release(t)
  <2>1. \A u \in Threads : Inside(u) <=> u = t
    BY <1>7 DEF Release, At, LockInv, LockHeldInside, Inside
  <2>2. \A u \in Threads : ~Marked(u)
    BY <1>7, <2>1 DEF Release, At, Inside, Marked
  <2>3. updating' = {}
    BY <1>7, <2>2 DEF Release, LockInv, FlagsAreTrue, UpdaterTypeOK
  <2>4. \A u \in Threads : ~Inside(u)'
    BY <1>0, <1>7, <2>1, Returning DEF Release, Inside
  <2> QED
    BY <1>7, <2>3, <2>4, AllOutside DEF Release, Quiet, process, At
<1> QED
  BY <1>1, <1>2, <1>3, <1>4, <1>5, <1>6, <1>7 DEF Update

\* In every reachable state the lock is held by exactly the thread inside an
\* update, and the flags tell which one runs.
THEOREM UpdaterInvariant == UpdaterSpec => []UpdaterInv
<1>1. UpdaterInit => LockInv /\ Quiet
  <2> SUFFICES ASSUME UpdaterInit PROVE LockInv /\ Quiet
    OBVIOUS
  <2>1. \A t \in Threads : thread[t].pc = "ended"
    BY States DEF UpdaterInit
  <2>2. \A t \in Threads : ~Inside(t) /\ ~Marked(t)
    BY <2>1 DEF Inside, Marked
  <2>3. Nobody \notin Threads
    BY DEF Nobody, Threads, Kinds
  <2> QED
    BY <2>1, <2>2, <2>3 DEF UpdaterInit, LockInv, LockHeldInside, FlagsAreTrue, Quiet, At
<1>2. UpdaterTypeOK /\ LockInv /\ Quiet /\ [UpdaterNext]_updaterVars => LockInv' /\ Quiet'
  <2> SUFFICES ASSUME UpdaterTypeOK, LockInv, Quiet, [UpdaterNext]_updaterVars PROVE LockInv' /\ Quiet'
    OBVIOUS
  <2>1. CASE UNCHANGED updaterVars
    <3>1. UNCHANGED <<up, running, thread, owner, updating>>
      BY <2>1 DEF updaterVars, process, updates
    <3>2. LockInv'
      BY <3>1, Undisturbed DEF Inside, Marked
    <3> QED
      BY <3>1, <3>2 DEF Quiet, At
  <2> QED
    BY <2>1, Steps, ProcessLocks, LoopLocks, UpdateLocks
<1>3. UpdaterTypeOK /\ LockInv => UpdaterInv
  BY DEF LockInv, UpdaterInv
<1> QED
  BY <1>1, <1>2, <1>3, UpdaterTypes, PTL DEF UpdaterSpec

-----------------------------------------------------------------------------
\* The collection threads end only once the service is stopped: whatever an
\* update raises, the realtime loop goes on.
THEOREM CollectorsGoOn == UpdaterSpec => []CollectorsSurvive
<1>1. UpdaterInit => CollectorsSurvive
  BY DEF UpdaterInit, CollectorsSurvive
<1>2. UpdaterTypeOK /\ CollectorsSurvive /\ [UpdaterNext]_updaterVars => CollectorsSurvive'
  <2> SUFFICES ASSUME UpdaterTypeOK, CollectorsSurvive, [UpdaterNext]_updaterVars, running',
                      NEW k \in Kinds
               PROVE  thread'[k].pc # "ended"
    BY DEF CollectorsSurvive, At
  <2>0. k \in Threads /\ k # "trigger" /\ thread \in [Threads -> ThreadState] /\ thread[k] \in ThreadState
    BY DEF Threads, Kinds, UpdaterTypeOK
  <2>1. running => thread[k].pc # "ended"
    BY DEF CollectorsSurvive, At
  <2>2. CASE UNCHANGED updaterVars
    BY <2>1, <2>2 DEF updaterVars, process
  <2>3. CASE ProcessStep
    <3>1. CASE StartService
      BY <3>1, <2>0, States DEF StartService
    <3>2. ASSUME NEW w \in Writers, OpenTrigger(w) \/ WriteTrigger(w) PROVE thread'[k].pc # "ended"
      BY <2>1, <3>2 DEF OpenTrigger, WriteTrigger, process
    <3> QED
      BY <2>3, <3>1, <3>2 DEF ProcessStep, Stop, Exit, Killed, Gone
  <2>4. CASE UpdaterLoopStep
    <3>1. running
      BY <2>4 DEF UpdaterLoopStep, WatchTrigger, SeeTrigger, ReadTrigger, UnlinkTrigger, UnlinkFails,
                  Wake, EndLoop, process
    <3>2. ASSUME WatchTrigger PROVE thread'[k] = thread[k]
      BY <2>0, <3>2 DEF WatchTrigger, SeeTrigger, ReadTrigger, UnlinkTrigger, UnlinkFails
    <3>3. ASSUME NEW t \in Threads, Wake(t) PROVE thread'[k].pc # "ended"
      <4>1. Running({t}).pc = "check"
        BY <3>3, States DEF Wake
      <4> QED
        BY <2>0, <2>1, <3>1, <3>3, <4>1 DEF Wake
    <3>4. ASSUME NEW t \in Threads, EndLoop(t) PROVE FALSE
      BY <3>1, <3>4 DEF EndLoop
    <3> QED
      BY <2>1, <2>4, <3>1, <3>2, <3>3, <3>4 DEF UpdaterLoopStep
  <2>5. ASSUME NEW t \in Threads, Update(t) PROVE thread'[k].pc # "ended"
    <3>1. running
      BY <2>5 DEF Update, Skip, Check, Acquire, Mark, Prepare, BeginSpec, EndSpec, EndSpecs,
                  TimeSeries, Raise, Clear, Release, process
    <3>2. CASE Skip(t) \/ Release(t)
      <4>1. \A raised \in BOOLEAN : t \in Kinds => Returned(t, raised).pc # "ended"
        BY <2>0, Returning DEF UpdaterTypeOK
      <4>2. thread[t].raised \in BOOLEAN
        BY DEF UpdaterTypeOK, ThreadState
      <4> QED
        BY <2>0, <2>1, <3>1, <3>2, <4>1, <4>2 DEF Skip, Release
    <3>3. CASE Advance(t)
      <4>1. CASE k = t
        BY <2>0, <3>3, <4>1, Advancing
      <4>2. CASE k # t
        BY <2>0, <2>1, <3>1, <3>3, <4>2, Advancing
      <4> QED
        BY <4>1, <4>2
    <3> QED
      BY <2>5, <3>2, <3>3 DEF Update, Advance
  <2> QED
    BY <2>2, <2>3, <2>4, <2>5, Steps DEF UpdateStep
<1> QED
  BY <1>1, <1>2, UpdaterTypes, PTL DEF UpdaterSpec

-----------------------------------------------------------------------------
\* Every forced update takes a trigger of its own: a file that is there has
\* not been served, and what deletes it served it.

\* The file exists while the trigger thread is about to delete it and while a
\* writer has it open.
FileIsThere ==
    /\ At("trigger", "read") \/ At("trigger", "unlink") => trigger # "none"
    /\ \A w \in Writers : writer[w] = "open" => trigger # "none"

Unserved == IF trigger = "none" THEN 0 ELSE 1
ServedInv == FileIsThere /\ handled + Unserved <= sent

\* A step that leaves the file and its writers alone.
LEMMA TriggerAlone ==
    ASSUME ServedInv, UNCHANGED requests,
           thread'["trigger"].pc \in {"read", "unlink"} => trigger # "none"
    PROVE  ServedInv'
BY DEF ServedInv, FileIsThere, Unserved, requests, At

THEOREM ServedOnce == UpdaterSpec => []ServedAtMostOnce
<1>1. UpdaterInit => ServedInv
  BY DEF UpdaterInit, ServedInv, FileIsThere, Unserved, At, Ended, Looping, Threads
<1>2. UpdaterTypeOK /\ ServedInv /\ [UpdaterNext]_updaterVars => ServedInv'
  <2> SUFFICES ASSUME UpdaterTypeOK, ServedInv, [UpdaterNext]_updaterVars PROVE ServedInv'
    OBVIOUS
  <2>0. /\ "trigger" \in Threads /\ thread \in [Threads -> ThreadState]
        /\ writer \in [Writers -> {"idle", "open", "gone"}] /\ sent \in Nat /\ handled \in Nat
        /\ thread["trigger"].pc \in {"read", "unlink"} => trigger # "none"
    BY DEF Threads, UpdaterTypeOK, ServedInv, FileIsThere, At
  <2>1. CASE UNCHANGED updaterVars
    BY <2>0, <2>1, TriggerAlone DEF updaterVars
  <2>2. CASE StartService
    BY <2>0, <2>2, TriggerAlone, States DEF StartService
  <2>3. CASE Stop
    BY <2>0, <2>3, TriggerAlone DEF Stop
  <2>4. CASE Gone
    <3>1. thread'["trigger"].pc = "ended"
      BY <2>0, <2>4, States DEF Gone
    <3>2. \A w \in Writers : writer'[w] = "open" => writer[w] = "open"
      BY <2>0, <2>4 DEF Gone
    <3> QED
      BY <2>4, <3>1, <3>2 DEF Gone, ServedInv, FileIsThere, Unserved, At
  <2>5. ASSUME NEW w \in Writers, OpenTrigger(w) PROVE ServedInv'
    <3>1. trigger' = "empty" /\ sent' = sent + 1 /\ handled' = handled
      BY <2>5 DEF OpenTrigger
    <3>2. FileIsThere'
      BY <3>1 DEF FileIsThere
    <3>3. handled' + Unserved' <= sent'
      <4>1. handled <= sent
        BY <2>0 DEF ServedInv, Unserved
      <4> QED
        BY <2>0, <3>1, <4>1 DEF Unserved
    <3> QED
      BY <3>2, <3>3 DEF ServedInv
  <2>6. ASSUME NEW w \in Writers, WriteTrigger(w) PROVE ServedInv'
    <3>1. (trigger' = "none") <=> (trigger = "none")
      BY <2>6 DEF WriteTrigger, ServedInv, FileIsThere, Over, Modes, Kinds
    <3>2. \A v \in Writers : writer'[v] = "open" => writer[v] = "open"
      BY <2>0, <2>6 DEF WriteTrigger
    <3>3. UNCHANGED <<thread, sent, handled>>
      BY <2>6 DEF WriteTrigger
    <3> QED
      BY <3>1, <3>2, <3>3 DEF ServedInv, FileIsThere, Unserved, At
  <2>7. CASE SeeTrigger
    BY <2>7, TriggerAlone DEF SeeTrigger
  <2>8. CASE ReadTrigger
    <3>1. thread["trigger"].pc = "read"
      BY <2>8 DEF ReadTrigger, At
    <3> QED
      BY <2>0, <2>8, <3>1, TriggerAlone DEF ReadTrigger
  <2>9. CASE UnlinkTrigger
    <3>1. trigger # "none" /\ handled' = handled + 1 /\ sent' = sent /\ trigger' = "none"
      BY <2>0, <2>9 DEF UnlinkTrigger, At
    <3>2. handled' + Unserved' <= sent'
      BY <2>0, <3>1 DEF ServedInv, Unserved
    <3>3. \A w \in Writers : writer'[w] # "open"
      BY <2>0, <2>9 DEF UnlinkTrigger
    <3>4. thread["trigger"].todo \in SUBSET Kinds
      BY <2>0 DEF ThreadState
    <3>5. thread'["trigger"].pc = "check"
      BY <2>0, <2>9, <3>4, States DEF UnlinkTrigger
    <3> QED
      BY <3>2, <3>3, <3>5 DEF ServedInv, FileIsThere, At
  <2>10. CASE UnlinkFails
    BY <2>0, <2>10, TriggerAlone, States DEF UnlinkFails
  <2>11. ASSUME NEW t \in Threads, Wake(t) PROVE ServedInv'
    <3>1. t # "trigger"
      BY <2>11 DEF Wake, Kinds
    <3> QED
      BY <2>0, <2>11, <3>1, TriggerAlone DEF Wake
  <2>12. ASSUME NEW t \in Threads, EndLoop(t) PROVE ServedInv'
    BY <2>0, <2>12, TriggerAlone, States DEF EndLoop
  \* An update leaves its thread outside these two states.
  <2>13. ASSUME NEW t \in Threads, Update(t) PROVE ServedInv'
    <3>1. UNCHANGED requests
      BY <2>13 DEF Update, Skip, Check, Acquire, Mark, Prepare, BeginSpec, EndSpec, EndSpecs,
                   TimeSeries, Raise, Clear, Release
    <3>2. \A u \in Threads \ {t} : thread'[u] = thread[u]
      BY <2>0, <2>13, Advancing DEF Update, Advance, Skip, Release
    <3>3. thread'[t].pc \notin {"read", "unlink"}
      <4>1. CASE Advance(t)
        BY <2>0, <4>1, Advancing
      <4>2. CASE Skip(t) \/ Release(t)
        <5>1. thread[t].raised \in BOOLEAN
          BY <2>0 DEF ThreadState
        <5> QED
          BY <2>0, <4>2, <5>1, Returning DEF Skip, Release
      <4> QED
        BY <2>13, <4>1, <4>2 DEF Update, Advance
    <3> QED
      BY <2>0, <3>1, <3>2, <3>3, TriggerAlone
  <2> QED
    BY <2>1, <2>2, <2>3, <2>4, <2>5, <2>6, <2>7, <2>8, <2>9, <2>10, <2>11, <2>12, <2>13
    DEF UpdaterNext, WatchTrigger, Exit, Killed
<1>3. UpdaterTypeOK /\ ServedInv => ServedAtMostOnce
  BY DEF UpdaterTypeOK, ServedInv, Unserved, ServedAtMostOnce
<1> QED
  BY <1>1, <1>2, <1>3, UpdaterTypes, PTL DEF UpdaterSpec

=============================================================================
