--------------------------- MODULE RealtimeMonitor --------------------------
(***************************************************************************)
(* The realtime monitoring service (RealtimeMonitor in                     *)
(* src/services/realtime_monitor.py): start and stop of the polling thread *)
(* and its cycle, which drains one JVRTOpen stream per key into a single   *)
(* database transaction.                                                   *)
(*                                                                         *)
(* A key stands for a spec and its date, or a race of a time-series spec.  *)
(* Its stream is the provider's current version: rows of some slots.       *)
(* Versions of a snapshot key (0B14) replace each other, those of other    *)
(* keys are upserted.                                                      *)
(***************************************************************************)
EXTENDS Integers, FiniteSets

CONSTANTS
    LastKey,        \* keys are 1..LastKey, polled in this order
    SnapshotKeys,   \* those of 0B14
    MiningKeys,     \* those of 0B13 and 0B17: a record replaces the rows of a race
    Slots,          \* primary keys of the rows of a stream, read in order
    Content,        \* Content[v]: slots of version v; version 0 is nothing
    LastVersion,
    MaxLoops,       \* bound: calls of start
    MaxCycles       \* bound: cycles, over all threads

Keys == 1..LastKey
Versions == 0..LastVersion
Loops == 1..MaxLoops

ASSUME MonitorAssumption ==
    /\ LastKey \in Nat \ {0} /\ LastVersion \in Nat /\ MaxLoops \in Nat /\ MaxCycles \in Nat
    /\ SnapshotKeys \subseteq Keys /\ MiningKeys \subseteq Keys \ SnapshotKeys /\ Slots \subseteq Int
    /\ Content \in [Versions -> SUBSET Slots] /\ Content[0] = {}

\* The one connection JV-Link has: closed, opened without data, or the loop
\* whose stream is open.
Closed == 0
NoData == -1

VARIABLES
    isRunning, stopEvent,
    main,           \* "idle", or "stopping" while stop() joins the thread
    started,        \* threads created; the last one is self._thread
    loop,           \* loop[l]: state of thread l
    specs,          \* keys monitored are 1..specs
    link,
    provider,       \* version of each key's last stream
    db, stored,     \* rows the connection sees; rows committed
    inTransaction,  \* has_pending_transaction()
    cycles,
    givenUp,        \* auxiliary: stops whose join timed out
    overlapped      \* auxiliary: a start has been made over a living thread

service == <<isRunning, stopEvent, main, started, specs>>
data == <<db, stored, inTransaction>>
history == <<cycles, givenUp, overlapped>>
vars == <<service, loop, link, provider, data, history>>

NotStarted == [phase |-> "none", key |-> 1, last |-> 0, version |-> 0,
               toRead |-> {}, failed |-> FALSE]

\* Between two cycles.
Waiting == [NotStarted EXCEPT !.phase = "wait"]

Alive(l) == loop[l].phase \notin {"none", "dead"}
Draining(l) == loop[l].phase = "drain"

Init ==
    /\ isRunning = FALSE /\ stopEvent = FALSE /\ main = "idle" /\ started = 0
    /\ loop = [l \in Loops |-> NotStarted]
    /\ specs \in Keys
    /\ link = Closed
    /\ provider = [k \in Keys |-> 0]
    /\ db = [k \in Keys |-> [s \in Slots |-> 0]] /\ stored = db
    /\ inTransaction = FALSE
    /\ cycles = 0 /\ givenUp = 0 /\ overlapped = FALSE

-----------------------------------------------------------------------------
\* The service's methods, called by one thread.

\* Mutant: it does not look at is_running.
MutantStart ==
    /\ main = "idle" /\ started < MaxLoops
    /\ overlapped' = (overlapped \/ \E l \in Loops : Alive(l))
    /\ started' = started + 1
    /\ stopEvent' = FALSE /\ isRunning' = TRUE
    /\ loop' = [loop EXCEPT ![started + 1].phase = "init"]
    /\ UNCHANGED <<main, specs, link, provider, data, cycles, givenUp>>

Start ==
    /\ main = "idle" /\ ~isRunning /\ started < MaxLoops
    /\ overlapped' = (overlapped \/ \E l \in Loops : Alive(l))
    /\ started' = started + 1
    /\ stopEvent' = FALSE /\ isRunning' = TRUE
    /\ loop' = [loop EXCEPT ![started + 1].phase = "init"]
    /\ UNCHANGED <<main, specs, link, provider, data, cycles, givenUp>>

BeginStop ==
    /\ main = "idle" /\ isRunning
    /\ stopEvent' = TRUE /\ main' = "stopping"
    /\ UNCHANGED <<isRunning, started, specs, loop, link, provider, data, history>>

\* The join returns, or times out: stop() then only logs.
EndStop ==
    /\ main = "stopping"
    /\ isRunning' = FALSE /\ main' = "idle"
    /\ givenUp' = IF started > 0 /\ Alive(started) THEN givenUp + 1 ELSE givenUp
    /\ UNCHANGED <<stopEvent, started, specs, loop, link, provider, data, cycles, overlapped>>

AddDataSpec ==
    /\ main = "idle" /\ isRunning /\ specs < LastKey
    /\ specs' = specs + 1
    /\ UNCHANGED <<isRunning, stopEvent, main, started, loop, link, provider, data,
                   history>>

-----------------------------------------------------------------------------
\* Thread l, _monitor_sequential.

\* jv_close: any session closes the one connection; it may fail.
Close == link' \in {Closed, link}

Dies(l) ==
    /\ loop' = [loop EXCEPT ![l].phase = "dead"]
    /\ isRunning' = FALSE
    /\ UNCHANGED <<stopEvent, main, started, specs, provider, data, history>>

InitFails(l) ==
    /\ loop[l].phase = "init"
    /\ Dies(l) /\ UNCHANGED link

InitDone(l) ==
    /\ loop[l].phase = "init"
    /\ loop' = [loop EXCEPT ![l].phase = "wait"]
    /\ UNCHANGED <<service, link, provider, data, history>>

SeesStop(l) ==
    /\ loop[l].phase = "wait" /\ stopEvent
    /\ loop' = [loop EXCEPT ![l].phase = "leaving"]
    /\ UNCHANGED <<service, link, provider, data, history>>

Leave(l) ==
    /\ loop[l].phase = "leaving"
    /\ Close /\ Dies(l)

BeginCycle(l) ==
    /\ loop[l].phase = "wait" /\ ~stopEvent /\ cycles < MaxCycles
    /\ cycles' = cycles + 1 /\ UNCHANGED <<givenUp, overlapped>>
    /\ loop' = [loop EXCEPT ![l] = [NotStarted EXCEPT !.phase = "keys", !.last = specs]]
    /\ inTransaction' = TRUE
    /\ UNCHANGED <<service, link, provider, db, stored>>

\* _drain_key returns to the cycle.
Return(l, fails) ==
    loop' = [loop EXCEPT ![l].phase = "keys", ![l].key = @ + 1, ![l].version = 0,
                         ![l].toRead = {}, ![l].failed = @ \/ fails]

CallsOpen(l) == loop[l].phase = "keys" /\ loop[l].key <= loop[l].last /\ ~stopEvent

\* -202, a spec that is not subscribed, or another code: jv_rt_open raises and
\* the handler closes.
OpenRaises(l) ==
    /\ CallsOpen(l)
    /\ \E counted \in BOOLEAN :
         /\ link # Closed => ~counted
         /\ Return(l, counted)
    /\ Close
    /\ UNCHANGED <<service, provider, data, history>>

\* ret == -1: returns, and does not close.
OpenNoData(l) ==
    /\ CallsOpen(l) /\ link = Closed /\ provider[loop[l].key] = 0
    /\ link' = NoData
    /\ Return(l, FALSE)
    /\ UNCHANGED <<service, provider, data, history>>

\* replace_date_snapshot
Cleared(k) ==
    IF k \in SnapshotKeys THEN [db EXCEPT ![k] = [s \in Slots |-> 0]] ELSE db

OpenStream(l) ==
    /\ CallsOpen(l) /\ link = Closed
    /\ LET k == loop[l].key
       IN \E v \in (Versions \ {0}) :
            /\ v >= provider[k]
            /\ provider' = [provider EXCEPT ![k] = v]
            /\ db' = Cleared(k)
            /\ inTransaction' = (inTransaction \/ k \in SnapshotKeys)
            /\ loop' = [loop EXCEPT ![l].phase = "drain", ![l].version = v,
                                    ![l].toRead = Content[v]]
    /\ link' = l
    /\ UNCHANGED <<service, stored, history>>

IsRead(l, s) ==
    /\ Draining(l) /\ ~stopEvent /\ link = l
    /\ s \in loop[l].toRead /\ \A t \in loop[l].toRead : s <= t

\* A mining record that finds no transaction begins one and commits it.
CommitsItself(l) == loop[l].key \in MiningKeys /\ ~inTransaction

\* process_record writes the row in the cycle's transaction.
ReadRow(l, s) ==
    /\ IsRead(l, s)
    /\ ~CommitsItself(l)
    /\ loop' = [loop EXCEPT ![l].toRead = @ \ {s}]
    /\ db' = [db EXCEPT ![loop[l].key][s] = loop[l].version]
    /\ inTransaction' = TRUE
    /\ UNCHANGED <<service, link, provider, stored, history>>

\* ... and a mining record may have to commit its own.
ReadAndCommitRow(l, s) ==
    /\ IsRead(l, s) /\ CommitsItself(l)
    /\ loop' = [loop EXCEPT ![l].toRead = @ \ {s}]
    /\ db' = [db EXCEPT ![loop[l].key][s] = loop[l].version]
    /\ stored' = db'
    /\ UNCHANGED <<service, link, provider, inTransaction, history>>

\* process_record rejects the row, or the database does: SQLite, and the
\* replacement of a mining record, then roll the whole transaction back.
RowFails(l, s) ==
    /\ IsRead(l, s)
    /\ loop' = [loop EXCEPT ![l].toRead = @ \ {s}, ![l].failed = TRUE]
    /\ \/ UNCHANGED <<db, inTransaction>>
       \/ db' = stored /\ inTransaction' = FALSE
    /\ UNCHANGED <<service, link, provider, stored, history>>

\* JVRead returned 0 and the close succeeded.
EndStream(l) ==
    /\ Draining(l) /\ ~stopEvent /\ link = l
    /\ loop[l].toRead = {}
    /\ link' = Closed
    /\ Return(l, FALSE)
    /\ UNCHANGED <<service, provider, data, history>>

\* Mutant: an interrupted stream is not counted as failed.
MutantDrainFails(l) ==
    /\ Draining(l)
    /\ Close
    /\ Return(l, ~stopEvent)
    /\ UNCHANGED <<service, provider, data, history>>

\* The stop event, a JVRead error, an exception (that of the DELETE or of
\* jv_close included), or a stream that another thread has closed.
DrainFails(l) ==
    /\ Draining(l)
    /\ Close
    /\ Return(l, TRUE)
    /\ UNCHANGED <<service, provider, data, history>>

\* Mutant: the stop event ends the reading but not the walk over the keys.
MutantCycleOver(l) == loop[l].phase = "keys" /\ loop[l].key > loop[l].last

CycleOver(l) == loop[l].phase = "keys" /\ (loop[l].key > loop[l].last \/ stopEvent)

Commit(l) ==
    /\ CycleOver(l) /\ ~loop[l].failed
    /\ loop' = [loop EXCEPT ![l] = Waiting]
    /\ stored' = db /\ inTransaction' = FALSE
    /\ UNCHANGED <<service, link, provider, db, history>>

\* cycle_failed is not zero.
Rollback(l) ==
    /\ CycleOver(l) /\ loop[l].failed
    /\ loop' = [loop EXCEPT ![l] = Waiting]
    /\ db' = stored /\ inTransaction' = FALSE
    /\ UNCHANGED <<service, link, provider, stored, history>>

\* An exception in the cycle: begin_transaction, the query for race keys, the
\* commit.
CycleRaises(l) ==
    /\ loop[l].phase = "keys"
    /\ loop' = [loop EXCEPT ![l] = Waiting]
    /\ db' = stored /\ inTransaction' = FALSE
    /\ UNCHANGED <<service, link, provider, stored, history>>

LoopStep(l) ==
    \/ InitDone(l) \/ SeesStop(l) \/ Leave(l) \/ BeginCycle(l)
    \/ OpenRaises(l) \/ OpenNoData(l) \/ OpenStream(l)
    \/ \E s \in Slots : ReadRow(l, s) \/ ReadAndCommitRow(l, s) \/ RowFails(l, s)
    \/ EndStream(l) \/ DrainFails(l)
    \/ Commit(l) \/ Rollback(l)

Next ==
    \/ Start \/ BeginStop \/ EndStop \/ AddDataSpec
    \/ \E l \in Loops : LoopStep(l) \/ InitFails(l) \/ CycleRaises(l)

\* The threads are scheduled, and every call into JV-Link returns.
Spec == Init /\ [][Next]_vars /\ \A l \in Loops : WF_vars(LoopStep(l))

-----------------------------------------------------------------------------

Rows == [Keys -> [Slots -> Versions]]

LoopStates ==
    [phase : {"none", "init", "wait", "keys", "drain", "leaving", "dead"},
     key : Nat \ {0}, last : 0..LastKey, version : Versions, toRead : SUBSET Slots,
     failed : BOOLEAN]

TypeOK ==
    /\ isRunning \in BOOLEAN /\ stopEvent \in BOOLEAN
    /\ main \in {"idle", "stopping"} /\ started \in 0..MaxLoops
    /\ loop \in [Loops -> LoopStates]
    /\ specs \in Keys
    /\ link \in Loops \cup {Closed, NoData}
    /\ provider \in [Keys -> Versions]
    /\ db \in Rows /\ stored \in Rows /\ inTransaction \in BOOLEAN
    /\ cycles \in Nat /\ givenUp \in Nat /\ overlapped \in BOOLEAN

\* "This monitor uses a single thread" (realtime_monitor.py:61-63), but start()
\* looks at is_running only (119) and stop() gives up a thread it cannot join
\* (172-180).  The threads that live beside the last one started, and the last
\* one where the service thinks that it is down and may be started once more,
\* are never more than the joins that timed out.
LeftBehind == {l \in Loops : Alive(l) /\ l # started}

CanBeLeft == started \in Loops /\ Alive(started) /\ ~isRunning /\ main = "idle"

OneThreadPerGivenUp ==
    Cardinality(LeftBehind) + (IF CanBeLeft THEN 1 ELSE 0) <= givenUp

\* is_running is never true of a thread that has ended.
RunningIsAlive == isRunning => started \in Loops /\ Alive(started)

\* A thread that polls can be stopped: stop() refuses when is_running is false.
\* A thread left behind by a restart ends that, since it clears is_running of
\* the thread started over it.
PollingIsStoppable ==
    ~overlapped /\ ~stopEvent => \A l \in Loops : Alive(l) => isRunning

LaterNotStarted == \A l \in Loops : l > started => loop[l].phase = "none"

StoppingIsAsked == main = "stopping" => stopEvent

\* Before a restart over a living thread, only the last thread lives.
LastIsAlone == ~overlapped => LeftBehind = {}

\* The service's own state, over any number of stops that time out and starts
\* after them.
MonitorInv ==
    /\ TypeOK
    /\ LaterNotStarted
    /\ OneThreadPerGivenUp
    /\ LastIsAlone
    /\ RunningIsAlive
    /\ StoppingIsAsked
    /\ PollingIsStoppable

\* Every row of the key comes from a stream that was stored to its end: for a
\* snapshot key the rows are one version's, for another key a row is there only
\* with the other rows of its version or newer ones.
Whole(rows, k) ==
    IF k \in SnapshotKeys
      THEN \E v \in Versions : rows[k] = [s \in Slots |-> IF s \in Content[v] THEN v ELSE 0]
      ELSE \A s, t \in Slots : t \in Content[rows[k][s]] => rows[k][t] >= rows[k][s]

\* Whatever fails, is rejected or is interrupted, the committed rows are those
\* of complete streams (realtime_monitor.py:280-292, 355-372, 379-389).  A
\* record of a mining key is complete in itself, and two threads on the one
\* connection commit each other's streams half read.
StreamsWhole == \A k \in Keys \ MiningKeys : Whole(stored, k)

StoredStreamsWhole == ~overlapped => StreamsWhole

\* After stop() the thread ends, unless start() clears the event first.
StopEnds ==
    \A l \in Loops : stopEvent /\ Alive(l) ~> ~Alive(l) \/ ~stopEvent

=============================================================================
