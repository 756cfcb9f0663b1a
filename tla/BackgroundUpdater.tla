-------------------------- MODULE BackgroundUpdater -------------------------
(***************************************************************************)
(* The background update service (scripts/background_updater.py): the      *)
(* threads of BackgroundUpdater that fetch historical and realtime data    *)
(* under one JV-Link lock, the trigger file by which the HTTP API and the  *)
(* command line force an update, and the process that is stopped, killed   *)
(* and started again.                                                      *)
(*                                                                         *)
(* A historical update runs one `fetch` process per spec; a realtime       *)
(* update fetches in the thread itself.  What is fetched and stored is not *)
(* modelled here; the API's rate limit can only refuse requests.           *)
(***************************************************************************)
EXTENDS Integers

CONSTANTS
    Handlers,       \* threads of the HTTP server
    Console,        \* a command line that runs --trigger
    LastSpec,       \* HISTORICAL_SPECS and REALTIME_SPECS are 1..LastSpec
    MaxStarts,      \* bound: starts of the service
    MaxRequests     \* bound: triggers sent

ASSUME UpdaterAssumption ==
    /\ Console \notin Handlers
    /\ LastSpec \in Nat /\ MaxStarts \in Nat /\ MaxRequests \in Nat

Kinds == {"historical", "realtime"}
Threads == Kinds \cup {"trigger"}   \* the loops; two run the update they are named for
Modes == Kinds \cup {"all"}
Writers == Handlers \cup {Console}
Nobody == "nobody"

VARIABLES
    up, running,    \* the process exists; self._running
    thread,
    owner,          \* who holds _jvlink_lock
    updating,       \* _historical_updating, _realtime_updating
    prepared,       \* _realtime_schema_prepared
    trigger,        \* the trigger file: "none", "empty" or its mode
    writer,         \* those who write it: "idle", "open" or, if the file they
                    \* have open is deleted, "gone"
    sent, handled,  \* triggers sent; triggers that have led to a forced update
    starts

process == <<up, running, starts>>
updates == <<owner, updating, prepared>>
requests == <<trigger, writer, sent, handled>>
updaterVars == <<process, thread, updates, requests>>

Looping == [pc |-> "loop", kind |-> "realtime", spec |-> 1, todo |-> {}, raised |-> FALSE]
Ended == [Looping EXCEPT !.pc = "ended"]

\* A thread about to run the updates of the set todo, historical first.
Running(todo) ==
    LET kind == IF "historical" \in todo THEN "historical" ELSE "realtime"
    IN  [Looping EXCEPT !.pc = "check", !.kind = kind, !.todo = todo \ {kind}]

\* Thread t when its update has returned.  Only the realtime loop catches
\* what an update raises; a historical update raises nothing.
Returned(t, raised) ==
    IF raised /\ t = "trigger" THEN Ended
    ELSE IF thread[t].todo = {} THEN Looping
    ELSE Running(thread[t].todo)

At(t, pc) == thread[t].pc = pc
Inside(t) == thread[t].pc \in {"mark", "prepare", "ready", "busy", "timeseries", "clear", "release"}
Marked(t) == thread[t].pc \in {"prepare", "ready", "busy", "timeseries", "clear"}

UpdaterInit ==
    /\ up = FALSE /\ running = FALSE
    /\ thread = [t \in Threads |-> Ended]
    /\ owner = Nobody /\ updating = {} /\ prepared = FALSE
    /\ trigger = "none" /\ writer = [w \in Writers |-> "idle"]
    /\ sent = 0 /\ handled = 0 /\ starts = 0

-----------------------------------------------------------------------------
\* The process.

\* What the process kept in memory has its first value again since it ended.
StartService ==
    /\ ~up /\ starts < MaxStarts
    /\ up' = TRUE /\ running' = TRUE /\ starts' = starts + 1
    /\ thread' = [t \in Threads |-> Looping]
    /\ UNCHANGED <<updates, requests>>

\* SIGTERM, Ctrl-C.
Stop ==
    /\ up /\ running
    /\ running' = FALSE
    /\ UNCHANGED <<up, starts, thread, updates, requests>>

\* The process is gone, and with it its threads, which are daemons.  A fetch
\* process that lives on has no part in what follows here.
Gone ==
    /\ up' = FALSE /\ running' = FALSE
    /\ thread' = [t \in Threads |-> Ended]
    /\ owner' = Nobody /\ updating' = {} /\ prepared' = FALSE
    /\ writer' = [w \in Writers |-> IF w = Console THEN writer[w] ELSE "idle"]
    /\ UNCHANGED <<starts, trigger, sent, handled>>

\* stop() has joined the threads, or waited 5 seconds for each.
Exit == up /\ ~running /\ Gone

\* --stop on Windows is taskkill /F; any crash.
Killed == up /\ running /\ Gone

-----------------------------------------------------------------------------
\* The loops.

Wake(t) ==
    /\ t \in Kinds /\ At(t, "loop") /\ running
    /\ thread' = [thread EXCEPT ![t] = Running({t})]
    /\ UNCHANGED <<process, updates, requests>>

EndLoop(t) ==
    /\ up /\ At(t, "loop") /\ ~running
    /\ thread' = [thread EXCEPT ![t] = Ended]
    /\ UNCHANGED <<process, updates, requests>>

SeeTrigger ==
    /\ At("trigger", "loop") /\ running /\ trigger # "none"
    /\ thread' = [thread EXCEPT !["trigger"].pc = "read"]
    /\ UNCHANGED <<process, updates, requests>>

\* Mutant: an empty file is taken for one that is still being written.
MutantReadTrigger ==
    /\ At("trigger", "read")
    /\ thread' = [thread EXCEPT !["trigger"] =
                    IF trigger = "empty" THEN Looping
                    ELSE [thread["trigger"] EXCEPT !.pc = "unlink", !.todo = Kinds]]
    /\ UNCHANGED <<process, updates, requests>>

\* An empty or unknown content counts as "all".
ReadTrigger ==
    /\ At("trigger", "read")
    /\ thread' = [thread EXCEPT !["trigger"] =
                    [thread["trigger"] EXCEPT !.pc = "unlink",
                        !.todo = IF trigger \in Kinds THEN {trigger} ELSE Kinds]]
    /\ UNCHANGED <<process, updates, requests>>

\* Writers that have the file open keep writing to a file that is gone.
UnlinkTrigger ==
    /\ At("trigger", "unlink")
    /\ trigger' = "none"
    /\ writer' = [w \in Writers |-> IF writer[w] = "open" THEN "gone" ELSE writer[w]]
    /\ handled' = handled + 1
    /\ thread' = [thread EXCEPT !["trigger"] = Running(thread["trigger"].todo)]
    /\ UNCHANGED <<process, updates, sent>>

\* Mutant: a trigger that cannot be deleted is served all the same.
MutantUnlinkFails ==
    /\ At("trigger", "unlink") /\ \E w \in Writers : writer[w] = "open"
    /\ handled' = handled + 1
    /\ thread' = [thread EXCEPT !["trigger"] = Running(thread["trigger"].todo)]
    /\ UNCHANGED <<process, updates, trigger, writer, sent>>

\* On Windows a file that a writer has open cannot be deleted.
UnlinkFails ==
    /\ At("trigger", "unlink") /\ \E w \in Writers : writer[w] = "open"
    /\ thread' = [thread EXCEPT !["trigger"] = Looping]
    /\ UNCHANGED <<process, updates, requests>>

-----------------------------------------------------------------------------
\* _run_historical_update and _run_realtime_update, by thread t.

\* The update of this kind is in progress, or another thread has the lock.
Skip(t) ==
    /\ \/ At(t, "check") /\ thread[t].kind \in updating
       \/ At(t, "acquire") /\ owner # Nobody
    /\ thread' = [thread EXCEPT ![t] = Returned(t, FALSE)]
    /\ UNCHANGED <<process, updates, requests>>

Check(t) ==
    /\ At(t, "check") /\ thread[t].kind \notin updating
    /\ thread' = [thread EXCEPT ![t].pc = "acquire"]
    /\ UNCHANGED <<process, updates, requests>>

\* Mutant: the lock is not tried again after the check of the flag.
MutantAcquire(t) ==
    /\ At(t, "acquire")
    /\ owner' = t
    /\ thread' = [thread EXCEPT ![t].pc = "mark"]
    /\ UNCHANGED <<process, updating, prepared, requests>>

Acquire(t) ==
    /\ At(t, "acquire") /\ owner = Nobody
    /\ owner' = t
    /\ thread' = [thread EXCEPT ![t].pc = "mark"]
    /\ UNCHANGED <<process, updating, prepared, requests>>

Mark(t) ==
    /\ At(t, "mark")
    /\ updating' = updating \cup {thread[t].kind}
    /\ thread' = [thread EXCEPT ![t].pc =
                    IF thread[t].kind = "realtime" THEN "prepare" ELSE "ready"]
    /\ UNCHANGED <<process, owner, prepared, requests>>

Prepare(t) ==
    /\ At(t, "prepare")
    /\ prepared' = TRUE
    /\ thread' = [thread EXCEPT ![t].pc = "ready"]
    /\ UNCHANGED <<process, owner, updating, requests>>

BeginSpec(t) ==
    /\ At(t, "ready") /\ thread[t].spec <= LastSpec /\ running
    /\ thread' = [thread EXCEPT ![t].pc = "busy"]
    /\ UNCHANGED <<process, updates, requests>>

\* The fetch ends, fails or is killed after its 600 seconds; a spec's
\* exceptions are counted.
EndSpec(t) ==
    /\ At(t, "busy")
    /\ thread' = [thread EXCEPT ![t] = [thread[t] EXCEPT !.pc = "ready", !.spec = thread[t].spec + 1]]
    /\ UNCHANGED <<process, updates, requests>>

EndSpecs(t) ==
    /\ At(t, "ready") /\ (thread[t].spec > LastSpec \/ ~running)
    /\ thread' = [thread EXCEPT ![t].pc =
                    IF thread[t].kind = "realtime" THEN "timeseries" ELSE "clear"]
    /\ UNCHANGED <<process, updates, requests>>

TimeSeries(t) ==
    /\ At(t, "timeseries")
    /\ thread' = [thread EXCEPT ![t].pc = "clear"]
    /\ UNCHANGED <<process, updates, requests>>

\* The schema cannot be created, or the time series fail.
Raise(t) ==
    /\ \/ At(t, "prepare") /\ ~prepared
       \/ At(t, "timeseries")
    /\ thread' = [thread EXCEPT ![t] = [thread[t] EXCEPT !.pc = "clear", !.raised = TRUE]]
    /\ UNCHANGED <<process, updates, requests>>

Clear(t) ==
    /\ At(t, "clear")
    /\ updating' = updating \ {thread[t].kind}
    /\ thread' = [thread EXCEPT ![t].pc = "release"]
    /\ UNCHANGED <<process, owner, prepared, requests>>

\* Mutant: the lock is released after the update, not in a finally.
MutantRelease(t) ==
    /\ At(t, "release")
    /\ owner' = IF thread[t].raised THEN owner ELSE Nobody
    /\ thread' = [thread EXCEPT ![t] = Returned(t, thread[t].raised)]
    /\ UNCHANGED <<process, updating, prepared, requests>>

\* Mutant: the loop does not catch what a poll raises.
MutantReleaseUncaught(t) ==
    /\ At(t, "release")
    /\ owner' = Nobody
    /\ thread' = [thread EXCEPT ![t] = IF thread[t].raised THEN Ended ELSE Returned(t, FALSE)]
    /\ UNCHANGED <<process, updating, prepared, requests>>

Release(t) ==
    /\ At(t, "release")
    /\ owner' = Nobody
    /\ thread' = [thread EXCEPT ![t] = Returned(t, thread[t].raised)]
    /\ UNCHANGED <<process, updating, prepared, requests>>

-----------------------------------------------------------------------------
\* Triggers: send_trigger, in a handler of the service's API or on its own.

\* write_text opens the file, which empties or creates it, ...
OpenTrigger(w) ==
    /\ writer[w] = "idle" /\ (w = Console \/ running) /\ sent < MaxRequests
    /\ trigger' = "empty" /\ sent' = sent + 1
    /\ writer' = [writer EXCEPT ![w] = "open"]
    /\ UNCHANGED <<process, thread, updates, handled>>

\* ... and writes from its beginning: a shorter mode over a longer one makes
\* a content that is unknown.
Length == [empty |-> 0, all |-> 3, realtime |-> 8, historical |-> 10]
Over(mode, content) == IF Length[content] > Length[mode] THEN "all" ELSE mode

WriteTrigger(w) ==
    /\ writer[w] # "idle"
    /\ IF writer[w] = "open" THEN \E mode \in Modes : trigger' = Over(mode, trigger)
                             ELSE trigger' = trigger
    /\ writer' = [writer EXCEPT ![w] = "idle"]
    /\ UNCHANGED <<process, thread, updates, sent, handled>>

-----------------------------------------------------------------------------

Update(t) ==
    \/ Skip(t) \/ Check(t) \/ Acquire(t) \/ Mark(t) \/ Prepare(t) \/ BeginSpec(t)
    \/ EndSpec(t) \/ EndSpecs(t) \/ TimeSeries(t) \/ Raise(t) \/ Clear(t) \/ Release(t)

WatchTrigger == SeeTrigger \/ ReadTrigger \/ UnlinkTrigger \/ UnlinkFails

UpdaterNext ==
    \/ StartService \/ Stop \/ Exit \/ Killed
    \/ \E t \in Threads : Wake(t) \/ EndLoop(t) \/ Update(t)
    \/ WatchTrigger
    \/ \E w \in Writers : OpenTrigger(w) \/ WriteTrigger(w)

\* Every thread goes on: the bridge bounds each JV-Link call and the fetch
\* process is killed after its timeout.  A writer that has opened the file
\* writes it.
Fairness ==
    /\ \A t \in Threads : WF_updaterVars(Update(t))
    /\ WF_updaterVars(WatchTrigger)
    /\ \A w \in Writers : WF_updaterVars(WriteTrigger(w))

UpdaterSpec == UpdaterInit /\ [][UpdaterNext]_updaterVars /\ Fairness

-----------------------------------------------------------------------------
\* Properties.

ThreadState ==
    [pc : {"loop", "ended", "read", "unlink", "check", "acquire", "mark", "prepare", "ready",
           "busy", "timeseries", "clear", "release"},
     kind : Kinds, spec : Nat, todo : SUBSET Kinds, raised : BOOLEAN]

UpdaterTypeOK ==
    /\ up \in BOOLEAN /\ running \in BOOLEAN /\ prepared \in BOOLEAN
    /\ thread \in [Threads -> ThreadState]
    /\ owner \in Threads \cup {Nobody} /\ updating \in SUBSET Kinds
    /\ trigger \in Modes \cup {"none", "empty"}
    /\ writer \in [Writers -> {"idle", "open", "gone"}]
    /\ sent \in Nat /\ handled \in Nat /\ starts \in Nat

\* A thread is inside an update exactly when it holds the JV-Link lock, so a
\* historical and a realtime update never run at the same time in a process
\* (the comment at _jvlink_lock).
LockHeldInside == \A t \in Threads : owner = t <=> Inside(t)

\* A flag is set exactly while an update of its kind runs: no failure, skip or
\* stop leaves one set, which would refuse that kind of update for ever.
FlagsAreTrue == \A k \in Kinds : k \in updating <=> \E t \in Threads : Marked(t) /\ thread[t].kind = k

UpdaterInv == UpdaterTypeOK /\ LockHeldInside /\ FlagsAreTrue

\* Neither collection thread ends while the service runs, whatever a JV-Link
\* or database error interrupts (the comment in _realtime_update_loop).
CollectorsSurvive == running => \A k \in Kinds : ~At(k, "ended")

\* A trigger is served at most once, also when the service is killed and
\* started again: the file is deleted before the update runs.
ServedAtMostOnce == handled <= sent

\* Every update ends and gives the lock back, however it ends.
UpdatesEnd == \A t \in Threads : (owner = t) ~> (owner # t)

\* A trigger file is taken while the service runs and its trigger thread lives.
TriggerIsTaken ==
    (trigger # "none") ~> (trigger = "none" \/ ~running \/ At("trigger", "ended"))
=============================================================================
