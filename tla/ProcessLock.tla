----------------------------- MODULE ProcessLock ----------------------------
(***************************************************************************)
(* ProcessLock (src/utils/lock_manager.py): a lock file that names its     *)
(* holder.  acquire and release are a sequence of separate file            *)
(* operations, one action each; processes of the same lock interleave      *)
(* between them, crash, and start again.                                   *)
(*                                                                         *)
(* File operations go by path: whoever unlinks removes the file that is    *)
(* there now.  On POSIX a process that has an unlinked file open goes on   *)
(* writing where nobody looks; Windows refuses to unlink an open file.     *)
(***************************************************************************)
EXTENDS Naturals

CONSTANTS
    Procs,
    MaxStarts   \* bound: acquire calls of all processes together

NoFile == "none"
Blank == "blank"    \* the file exists and has no content yet

ASSUME NotAProcess == NoFile \notin Procs /\ Blank \notin Procs

VARIABLES
    posix,      \* platform
    file,       \* content of the lock file: NoFile, Blank or the PID in it
    pc,
    waits,      \* acquire(blocking=True)
    seen,       \* PID read from the file
    linked,     \* the process has the file at the path open for writing
    starts,     \* acquire calls so far
    misjudged,  \* auxiliary: a live holder was taken for dead
    crashed     \* auxiliary: some process died before its release

lockVars == <<posix, file, pc, waits, seen, linked, starts, misjudged, crashed>>

Alive(p) == pc[p] # "off"

Goto(p, l) == pc' = [pc EXCEPT ![p] = l]

LockInit ==
    /\ posix \in BOOLEAN
    /\ file = NoFile
    /\ pc = [p \in Procs |-> "off"]
    /\ waits = [p \in Procs |-> FALSE]
    /\ seen = [p \in Procs |-> NoFile]
    /\ linked = [p \in Procs |-> FALSE]
    /\ starts = 0
    /\ misjudged = FALSE /\ crashed = FALSE

Acquire(p) ==
    /\ pc[p] = "off" /\ starts < MaxStarts
    /\ starts' = starts + 1
    /\ \E b \in BOOLEAN : waits' = [waits EXCEPT ![p] = b]
    /\ Goto(p, "check")
    /\ UNCHANGED <<posix, file, seen, linked, misjudged, crashed>>

\* lock_file.exists()
Check(p) ==
    /\ pc[p] = "check"
    /\ Goto(p, IF file = NoFile THEN "create" ELSE "read")
    /\ UNCHANGED <<posix, file, waits, seen, linked, starts, misjudged, crashed>>

\* int(f.read()): a missing or blank file is an invalid lock.
ReadPid(p) ==
    /\ pc[p] = "read"
    /\ IF file \in Procs
         THEN seen' = [seen EXCEPT ![p] = file] /\ Goto(p, "probe")
         ELSE UNCHANGED seen /\ Goto(p, "invalid")
    /\ UNCHANGED <<posix, file, waits, linked, starts, misjudged, crashed>>

\* Mutant: the holder is not looked up.
MutantProbe(p) ==
    /\ pc[p] = "probe"
    /\ Goto(p, "stale")
    /\ UNCHANGED <<posix, file, waits, seen, linked, starts, misjudged, crashed>>

\* _is_process_running
Probe(p) ==
    /\ pc[p] = "probe"
    /\ Goto(p, IF Alive(seen[p]) THEN "busy" ELSE "stale")
    /\ UNCHANGED <<posix, file, waits, seen, linked, starts, misjudged, crashed>>

\* tasklist times out, or signal 0 is not permitted: "not running".
ProbeFails(p) ==
    /\ pc[p] = "probe"
    /\ misjudged' = (misjudged \/ Alive(seen[p]))
    /\ Goto(p, "stale")
    /\ UNCHANGED <<posix, file, waits, seen, linked, starts, crashed>>

\* Raise at once, or when the timeout has passed.
GiveUp(p) ==
    /\ pc[p] = "busy"
    /\ Goto(p, "off")
    /\ UNCHANGED <<posix, file, waits, seen, linked, starts, misjudged, crashed>>

WaitAgain(p) ==
    /\ pc[p] = "busy" /\ waits[p]
    /\ Goto(p, "check")
    /\ UNCHANGED <<posix, file, waits, seen, linked, starts, misjudged, crashed>>

Unlink ==
    /\ file # NoFile
    /\ posix \/ \A q \in Procs : ~linked[q]
    /\ file' = NoFile
    /\ linked' = [q \in Procs |-> FALSE]

\* The file is gone, or on Windows someone is writing or reading it.
UnlinkRaises ==
    /\ \/ file = NoFile
       \/ ~posix /\ \E q \in Procs : linked[q] \/ pc[q] = "read"
    /\ UNCHANGED <<file, linked>>

\* The stale file is removed; when that raises, the handler for invalid files
\* tries once more.
RemoveStale(p) ==
    /\ pc[p] = "stale"
    /\ \/ Unlink /\ Goto(p, "create")
       \/ UnlinkRaises /\ Goto(p, "invalid")
    /\ UNCHANGED <<posix, waits, seen, starts, misjudged, crashed>>

\* The invalid file is removed; when that raises, acquire does.
RemoveInvalid(p) ==
    /\ pc[p] = "invalid"
    /\ \/ Unlink /\ Goto(p, "create")
       \/ UnlinkRaises /\ Goto(p, "off")
    /\ UNCHANGED <<posix, waits, seen, starts, misjudged, crashed>>

\* open(lock_file, 'w') creates or truncates.
Create(p) ==
    /\ pc[p] = "create"
    /\ file' = Blank
    /\ linked' = [linked EXCEPT ![p] = TRUE]
    /\ Goto(p, "write")
    /\ UNCHANGED <<posix, waits, seen, starts, misjudged, crashed>>

\* The PID reaches the file when it is closed; acquire returns.
WritePid(p) ==
    /\ pc[p] = "write"
    /\ file' = IF linked[p] THEN p ELSE file
    /\ linked' = [linked EXCEPT ![p] = FALSE]
    /\ Goto(p, "held")
    /\ UNCHANGED <<posix, waits, seen, starts, misjudged, crashed>>

\* Mutant: the holder's PID is not compared.
MutantRelease(p) ==
    /\ pc[p] = "held"
    /\ Goto(p, IF file # NoFile THEN "unlink" ELSE "off")
    /\ UNCHANGED <<posix, file, waits, seen, linked, starts, misjudged, crashed>>

\* release: exists, and the PID in it is ours.
Release(p) ==
    /\ pc[p] = "held"
    /\ Goto(p, IF file = p THEN "unlink" ELSE "off")
    /\ UNCHANGED <<posix, file, waits, seen, linked, starts, misjudged, crashed>>

\* Mutant: the lock file is left behind.
MutantReleaseUnlink(p) ==
    /\ pc[p] = "unlink"
    /\ Goto(p, "off")
    /\ UNCHANGED <<posix, file, waits, seen, linked, starts, misjudged, crashed>>

\* An unlink that fails is logged.
ReleaseUnlink(p) ==
    /\ pc[p] = "unlink"
    /\ Unlink \/ UnlinkRaises
    /\ Goto(p, "off")
    /\ UNCHANGED <<posix, waits, seen, starts, misjudged, crashed>>

Dies(p) ==
    /\ Alive(p)
    /\ linked' = [linked EXCEPT ![p] = FALSE]
    /\ crashed' = TRUE
    /\ Goto(p, "off")
    /\ UNCHANGED <<posix, file, waits, seen, starts, misjudged>>

Step(p) ==
    \/ Check(p) \/ ReadPid(p) \/ Probe(p) \/ ProbeFails(p)
    \/ GiveUp(p) \/ WaitAgain(p)
    \/ RemoveStale(p) \/ RemoveInvalid(p)
    \/ Create(p) \/ WritePid(p)
    \/ Release(p) \/ ReleaseUnlink(p)

LockNext == \E p \in Procs : Acquire(p) \/ Step(p) \/ Dies(p)

LockSpec == LockInit /\ [][LockNext]_lockVars

-----------------------------------------------------------------------------

LockTypeOK ==
    /\ posix \in BOOLEAN
    /\ file \in Procs \cup {NoFile, Blank}
    /\ pc \in [Procs -> {"off", "check", "read", "probe", "busy", "stale", "invalid",
                         "create", "write", "held", "unlink"}]
    /\ waits \in [Procs -> BOOLEAN] /\ linked \in [Procs -> BOOLEAN]
    /\ seen \in [Procs -> Procs \cup {NoFile}]
    /\ starts \in Nat
    /\ misjudged \in BOOLEAN /\ crashed \in BOOLEAN

\* p has the lock, the file says so, and nobody is past looking at it.
Settled(p) ==
    /\ pc[p] = "held" /\ file = p
    /\ \A q \in Procs \ {p} :
         \/ pc[q] \in {"off", "check", "read", "busy"}
         \/ pc[q] = "probe" /\ seen[q] = p

\* Once a holder is settled, whoever comes later stays out until it releases or
\* dies, however the others interleave, crash and return: only a wrong answer
\* about the holder breaks in (lock_manager.py:83-110, 120-129).
SettledHolderKeepsLock ==
    [][\A p \in Procs : Settled(p) /\ pc'[p] = "held" => Settled(p)' \/ misjudged']_lockVars

\* What NothingLeftBehind rests on: while nobody has died, a lock file belongs
\* to a process that will still remove or take it.  One that is blank is open
\* for writing, one that names a process names a holder or one that is just
\* about to unlink (lock_manager.py:103-137).
FileIsOwned ==
    posix /\ ~crashed =>
        /\ \A p \in Procs : linked[p] => pc[p] = "write"
        /\ file = Blank => \E p \in Procs : linked[p]
        /\ file \in Procs => pc[file] \in {"held", "unlink"}

\* When nobody has died and everybody has finished, no lock file is left to
\* refuse the next run (lock_manager.py:108-137); on Windows a release that
\* meets a reader leaves it for the stale check.
NothingLeftBehind ==
    posix /\ (\A p \in Procs : ~Alive(p)) /\ ~crashed => file = NoFile

=============================================================================
