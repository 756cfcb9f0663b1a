---------------------------- MODULE BridgeSession ---------------------------
(***************************************************************************)
(* The JV-Link session over the bridge process (JVLinkBridge in            *)
(* src/jvlink/bridge.py and the process in tools/jvlink-bridge): commands  *)
(* and responses over two pipes, timeouts, the process dying, and the      *)
(* client's idea of what JV-Link has open.                                 *)
(*                                                                         *)
(* A command and its response carry the number of the command; in the code *)
(* nothing but their order relates them.  Starting the process counts as a *)
(* command that the "ready" line answers.                                  *)
(***************************************************************************)
EXTENDS Naturals

CONSTANT MaxSent    \* bound: commands sent

ASSUME SessionAssumption == MaxSent \in Nat

VARIABLES
    process,        \* self._process: "none", or "alive" or "dead" by poll()
    initialized, isOpen, needsClose,
    call,           \* the API method that runs
    awaits,         \* the command whose response it reads
    sent,           \* number of the last command
    stdin, stdout,  \* lines in the pipes of the process
    jvInit,         \* JVInit in this process: "none", "done" or "refused"
    com             \* JV-Link's connection: "closed", "nodata" or "stream"

flags == <<initialized, isOpen, needsClose>>
pipes == <<stdin, stdout>>
jvlink == <<jvInit, com>>
sessionVars == <<process, flags, call, awaits, sent, pipes, jvlink>>

Commands == {"start", "init", "open", "read", "ask", "close", "quit"}
Results == {"ok", "nodata", "busy", "error"}

SessionInit ==
    /\ process = "none"
    /\ initialized = FALSE /\ isOpen = FALSE /\ needsClose = FALSE
    /\ call = "none" /\ awaits = "nothing" /\ sent = 0
    /\ stdin = {} /\ stdout = {}
    /\ jvInit = "none" /\ com = "closed"

-----------------------------------------------------------------------------
\* The client.

Alive == process = "alive"

\* _send_command, by method m; the process may die before it reads the line.
Send(m, cmd) ==
    /\ sent < MaxSent
    /\ sent' = sent + 1
    /\ stdin' = stdin \cup {[id |-> sent + 1, cmd |-> cmd]}
    /\ awaits' = cmd /\ call' = m

\* _start_process
StartProcess(m) ==
    /\ ~Alive /\ sent < MaxSent
    /\ sent' = sent + 1
    /\ process' = "alive" /\ jvInit' = "none" /\ com' = "closed"
    /\ stdin' = {[id |-> sent + 1, cmd |-> "start"]} /\ stdout' = {}
    /\ awaits' = "start" /\ call' = m
    /\ UNCHANGED flags

Return == call' = "none" /\ awaits' = "nothing"

\* The next command of the call, unless the process has died since: that raises.
SendNext(m, cmd) ==
    IF Alive THEN Send(m, cmd) ELSE Return /\ UNCHANGED <<sent, stdin>>

\* _abort_process; initialized stays.
Abort ==
    /\ process' = "none" /\ stdin' = {} /\ stdout' = {}
    /\ isOpen' = FALSE /\ needsClose' = FALSE
    /\ jvInit' = "none" /\ com' = "closed"

\* The process cannot be started.
StartFails ==
    /\ call = "none" /\ ~Alive
    /\ Abort
    /\ UNCHANGED <<initialized, call, awaits, sent>>

\* jv_init reuses the session of a process that is alive.
JvInit ==
    /\ call = "none"
    /\ \/ StartProcess("init")
       \/ /\ Alive /\ ~initialized
          /\ Send("init", "init")
          /\ UNCHANGED <<process, flags, stdout, jvlink>>

\* _ensure_session of jv_open and jv_rt_open
EnsureSession == initialized /\ ~Alive /\ StartProcess("open")

JvOpen ==
    /\ call = "none"
    /\ \/ EnsureSession
       \/ /\ Alive
          /\ Send("open", "open")
          /\ UNCHANGED <<process, flags, stdout, jvlink>>

JvRead ==
    /\ call = "none" /\ isOpen /\ Alive
    /\ Send("read", "read")
    /\ UNCHANGED <<process, flags, stdout, jvlink>>

\* jv_status and jv_file_delete
JvAsk ==
    /\ call = "none" /\ Alive
    /\ Send("ask", "ask")
    /\ UNCHANGED <<process, flags, stdout, jvlink>>

JvClose ==
    /\ call = "none" /\ Alive
    /\ Send("close", "close")
    /\ UNCHANGED <<process, flags, stdout, jvlink>>

CleanupDead ==
    /\ call = "none" /\ ~Alive
    /\ Abort /\ initialized' = FALSE
    /\ UNCHANGED <<call, awaits, sent>>

Cleanup ==
    /\ call = "none" /\ Alive
    /\ Send("cleanup", "quit")
    /\ UNCHANGED <<process, flags, stdout, jvlink>>

\* _read_response: the next line of the pipe.
Reads(cmd, line) ==
    /\ awaits = cmd /\ line \in stdout
    /\ \A other \in stdout : line.id <= other.id
    /\ stdout' = stdout \ {line}

\* Mutant: the restarted process is used without a JVInit of its own.
MutantReadReady ==
    /\ \E line \in stdout : Reads("start", line)
    /\ SendNext(call, call)
    /\ UNCHANGED <<process, flags, jvlink>>

ReadReady ==
    /\ \E line \in stdout : Reads("start", line)
    /\ SendNext(call, "init")
    /\ UNCHANGED <<process, flags, jvlink>>

ReadInitDone ==
    /\ \E line \in stdout : Reads("init", line) /\ line.result = "ok"
    /\ initialized' = TRUE
    /\ IF call = "open"
         THEN SendNext("open", "open")
         ELSE Return /\ UNCHANGED <<sent, stdin>>
    /\ UNCHANGED <<process, isOpen, needsClose, jvlink>>

\* JVInit has failed: raises.
ReadInitRefused ==
    /\ \E line \in stdout : Reads("init", line) /\ line.result # "ok"
    /\ Return
    /\ UNCHANGED <<process, flags, sent, stdin, jvlink>>

\* Mutant: only a stream with data has to be closed.
MutantReadOpen ==
    /\ \E line \in stdout :
         /\ Reads("open", line)
         /\ needsClose' = (needsClose \/ line.result = "ok")
         /\ isOpen' = IF line.result \in {"ok", "nodata"} THEN line.result = "ok" ELSE isOpen
    /\ Return
    /\ UNCHANGED <<process, initialized, sent, stdin, jvlink>>

ReadOpen ==
    /\ \E line \in stdout :
         /\ Reads("open", line)
         /\ needsClose' = (needsClose \/ line.result # "error")
         /\ isOpen' = IF line.result \in {"ok", "nodata"} THEN line.result = "ok" ELSE isOpen
    /\ Return
    /\ UNCHANGED <<process, initialized, sent, stdin, jvlink>>

\* The response of JVRead, JVStatus or JVFiledelete.
ReadData ==
    /\ \E line \in stdout : Reads("read", line) \/ Reads("ask", line)
    /\ Return
    /\ UNCHANGED <<process, flags, sent, stdin, jvlink>>

ReadClose ==
    /\ \E line \in stdout :
         /\ Reads("close", line)
         /\ isOpen' = (isOpen /\ line.result # "ok")
         /\ needsClose' = (needsClose /\ line.result # "ok")
    /\ Return
    /\ UNCHANGED <<process, initialized, sent, stdin, jvlink>>

\* Mutant: a response that is late leaves the process as it is.
MutantResponseLost ==
    /\ awaits \notin {"nothing", "quit"}
    /\ Return
    /\ UNCHANGED <<process, flags, sent, pipes, jvlink>>

\* Timeout, end of file, a broken pipe or a line that is no response.
ResponseLost ==
    /\ awaits \notin {"nothing", "quit"}
    /\ Abort /\ Return
    /\ UNCHANGED <<initialized, sent>>

\* cleanup goes on whatever "quit" is answered: terminate or kill.
EndCleanup ==
    /\ awaits = "quit"
    /\ Abort /\ Return
    /\ initialized' = FALSE
    /\ UNCHANGED sent

-----------------------------------------------------------------------------
\* The bridge process (its main loop) and JV-Link in it.

Takes(cmd, line) ==
    /\ Alive /\ line \in stdin /\ line.cmd = cmd
    /\ \A other \in stdin : line.id <= other.id
    /\ stdin' = stdin \ {line}

Answers(line, result) ==
    stdout' = stdout \cup {[id |-> line.id, cmd |-> line.cmd, result |-> result]}

\* The first line is the "ready" of the process; JVStatus, JVFiledelete and
\* JVRead change nothing here.
HandlePlain ==
    /\ \E line \in stdin :
         /\ \E cmd \in {"start", "read", "ask"} : Takes(cmd, line)
         /\ Answers(line, "ok")
    /\ UNCHANGED <<process, flags, call, awaits, sent, jvlink>>

HandleInit ==
    /\ \E line \in stdin, done \in BOOLEAN :
         /\ Takes("init", line)
         /\ Answers(line, IF done THEN "ok" ELSE "error")
         /\ jvInit' = IF done \/ jvInit = "done" THEN "done" ELSE "refused"
    /\ UNCHANGED <<process, flags, call, awaits, sent, com>>

HandleOpen ==
    /\ \E line \in stdin, result \in Results :
         /\ Takes("open", line)
         /\ jvInit # "done" => result = "error"
         /\ result = "busy" => com # "closed"
         /\ result \in {"ok", "nodata"} => com = "closed"
         /\ Answers(line, result)
         /\ com' = CASE result = "ok" -> "stream"
                     [] result = "nodata" -> "nodata"
                     [] OTHER -> com
    /\ UNCHANGED <<process, flags, call, awaits, sent, jvInit>>

\* JVClose is called if something is open, and may fail.
HandleClose ==
    /\ \E line \in stdin, done \in BOOLEAN :
         /\ Takes("close", line)
         /\ com = "closed" => done
         /\ Answers(line, IF done THEN "ok" ELSE "error")
         /\ com' = IF done THEN "closed" ELSE com
    /\ UNCHANGED <<process, flags, call, awaits, sent, jvInit>>

HandleQuit ==
    /\ \E line \in stdin :
         /\ Takes("quit", line)
         /\ Answers(line, "ok")
    /\ process' = "dead"
    /\ UNCHANGED <<flags, call, awaits, sent, jvlink>>

Dies ==
    /\ Alive
    /\ process' = "dead"
    /\ UNCHANGED <<flags, call, awaits, sent, pipes, jvlink>>

SessionNext ==
    \/ StartFails \/ JvInit \/ JvOpen \/ JvRead \/ JvAsk \/ JvClose
    \/ CleanupDead \/ Cleanup
    \/ ReadReady \/ ReadInitDone \/ ReadInitRefused \/ ReadOpen \/ ReadData \/ ReadClose
    \/ ResponseLost \/ EndCleanup
    \/ HandlePlain \/ HandleInit \/ HandleOpen \/ HandleClose \/ HandleQuit \/ Dies

SessionSpec == SessionInit /\ [][SessionNext]_sessionVars

-----------------------------------------------------------------------------

SessionTypeOK ==
    /\ process \in {"none", "alive", "dead"}
    /\ initialized \in BOOLEAN /\ isOpen \in BOOLEAN /\ needsClose \in BOOLEAN
    /\ call \in {"none", "init", "open", "read", "ask", "close", "cleanup"}
    /\ awaits \in Commands \cup {"nothing"}
    /\ sent \in Nat
    /\ stdin \subseteq [id : Nat, cmd : Commands]
    /\ stdout \subseteq [id : Nat, cmd : Commands, result : Results]
    /\ jvInit \in {"none", "done", "refused"} /\ com \in {"closed", "nodata", "stream"}

\* Nothing is in the pipes but the command that is awaited or its response, so a
\* response that comes late is never taken for that of a later command
\* (_response_timeout, bridge.py:493-497).
AnswersMatch ==
    \A line \in stdin \cup stdout : line.id = sent /\ line.cmd = awaits

\* The session's own state.
SessionInv == SessionTypeOK /\ AnswersMatch

\* Between calls the client knows what JV-Link has open in a living process: it
\* will close it before the next open and can read a stream.
CloseIsOwed ==
    call = "none" /\ Alive =>
        /\ com # "closed" => needsClose
        /\ com = "stream" => isOpen

\* "JVInit is issued once per bridge process" (bridge.py:636): no other command
\* of JV-Link reaches a process in which JVInit has not been called.
JVInitComesFirst ==
    (\E line \in stdin : line.cmd \in Commands \ {"start", "init", "quit"})
        => jvInit # "none"

=============================================================================
