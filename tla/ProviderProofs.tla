--------------------------- MODULE ProviderProofs ---------------------------
(***************************************************************************)
(* Proofs about the two modules that talk to the data provider.            *)
(* BridgeSession: commands and responses never get out of step, and the    *)
(* client never forgets a stream it has to close, for any number of        *)
(* commands and any deaths and delays of the process.                      *)
(* HistoricalFetch: for any number of windows, any provider contents, any  *)
(* retry budget and any number of fetches on one fetcher.                  *)
(***************************************************************************)
EXTENDS BridgeSession, HistoricalFetch, TLAPS

(***************************************************************************)
(* The bridge session.                                                     *)
(***************************************************************************)

\* The pipes hold at most one line, and only during a call.
OneLine ==
    /\ call = "none" <=> awaits = "nothing"
    /\ stdin # {} => stdout = {}
    /\ \A a, b \in stdout : a = b

\* What the client does not know yet is in the response it has not read.
ResponseTells ==
    /\ \A line \in stdout :
         /\ line.cmd = "open" /\ line.result = "ok" => com = "stream"
         /\ line.cmd = "open" /\ line.result = "nodata" => com = "nodata"
         /\ line.cmd = "open" /\ line.result = "busy" => com # "closed"
         /\ line.cmd = "close" /\ line.result = "ok" => com = "closed"
    /\ \/ com # "closed" => needsClose
       \/ \E line \in stdout : line.cmd = "open" /\ line.result \in {"ok", "nodata"}
    /\ \/ com = "stream" => isOpen
       \/ \E line \in stdout : line.cmd = "open" /\ line.result \in {"ok", "nodata"}

\* A process that JVInit has not been called in is being started.
JVInitInTime ==
    /\ Alive /\ jvInit = "none" => awaits \in {"start", "init"}
    /\ \A line \in stdout : line.cmd # "start" => jvInit # "none"

IInv == SessionInv /\ OneLine /\ ResponseTells /\ JVInitInTime /\ JVInitComesFirst

LEMMA InitSession == SessionInit => IInv
  <1> SUFFICES ASSUME SessionInit PROVE IInv
    OBVIOUS
  <1>1. SessionTypeOK
    BY DEF SessionInit, SessionTypeOK
  <1>2. QED
    BY <1>1 DEF SessionInit, IInv, SessionInv, AnswersMatch, OneLine, ResponseTells, JVInitInTime,
                JVInitComesFirst, Alive

\* The process is given up.
LEMMA AbortKeeps ==
  ASSUME IInv, StartFails \/ CleanupDead \/ ResponseLost \/ EndCleanup
  PROVE  IInv'
  <1>1. /\ process' = "none" /\ stdin' = {} /\ stdout' = {}
        /\ isOpen' = FALSE /\ needsClose' = FALSE
        /\ jvInit' = "none" /\ com' = "closed" /\ sent' = sent
    BY DEF StartFails, CleanupDead, ResponseLost, EndCleanup, Abort
  <1>2. initialized' \in BOOLEAN
    BY DEF StartFails, CleanupDead, ResponseLost, EndCleanup, IInv, SessionInv, SessionTypeOK
  <1>3. (call' = "none" /\ awaits' = "nothing") \/ UNCHANGED <<call, awaits>>
    BY DEF StartFails, CleanupDead, ResponseLost, EndCleanup, Return
  <1>4. SessionTypeOK'
    BY <1>1, <1>2, <1>3 DEF IInv, SessionInv, SessionTypeOK, Commands, Results
  <1>5. OneLine'
    BY <1>1, <1>3 DEF IInv, OneLine
  <1>6. QED
    BY <1>1, <1>4, <1>5 DEF IInv, SessionInv, AnswersMatch, ResponseTells, JVInitInTime,
                            JVInitComesFirst, Alive

LEMMA StartKeeps ==
  ASSUME IInv, NEW m \in {"init", "open"}, StartProcess(m)
  PROVE  IInv'
  <1>1. /\ process' = "alive" /\ stdin' = {[id |-> sent + 1, cmd |-> "start"]} /\ stdout' = {}
        /\ jvInit' = "none" /\ com' = "closed" /\ sent' = sent + 1
        /\ awaits' = "start" /\ call' = m /\ UNCHANGED flags
    BY DEF StartProcess
  <1>2. SessionTypeOK'
    BY <1>1 DEF IInv, SessionInv, SessionTypeOK, Commands, Results, flags
  <1>3. AnswersMatch' /\ OneLine'
    BY <1>1 DEF AnswersMatch, OneLine
  <1>4. QED
    BY <1>1, <1>2, <1>3 DEF IInv, SessionInv, ResponseTells, JVInitInTime, JVInitComesFirst

\* A command is sent into empty pipes.
LEMMA SendKeeps ==
  ASSUME IInv, NEW m \in {"init", "open", "read", "ask", "close", "cleanup"},
         NEW cmd \in {"init", "open", "read", "ask", "close", "quit"},
         stdin = {}, stdout' = {}, Send(m, cmd),
         cmd \notin {"init", "quit"} => jvInit # "none",
         cmd = "init" \/ (Alive => jvInit # "none"),
         initialized' \in BOOLEAN, isOpen' = isOpen, needsClose' = needsClose,
         process' = process, UNCHANGED jvlink,
         \A line \in stdout : line.cmd # "open"
  PROVE  IInv'
  <1>1. /\ stdin' = {[id |-> sent + 1, cmd |-> cmd]} /\ sent' = sent + 1
        /\ awaits' = cmd /\ call' = m
    BY DEF Send
  <1>2. SessionTypeOK'
    BY <1>1 DEF IInv, SessionInv, SessionTypeOK, Commands, Results, jvlink
  <1>3. AnswersMatch' /\ OneLine'
    BY <1>1 DEF AnswersMatch, OneLine
  <1>4. ResponseTells'
    BY DEF IInv, ResponseTells, jvlink
  <1>5. JVInitInTime' /\ JVInitComesFirst'
    BY <1>1 DEF JVInitInTime, JVInitComesFirst, Alive, jvlink
  <1>6. QED  BY <1>2, <1>3, <1>4, <1>5 DEF IInv, SessionInv

LEMMA CallKeeps ==
  ASSUME IInv, JvInit \/ JvOpen \/ JvRead \/ JvAsk \/ JvClose \/ Cleanup
  PROVE  IInv'
  <1>1. call = "none" /\ stdin = {} /\ stdout = {} /\ awaits = "nothing"
    BY DEF JvInit, JvOpen, JvRead, JvAsk, JvClose, Cleanup, IInv, SessionInv, SessionTypeOK, AnswersMatch,
           OneLine, Commands
  <1>2. Alive => jvInit # "none"
    BY <1>1 DEF IInv, JVInitInTime
  <1>3. CASE ~Alive
    BY <1>3, StartKeeps DEF JvInit, JvOpen, JvRead, JvAsk, JvClose, Cleanup, EnsureSession
  <1>4. CASE Alive
    <2>1. PICK m \in {"init", "open", "read", "ask", "close", "cleanup"},
               cmd \in {"init", "open", "read", "ask", "close", "quit"} :
            Send(m, cmd) /\ UNCHANGED <<process, flags, stdout, jvlink>>
      BY <1>4 DEF JvInit, JvOpen, JvRead, JvAsk, JvClose, Cleanup, EnsureSession, StartProcess
    <2>2. initialized' \in BOOLEAN /\ isOpen' = isOpen /\ needsClose' = needsClose
      BY <2>1 DEF flags, IInv, SessionInv, SessionTypeOK
    <2>3. QED  BY <1>1, <1>2, <1>4, <2>1, <2>2, SendKeeps
  <1>5. QED  BY <1>3, <1>4

\* The line that is read was the only one.
LEMMA LastLine ==
  ASSUME IInv, NEW cmd, NEW line, Reads(cmd, line)
  PROVE  /\ line \in stdout /\ stdout = {line} /\ stdin = {} /\ stdout' = {}
         /\ line.cmd = cmd /\ awaits = cmd
         /\ cmd # "start" => jvInit # "none"
  <1>1. line \in stdout /\ awaits = cmd /\ stdout' = stdout \ {line}
    BY DEF Reads
  <1>2. line.cmd = cmd
    BY <1>1 DEF IInv, SessionInv, AnswersMatch
  <1>3. \A a \in stdout : a = line
    BY <1>1 DEF IInv, OneLine
  <1>4. stdin = {}
    BY <1>1 DEF IInv, OneLine
  <1>5. QED  BY <1>1, <1>2, <1>3, <1>4 DEF IInv, JVInitInTime

\* A call returns once its response is read.
LEMMA ReturnKeeps ==
  ASSUME IInv, Return, stdin' = {}, stdout' = {}, process' = process, sent' = sent,
         UNCHANGED jvlink, initialized' \in BOOLEAN, isOpen' \in BOOLEAN, needsClose' \in BOOLEAN,
         com # "closed" => needsClose', com = "stream" => isOpen',
         Alive => jvInit # "none"
  PROVE  IInv'
  <1>1. SessionTypeOK'
    BY DEF IInv, SessionInv, SessionTypeOK, Return, jvlink
  <1>2. AnswersMatch' /\ OneLine'
    BY DEF AnswersMatch, OneLine, Return
  <1>3. ResponseTells' /\ JVInitInTime' /\ JVInitComesFirst'
    BY DEF ResponseTells, JVInitInTime, JVInitComesFirst, Alive, jvlink
  <1>4. QED  BY <1>1, <1>2, <1>3 DEF IInv, SessionInv

LEMMA ReadKeeps ==
  ASSUME IInv,
         \/ ReadReady \/ ReadInitDone \/ ReadInitRefused
         \/ ReadOpen \/ ReadData \/ ReadClose
  PROVE  IInv'
  <1>1. isOpen \in BOOLEAN /\ needsClose \in BOOLEAN /\ initialized \in BOOLEAN
        /\ call \in {"none", "init", "open", "read", "ask", "close", "cleanup"}
    BY DEF IInv, SessionInv, SessionTypeOK
  <1>2. ASSUME NEW line \in stdout, stdout = {line}, line.cmd \notin {"open"}
        PROVE  (com # "closed" => needsClose) /\ (com = "stream" => isOpen)
    BY <1>2 DEF IInv, ResponseTells
  <1>3. CASE ReadReady
    <2>1. PICK line \in stdout : Reads("start", line)
      BY <1>3 DEF ReadReady
    <2>2. /\ stdin = {} /\ stdout = {line} /\ stdout' = {} /\ line.cmd = "start"
          /\ call # "none" /\ SendNext(call, "init") /\ UNCHANGED <<process, flags, jvlink>>
      BY <1>3, <2>1, LastLine DEF ReadReady, IInv, OneLine
    <2>3. CASE Alive
      BY <1>1, <2>2, <2>3, SendKeeps DEF SendNext, flags
    <2>4. CASE ~Alive
      BY <1>1, <1>2, <2>2, <2>4, ReturnKeeps DEF SendNext, flags
    <2>5. QED  BY <2>3, <2>4
  <1>4. CASE ReadInitDone
    <2>1. PICK line \in stdout : Reads("init", line)
      BY <1>4 DEF ReadInitDone
    <2>2. /\ stdin = {} /\ stdout = {line} /\ stdout' = {} /\ line.cmd = "init"
          /\ jvInit # "none"
          /\ initialized' = TRUE /\ UNCHANGED <<process, isOpen, needsClose, jvlink>>
      BY <1>4, <2>1, LastLine DEF ReadInitDone
    <2>3. CASE call = "open" /\ Alive
      <3>1. Send("open", "open")
        BY <1>4, <2>3 DEF ReadInitDone, SendNext
      <3>2. QED  BY <1>1, <2>2, <3>1, SendKeeps
    <2>4. CASE ~(call = "open" /\ Alive)
      <3>1. Return /\ UNCHANGED <<sent, stdin>>
        BY <1>4, <2>4 DEF ReadInitDone, SendNext
      <3>2. QED  BY <1>1, <1>2, <2>2, <3>1, ReturnKeeps
    <2>5. QED  BY <2>3, <2>4
  <1>5. CASE ReadInitRefused \/ ReadData
    <2>1. PICK line \in stdout, cmd \in {"init", "read", "ask"} : Reads(cmd, line)
      BY <1>5 DEF ReadInitRefused, ReadData
    <2>2. /\ stdin = {} /\ stdout = {line} /\ stdout' = {} /\ line.cmd # "open"
          /\ jvInit # "none" /\ Return /\ UNCHANGED <<process, flags, sent, stdin, jvlink>>
      BY <1>5, <2>1, LastLine DEF ReadInitRefused, ReadData
    <2>3. QED  BY <1>1, <1>2, <2>2, ReturnKeeps DEF flags
  <1>6. CASE ReadOpen
    <2>1. PICK line \in stdout :
            /\ Reads("open", line)
            /\ needsClose' = (needsClose \/ line.result # "error")
            /\ isOpen' = IF line.result \in {"ok", "nodata"} THEN line.result = "ok" ELSE isOpen
      BY <1>6 DEF ReadOpen
    <2>2. /\ stdin = {} /\ stdout = {line} /\ stdout' = {} /\ line.cmd = "open"
          /\ jvInit # "none" /\ Return
          /\ UNCHANGED <<process, initialized, sent, stdin, jvlink>>
      BY <1>6, <2>1, LastLine DEF ReadOpen
    <2>3. /\ line.result = "ok" => com = "stream"
          /\ line.result = "nodata" => com = "nodata"
          /\ line.result \in {"ok", "nodata"} \/ ((com # "closed" => needsClose) /\ (com = "stream" => isOpen))
      BY <2>2 DEF IInv, ResponseTells
    <2>4. needsClose' \in BOOLEAN /\ (com # "closed" => needsClose')
      BY <1>1, <2>1, <2>3
    <2>5. isOpen' \in BOOLEAN /\ (com = "stream" => isOpen')
      BY <1>1, <2>1, <2>3
    <2>6. QED  BY <1>1, <2>2, <2>4, <2>5, ReturnKeeps
  <1>7. CASE ReadClose
    <2>1. PICK line \in stdout :
            /\ Reads("close", line)
            /\ isOpen' = (isOpen /\ line.result # "ok")
            /\ needsClose' = (needsClose /\ line.result # "ok")
      BY <1>7 DEF ReadClose
    <2>2. /\ stdin = {} /\ stdout = {line} /\ stdout' = {} /\ line.cmd = "close"
          /\ jvInit # "none" /\ Return
          /\ UNCHANGED <<process, initialized, sent, stdin, jvlink>>
      BY <1>7, <2>1, LastLine DEF ReadClose
    <2>3. /\ line.result = "ok" => com = "closed"
          /\ (com # "closed" => needsClose) /\ (com = "stream" => isOpen)
      BY <1>2, <2>2 DEF IInv, ResponseTells
    <2>4. needsClose' \in BOOLEAN /\ (com # "closed" => needsClose')
      BY <1>1, <2>1, <2>3
    <2>5. isOpen' \in BOOLEAN /\ (com = "stream" => isOpen')
      BY <1>1, <2>1, <2>3
    <2>6. QED  BY <1>1, <2>2, <2>4, <2>5, ReturnKeeps
  <1>8. QED  BY <1>3, <1>4, <1>5, <1>6, <1>7

\* The process takes the one command and answers it.
LEMMA HandleKeeps ==
  ASSUME IInv, HandlePlain \/ HandleInit \/ HandleOpen \/ HandleClose \/ HandleQuit
  PROVE  IInv'
  <1>1. UNCHANGED <<flags, call, awaits, sent>> /\ process' \in {process, "dead"}
    BY DEF HandlePlain, HandleInit, HandleOpen, HandleClose, HandleQuit
  <1>2. PICK line \in stdin, result \in Results :
          /\ Takes(line.cmd, line) /\ Answers(line, result)
          /\ jvInit' \in {"none", "done", "refused"} /\ com' \in {"closed", "nodata", "stream"}
          /\ line.cmd \notin {"start"} => jvInit' # "none"
          /\ jvInit # "none" => jvInit' # "none"
          /\ IF line.cmd = "open"
               THEN /\ result = "ok" => com' = "stream"
                    /\ result = "nodata" => com' = "nodata"
                    /\ result = "busy" => com' # "closed"
                    /\ result \notin {"ok", "nodata"} => com' = com
               ELSE /\ com' = com \/ com' = "closed"
                    /\ line.cmd = "close" /\ result = "ok" => com' = "closed"
    <2>1. jvInit \in {"none", "done", "refused"} /\ com \in {"closed", "nodata", "stream"}
      BY DEF IInv, SessionInv, SessionTypeOK
    <2>2. \A line \in stdin : line.cmd \in Commands \ {"start", "init", "quit"} => jvInit # "none"
      BY DEF IInv, JVInitComesFirst
    <2>3. CASE HandlePlain
      BY <2>1, <2>2, <2>3 DEF HandlePlain, jvlink, Results, Takes, Commands
    <2>4. CASE HandleInit
      BY <2>1, <2>4 DEF HandleInit, Results, Takes
    <2>5. CASE HandleOpen
      BY <2>1, <2>2, <2>5 DEF HandleOpen, Results, Takes, Commands
    <2>6. CASE HandleClose
      BY <2>1, <2>2, <2>6 DEF HandleClose, Results, Takes, Commands
    <2>7. CASE HandleQuit
      <3>1. PICK line \in stdin : Takes("quit", line) /\ Answers(line, "ok")
        BY <2>7 DEF HandleQuit
      <3>2. line.cmd = "quit" /\ awaits = "quit" /\ Alive
        BY <3>1 DEF Takes, IInv, SessionInv, AnswersMatch
      <3>3. jvInit # "none"
        BY <3>2 DEF IInv, JVInitInTime
      <3>4. QED  BY <2>1, <2>7, <3>1, <3>2, <3>3 DEF HandleQuit, jvlink, Results
    <2>8. QED  BY <2>3, <2>4, <2>5, <2>6, <2>7
  <1>3. /\ line.id = sent /\ line.cmd = awaits /\ stdout = {}
        /\ line.cmd \in Commands
    BY DEF IInv, SessionInv, SessionTypeOK, AnswersMatch, OneLine
  <1>4. \A a \in stdin : a = line
    BY DEF IInv, SessionInv, SessionTypeOK, AnswersMatch
  <1>5. stdin' = {} /\ Alive
    BY <1>2, <1>4 DEF Takes
  <1>6. PICK answer : /\ answer = [id |-> line.id, cmd |-> line.cmd, result |-> result]
                      /\ stdout' = {answer}
    BY <1>2, <1>3 DEF Answers
  <1>7. /\ answer.id = sent /\ answer.cmd = awaits /\ answer.result = result
        /\ answer \in [id : Nat, cmd : Commands, result : Results]
    BY <1>3, <1>6 DEF IInv, SessionInv, SessionTypeOK
  <1>8. SessionTypeOK'
    BY <1>1, <1>2, <1>5, <1>6, <1>7 DEF IInv, SessionInv, SessionTypeOK, flags
  <1>9. AnswersMatch' /\ OneLine'
    BY <1>1, <1>5, <1>6, <1>7 DEF IInv, AnswersMatch, OneLine, flags
  <1>10. ResponseTells'
    <2>1. (com # "closed" => needsClose) /\ (com = "stream" => isOpen)
      BY <1>3 DEF IInv, ResponseTells
    <2>2. needsClose' = needsClose /\ isOpen' = isOpen /\ answer \in stdout'
      BY <1>1, <1>6 DEF flags
    <2>3. CASE line.cmd = "open"
      BY <1>2, <1>3, <1>6, <1>7, <2>1, <2>2, <2>3 DEF ResponseTells, Results
    <2>4. CASE line.cmd # "open"
      BY <1>2, <1>3, <1>6, <1>7, <2>1, <2>2, <2>4 DEF ResponseTells
    <2>5. QED  BY <2>3, <2>4
  <1>11. JVInitInTime' /\ JVInitComesFirst'
    BY <1>1, <1>2, <1>3, <1>5, <1>6, <1>7 DEF IInv, JVInitInTime, JVInitComesFirst, Alive, flags
  <1>12. QED  BY <1>8, <1>9, <1>10, <1>11 DEF IInv, SessionInv

LEMMA StepKeeps == IInv /\ [SessionNext]_sessionVars => IInv'
  <1> SUFFICES ASSUME IInv, [SessionNext]_sessionVars PROVE IInv'
    OBVIOUS
  <1>1. CASE Dies
    BY <1>1 DEF Dies, flags, pipes, jvlink, IInv, SessionInv, SessionTypeOK, AnswersMatch, OneLine,
                ResponseTells, JVInitInTime, JVInitComesFirst, Alive
  <1>2. CASE UNCHANGED sessionVars
    BY <1>2 DEF sessionVars, flags, pipes, jvlink, IInv, SessionInv, SessionTypeOK, AnswersMatch, OneLine,
                ResponseTells, JVInitInTime, JVInitComesFirst, Alive
  <1>3. QED
    BY <1>1, <1>2, AbortKeeps, CallKeeps, ReadKeeps, HandleKeeps DEF SessionNext

LEMMA Session == SessionSpec => []IInv
  BY InitSession, StepKeeps, PTL DEF SessionSpec

\* Whenever responses are late, lost or garbled and whenever the process dies, no
\* response is taken for that of another command.
THEOREM InStep == SessionSpec => []SessionInv
  <1>1. IInv => SessionInv
    BY DEF IInv
  <1>2. QED  BY Session, <1>1, PTL

\* Between calls whatever JV-Link has open is known to be closed later.
THEOREM CloseOwed == SessionSpec => []CloseIsOwed
  <1>1. IInv => CloseIsOwed
    BY DEF IInv, SessionInv, SessionTypeOK, AnswersMatch, OneLine, ResponseTells, CloseIsOwed, Commands
  <1>2. QED  BY Session, <1>1, PTL

\* No process is used in which JVInit has not been called.
THEOREM InitFirst == SessionSpec => []JVInitComesFirst
  <1>1. IInv => JVInitComesFirst
    BY DEF IInv
  <1>2. QED  BY Session, <1>1, PTL

-----------------------------------------------------------------------------
(***************************************************************************)
(* The historical fetcher.                                                 *)
(***************************************************************************)

\* Two streams with the stamp and file count of a third have those of each
\* other (historical.py:243-254).
LEMMA SameStreamIsEquivalence ==
    ASSUME NEW c \in Chunks, NEW u \in Versions, NEW v \in Versions,
           NEW w \in Versions, SameStream(c, u, v), SameStream(c, v, w)
    PROVE  SameStream(c, u, w) /\ SameStream(c, u, u)
  BY DEF SameStream

\* Streams that SameStream cannot tell apart give the same buffer wherever both
\* reach: the assumption on the provider, per index.
LEMMA SameStreamAgrees ==
    ASSUME NEW c \in Chunks, NEW v \in Versions, NEW w \in Versions,
           SameStream(c, v, w), NEW i \in DOMAIN Bufs(c, v) \cap DOMAIN Bufs(c, w)
    PROVE  Bufs(c, v)[i] = Bufs(c, w)[i]
  BY StampIdentifiesStream DEF Agree

\* The rows kept of a buffer are rows of the parser.
LEMMA KeptIsTyped ==
    ASSUME NEW b \in Buffers
    PROVE  Kept(b) \in RowSets
  BY DEF Kept, RowSets

\* The fetcher starts in a state of the inductive invariant.
LEMMA InitFetchInv == Init => FetchInv
  <1> SUFFICES ASSUME Init PROVE FetchInv
    OBVIOUS
  <1>1. TypeOK
    <2>1. delivered \in [Chunks -> Seq(RowSets)]  BY DEF Init
    <2>2. version \in [Chunks -> Versions \cup {NoVersion}]  BY DEF Init
    <2>3. phase \in Phases  BY DEF Init, Phases
    <2>4. chunk \in 1..(NChunks + 1)  BY CountsAreNaturals DEF Init
    <2>5. QED  BY <2>1, <2>2, <2>3, <2>4 DEF Init, TypeOK
  <1>2. WindowOrder
    BY CountsAreNaturals DEF Init, WindowOrder, Fetching, Chunks
  <1>3. ReplayPosition /\ DeliveredFits /\ StreamClosed
    BY DEF Init, ReplayPosition, DeliveredFits, StreamClosed, Fetching
  <1>4. QED  BY <1>1, <1>2, <1>3 DEF FetchInv

\* Every step keeps the variables in their types.
LEMMA StepTypeOK == FetchInv /\ [Next]_vars => TypeOK'
  <1> SUFFICES ASSUME FetchInv, [Next]_vars PROVE TypeOK'
    OBVIOUS
  <1> USE CountsAreNaturals DEF FetchInv, TypeOK, Phases, request, counters, stream, Chunks
  <1>1. CASE BeginFetch
    <2>1. delivered' = [c \in Chunks |-> <<>>]  BY <1>1 DEF BeginFetch
    <2>2. delivered' \in [Chunks -> Seq(RowSets)]  BY <2>1
    <2>3. version' \in [Chunks -> Versions \cup {NoVersion}]  BY <1>1 DEF BeginFetch
    <2>4. /\ phase' \in Phases /\ raised' \in BOOLEAN /\ recovering' \in BOOLEAN
          /\ rangeComplete' \in BOOLEAN
      BY <1>1 DEF BeginFetch
    <2>5. /\ fetchNo' \in Nat /\ chunk' \in 1..(NChunks + 1)
          /\ attempts' \in Nat /\ fetched' \in Nat
      BY <1>1 DEF BeginFetch
    <2>6. QED  BY <1>1, <2>2, <2>3, <2>4, <2>5 DEF BeginFetch
  <1>2. CASE Finish  BY <1>2 DEF Finish
  <1>3. ASSUME NEW v \in Versions, OpenWindow(v) PROVE TypeOK'
    BY <1>3 DEF OpenWindow, ResetOpenState
  <1>4. CASE OpenEmptyWindow  BY <1>4 DEF OpenEmptyWindow, ResetOpenState
  <1>5. CASE OpenFails  BY <1>5 DEF OpenFails, ResetOpenState
  <1>6. CASE DownloadPoll  BY <1>6 DEF DownloadPoll
  <1>7. CASE DownloadDone
    <2>1. attempts' \in Nat /\ files' \in Nat
      BY <1>7 DEF DownloadDone, ChargeRepair
    <2>2. phase' \in Phases /\ recovering' \in BOOLEAN  BY <1>7 DEF DownloadDone
    <2>3. QED  BY <1>7, <2>1, <2>2 DEF DownloadDone
  <1>8. CASE DownloadFails  BY <1>8 DEF DownloadFails, Raise
  <1>9. CASE ReadWait  BY <1>9 DEF ReadWait
  <1>10. CASE ReadFileSwitch  BY <1>10 DEF ReadFileSwitch
  <1>11. CASE ReadReplayed  BY <1>11 DEF ReadReplayed, HasBuffer, ReplayPending
  <1>12. CASE ReadRecord
    <2>1. chunk \in Chunks /\ version[chunk] \in Versions
      BY <1>12 DEF ReadRecord, HasBuffer, WindowOrder, ReplayPosition, Fetching
    <2>2. NextBuffer \in Buffers
      <3>1. Bufs(chunk, version[chunk]) \in Seq(Buffers)
        BY <2>1, OfferIsTyped DEF Bufs
      <3>2. pos + 1 \in 1..Len(Bufs(chunk, version[chunk]))
        BY <1>12, <3>1 DEF ReadRecord, HasBuffer
      <3>3. QED  BY <3>1, <3>2 DEF NextBuffer
    <2>3. Kept(NextBuffer) \in RowSets
      BY <2>2, KeptIsTyped
    <2>4. Append(delivered[chunk], Kept(NextBuffer)) \in Seq(RowSets)
      BY <2>1, <2>3
    <2>5. delivered' \in [Chunks -> Seq(RowSets)]
      BY <1>12, <2>4 DEF ReadRecord
    <2>6. phase' \in {"read", "yield"}
      BY <1>12 DEF ReadRecord
    <2>7. QED  BY <1>12, <2>5, <2>6 DEF ReadRecord
  <1>13. CASE ReadRejected  BY <1>13 DEF ReadRejected, Raise
  <1>14. CASE ReadEnd  BY <1>14 DEF ReadEnd, ReplayLeft
  <1>15. CASE ReadFails  BY <1>15 DEF ReadFails, Raise
  <1>16. CASE ReadZeroByteFile  BY <1>16 DEF ReadZeroByteFile, Raise
  <1>17. CASE DeleteAndClose
    <2>1. chunk \in Chunks  BY <1>17 DEF DeleteAndClose, WindowOrder, Fetching
    <2>2. fetched = base + Len(delivered[chunk]) /\ Len(delivered[chunk]) \in Nat
      BY <1>17, <2>1 DEF DeleteAndClose, ReplayPosition, Fetching
    <2>3. ReplayLength \in Nat  BY <2>2 DEF ReplayLength
    <2>4. QED  BY <1>17, <2>3 DEF DeleteAndClose
  <1>18. CASE DeleteOrCloseFails
    <2>1. chunk \in Chunks  BY <1>18 DEF DeleteOrCloseFails, WindowOrder, Fetching
    <2>2. fetched = base + Len(delivered[chunk]) /\ Len(delivered[chunk]) \in Nat
      BY <1>18, <2>1 DEF DeleteOrCloseFails, ReplayPosition, Fetching
    <2>3. ReplayLength \in Nat  BY <2>2 DEF ReplayLength
    <2>4. QED  BY <1>18, <2>3 DEF DeleteOrCloseFails, Raise
  <1>19. ASSUME NEW v \in Versions, Reopen(v) PROVE TypeOK'
    BY <1>19 DEF Reopen
  <1>20. CASE ReopenRefused  BY <1>20 DEF ReopenRefused, Raise
  <1>21. CASE Resume  BY <1>21 DEF Resume
  <1>22. CASE Abandon  BY <1>22 DEF Abandon, Raise
  <1>23. CASE Close
    <2>1. chunk \in 1..NChunks  BY <1>23 DEF Close, WindowOrder, Fetching
    <2>2. chunk' \in 1..(NChunks + 1)
      <3>1. CASE raised  BY <1>23, <2>1, <3>1 DEF Close
      <3>2. CASE ~raised  BY <1>23, <2>1, <3>2 DEF Close
      <3>3. QED  BY <3>1, <3>2
    <2>3. phase' \in Phases  BY <1>23 DEF Close
    <2>4. QED  BY <1>23, <2>2, <2>3 DEF Close
  <1>24. CASE CloseFails  BY <1>24 DEF CloseFails
  <1>25. CASE UNCHANGED vars  BY <1>25 DEF vars
  <1>26. QED
    BY <1>1, <1>2, <1>3, <1>4, <1>5, <1>6, <1>7, <1>8, <1>9, <1>10, <1>11, <1>12,
       <1>13, <1>14, <1>15, <1>16, <1>17, <1>18, <1>19, <1>20, <1>21, <1>22,
       <1>23, <1>24, <1>25 DEF Next, Step

\* Steps that stay inside a window without handing anything to the consumer.
Quiet ==
    \/ DownloadPoll \/ DownloadDone \/ DownloadFails
    \/ ReadWait \/ ReadFileSwitch \/ ReadReplayed \/ ReadRejected
    \/ ReadFails \/ ReadZeroByteFile
    \/ DeleteAndClose \/ DeleteOrCloseFails \/ ReopenRefused
    \/ Resume \/ Abandon

\* A quiet step starts inside a window and ends there or in an error.
LEMMA QuietStep ==
    ASSUME Quiet
    PROVE  /\ phase \in Fetching
           /\ phase' \in Fetching \/ (phase' = "close" /\ raised')
           /\ UNCHANGED <<chunk, rangeComplete, version, delivered>>
  BY DEF Quiet, DownloadPoll, DownloadDone, DownloadFails, ReadWait, ReadFileSwitch,
     ReadReplayed, HasBuffer, ReadRejected, ReadFails, ReadZeroByteFile, DeleteAndClose,
     DeleteOrCloseFails, ReopenRefused, Resume, Abandon, Raise, Fetching, request, stream

\* Inside a window there is a window, with a stream, and its buffers are a sequence.
LEMMA FetchingFacts ==
    ASSUME FetchInv, phase \in Fetching
    PROVE  /\ chunk \in Chunks
           /\ version[chunk] \in Versions
           /\ Bufs(chunk, version[chunk]) \in Seq(Buffers)
           /\ delivered[chunk] \in Seq(RowSets)
           /\ fetched = base + Len(delivered[chunk])
  BY CountsAreNaturals, OfferIsTyped
  DEF FetchInv, TypeOK, WindowOrder, ReplayPosition, Chunks, Bufs

\* WindowOrder is kept by every step.
LEMMA StepWindowOrder == FetchInv /\ [Next]_vars => WindowOrder'
  <1> SUFFICES ASSUME FetchInv, [Next]_vars PROVE WindowOrder'
    OBVIOUS
  <1> USE CountsAreNaturals DEF FetchInv
  <1>1. ASSUME UNCHANGED <<version, delivered>>
        PROVE  \A c \in Chunks : WholeIn(c)' = WholeIn(c)
    BY <1>1 DEF WholeIn
  <1>2. CASE BeginFetch
    BY <1>2 DEF BeginFetch, WindowOrder, WholeIn, Chunks, Fetching
  <1>3. CASE Finish
    BY <1>3, <1>1 DEF Finish, WindowOrder, TypeOK, Chunks, Fetching, request, stream
  <1>4. ASSUME NEW v \in Versions, OpenWindow(v) PROVE WindowOrder'
    BY <1>4, VersionsAreDistinct DEF OpenWindow, WindowOrder, TypeOK, WholeIn, Chunks, Fetching, request
  <1>5. CASE OpenEmptyWindow
    BY <1>5, <1>1 DEF OpenEmptyWindow, WindowOrder, TypeOK, WholeIn, Chunks, Fetching
  <1>6. CASE OpenFails
    BY <1>6, <1>1 DEF OpenFails, WindowOrder, TypeOK, Chunks, Fetching, request
  <1>7. CASE Quiet
    BY <1>7, <1>1, QuietStep DEF WindowOrder, Chunks, Fetching
  <1>8. CASE ReadRecord
    <2>1. phase \in Fetching  BY <1>8 DEF ReadRecord, HasBuffer, Fetching
    <2>2. UNCHANGED <<chunk, rangeComplete, version>> /\ phase' \in Fetching
      BY <1>8 DEF ReadRecord, request, Fetching
    <2>3. chunk \in Chunks /\ version[chunk] # NoVersion
      BY <2>1, FetchingFacts DEF ReplayPosition
    <2>4. \A c \in Chunks : c # chunk => delivered'[c] = delivered[c]
      BY <1>8, <2>3 DEF ReadRecord, TypeOK
    <2>5. \A c \in Chunks : c # chunk => WholeIn(c)' = WholeIn(c)
      BY <2>2, <2>4 DEF WholeIn
    <2>6. QED  BY <2>2, <2>3, <2>4, <2>5 DEF WindowOrder, Chunks, Fetching
  <1>9. CASE ReadEnd
    <2>1. phase \in Fetching  BY <1>9 DEF ReadEnd, Fetching
    <2>2. UNCHANGED <<chunk, rangeComplete, version, delivered>> /\ phase' = "close"
      BY <1>9 DEF ReadEnd, request, stream
    <2>3. ASSUME ~raised' PROVE WholeIn(chunk)'
      <3>0. ~ReplayLeft  BY <1>9, <2>3 DEF ReadEnd
      <3>1. remaining = 0  BY <3>0 DEF ReplayLeft, TypeOK
      <3>2. pos = Len(Bufs(chunk, version[chunk]))
        BY <1>9 DEF ReadEnd
      <3>3. pos + remaining = Len(delivered[chunk])
        BY <1>9 DEF ReadEnd, ReplayPosition, Fetching
      <3>4. version[chunk] # NoVersion
        BY <2>1 DEF ReplayPosition
      <3>5. pos = Len(delivered[chunk])
        BY <3>1, <3>3 DEF TypeOK
      <3>6. QED  BY <2>2, <3>2, <3>4, <3>5 DEF WholeIn
    <2>4. version[chunk] # NoVersion /\ chunk <= NChunks
      BY <2>1 DEF ReplayPosition, WindowOrder
    <2>5. QED  BY <2>2, <2>3, <2>4, <1>1 DEF WindowOrder, Fetching, Chunks
  <1>10. ASSUME NEW v \in Versions, Reopen(v) PROVE WindowOrder'
    BY <1>10, VersionsAreDistinct DEF Reopen, WindowOrder, TypeOK, WholeIn, Chunks, Fetching, request
  <1>11. CASE Close
    BY <1>11, <1>1 DEF Close, WindowOrder, TypeOK, Chunks, Fetching
  <1>12. CASE CloseFails
    BY <1>12, <1>1 DEF CloseFails, WindowOrder, Chunks, Fetching, request, stream
  <1>13. CASE UNCHANGED vars
    BY <1>13 DEF vars, WindowOrder, WholeIn
  <1>14. QED
    BY <1>2, <1>3, <1>4, <1>5, <1>6, <1>7, <1>8, <1>9, <1>10, <1>11, <1>12, <1>13
    DEF Next, Step, Quiet, Abandon

\* ReplayPosition is kept by every step.
LEMMA StepReplayPosition == FetchInv /\ [Next]_vars => ReplayPosition'
  <1> SUFFICES ASSUME FetchInv, [Next]_vars PROVE ReplayPosition'
    OBVIOUS
  <1> USE DEF FetchInv, Fetching
  <1>1. ASSUME phase' \notin Fetching PROVE ReplayPosition'
    BY <1>1 DEF ReplayPosition
  <1>2. ASSUME NEW v \in Versions, OpenWindow(v) PROVE ReplayPosition'
    <2>1. delivered[chunk] = <<>> /\ chunk \in Chunks
      BY <1>2 DEF OpenWindow, WindowOrder
    <2>2. Len(delivered'[chunk']) = 0 /\ chunk' = chunk
      BY <1>2, <2>1 DEF OpenWindow, request
    <2>3. version'[chunk] = v
      BY <1>2, <2>1 DEF OpenWindow, TypeOK
    <2>4. /\ fetched' = fetched /\ base' = fetched /\ pos' = 0 /\ remaining' = 0
          /\ phase' \in {"download", "read"}
      BY <1>2 DEF OpenWindow, ResetOpenState
    <2>5. QED  BY <2>2, <2>3, <2>4, VersionsAreDistinct DEF ReplayPosition, TypeOK
  <1>3. ASSUME phase \in Fetching \ {"reopen"}, phase' \in Fetching \ {"reopen"},
               UNCHANGED <<chunk, version, delivered, fetched, base, remaining, pos>>
        PROVE  ReplayPosition'
    BY <1>3 DEF ReplayPosition
  <1>4. CASE DownloadPoll
    BY <1>4, <1>3 DEF DownloadPoll, request, counters, stream
  <1>5. CASE DownloadDone
    BY <1>5, <1>3 DEF DownloadDone, request, stream
  <1>6. CASE ReadWait
    BY <1>6, <1>3 DEF ReadWait, request, counters, stream
  <1>7. CASE ReadFileSwitch
    BY <1>7, <1>3 DEF ReadFileSwitch, request, counters, stream
  <1>8. CASE ReadReplayed
    <2>1. phase = "read" /\ phase' = "read"
      BY <1>8 DEF ReadReplayed, HasBuffer
    <2>2. UNCHANGED <<chunk, version, delivered, fetched, base>>
      BY <1>8 DEF ReadReplayed, request
    <2>3. remaining' = remaining - 1 /\ pos' = pos + 1
      BY <1>8 DEF ReadReplayed
    <2>4. pos + remaining = Len(delivered[chunk])
      BY <2>1 DEF ReplayPosition
    <2>5. pos' + remaining' = Len(delivered[chunk])
      <3>1. pos \in Nat /\ remaining \in Nat  BY DEF TypeOK
      <3>2. QED  BY <2>3, <2>4, <3>1
    <2>6. QED  BY <2>1, <2>2, <2>5 DEF ReplayPosition
  <1>9. CASE ReadRecord
    <2>1. phase \in Fetching  BY <1>9 DEF ReadRecord, HasBuffer
    <2>2. chunk \in Chunks /\ delivered[chunk] \in Seq(RowSets)
      BY <2>1, FetchingFacts
    <2>3. delivered'[chunk] = Append(delivered[chunk], Kept(NextBuffer))
      BY <1>9, <2>2 DEF ReadRecord, TypeOK
    <2>4. Len(delivered'[chunk]) = Len(delivered[chunk]) + 1
      BY <2>2, <2>3
    <2>5. /\ UNCHANGED <<chunk, version, base, remaining>>
          /\ fetched' = fetched + 1 /\ pos' = pos + 1
          /\ phase' \in {"read", "yield"}
      BY <1>9 DEF ReadRecord, request
    <2>6. /\ version[chunk] # NoVersion
          /\ fetched = base + Len(delivered[chunk])
          /\ pos + remaining = Len(delivered[chunk])
      BY <1>9, <2>1 DEF ReadRecord, HasBuffer, ReplayPosition
    <2>7. QED  BY <2>2, <2>4, <2>5, <2>6 DEF ReplayPosition, TypeOK
  <1>10. CASE ReadZeroByteFile
    <2>1. CASE attempts >= MaxRetries
      BY <1>10, <2>1, <1>1 DEF ReadZeroByteFile, Raise
    <2>2. CASE ~(attempts >= MaxRetries)
      BY <1>10, <2>2, <1>3 DEF ReadZeroByteFile, request, counters, stream
    <2>3. QED  BY <2>1, <2>2
  <1>11. CASE DeleteAndClose
    <2>1. chunk \in Chunks  BY <1>11, FetchingFacts DEF DeleteAndClose
    <2>2. fetched = base + Len(delivered[chunk]) /\ Len(delivered[chunk]) \in Nat
      BY <1>11, <2>1, FetchingFacts DEF DeleteAndClose
    <2>3. remaining' = Len(delivered[chunk])
      BY <1>11, <2>2 DEF DeleteAndClose, ReplayLength, TypeOK
    <2>4. QED  BY <1>11, <2>2, <2>3 DEF DeleteAndClose, ReplayPosition, request
  <1>12. ASSUME NEW v \in Versions, Reopen(v) PROVE ReplayPosition'
    <2>1. chunk \in Chunks  BY <1>12, FetchingFacts DEF Reopen
    <2>2. version'[chunk] = v  BY <1>12, <2>1 DEF Reopen, TypeOK
    <2>3. Len(delivered[chunk]) \in Nat  BY <2>1 DEF TypeOK
    <2>4. QED  BY <1>12, <2>1, <2>2, <2>3, VersionsAreDistinct
               DEF Reopen, ReplayPosition, request, counters
  <1>13. CASE Resume
    BY <1>13, <1>3 DEF Resume, request, counters, stream
  <1>14. CASE \/ BeginFetch \/ Finish \/ OpenEmptyWindow \/ OpenFails \/ DownloadFails
              \/ ReadRejected \/ ReadEnd \/ ReadFails \/ DeleteOrCloseFails
              \/ ReopenRefused \/ Abandon \/ Close \/ CloseFails
    BY <1>14, <1>1 DEF BeginFetch, Finish, OpenEmptyWindow, OpenFails, DownloadFails,
       ReadRejected, ReadEnd, ReadFails, DeleteOrCloseFails, ReopenRefused, Abandon,
       Close, CloseFails, Raise
  <1>15. CASE UNCHANGED vars
    BY <1>15 DEF vars, ReplayPosition
  <1>16. QED
    BY <1>2, <1>4, <1>5, <1>6, <1>7, <1>8, <1>9, <1>10, <1>11, <1>12, <1>13, <1>14,
       <1>15 DEF Next, Step

\* DeliveredFits is kept by every step.
LEMMA StepDeliveredFits == FetchInv /\ [Next]_vars => DeliveredFits'
  <1> SUFFICES ASSUME FetchInv, [Next]_vars PROVE DeliveredFits'
    OBVIOUS
  <1> USE DEF FetchInv
  <1>1. ASSUME UNCHANGED <<version, delivered>> PROVE DeliveredFits'
    BY <1>1 DEF DeliveredFits
  <1>2. CASE BeginFetch
    BY <1>2 DEF BeginFetch, DeliveredFits
  <1>3. ASSUME NEW v \in Versions, OpenWindow(v) PROVE DeliveredFits'
    <2>1. delivered[chunk] = <<>> /\ chunk \in Chunks
      BY <1>3 DEF OpenWindow, WindowOrder
    <2>2. delivered' = delivered /\ \A c \in Chunks : c # chunk => version'[c] = version[c]
      BY <1>3 DEF OpenWindow, TypeOK
    <2>3. DOMAIN delivered'[chunk] = {}  BY <2>1, <2>2
    <2>4. QED  BY <2>2, <2>3 DEF DeliveredFits
  <1>4. CASE ReadRecord
    <2>1. phase \in Fetching  BY <1>4 DEF ReadRecord, HasBuffer, Fetching
    <2>2. /\ chunk \in Chunks /\ version[chunk] \in Versions
          /\ delivered[chunk] \in Seq(RowSets)
          /\ Bufs(chunk, version[chunk]) \in Seq(Buffers)
      BY <2>1, FetchingFacts
    <2>3. version' = version  BY <1>4 DEF ReadRecord
    <2>4. \A c \in Chunks : c # chunk => delivered'[c] = delivered[c]
      BY <1>4 DEF ReadRecord, TypeOK
    <2>5. delivered'[chunk] = Append(delivered[chunk], Kept(NextBuffer))
      BY <1>4, <2>2 DEF ReadRecord, TypeOK
    <2>6. remaining = 0 /\ pos = Len(delivered[chunk])
      BY <1>4 DEF ReadRecord, HasBuffer, ReplayPending, ReplayPosition, Fetching, TypeOK
    <2>7. NextBuffer = Bufs(chunk, version[chunk])[Len(delivered[chunk]) + 1]
      BY <2>6 DEF NextBuffer
    <2>8. Len(delivered[chunk]) + 1 \in DOMAIN Bufs(chunk, version[chunk])
      BY <1>4, <2>2, <2>6 DEF ReadRecord, HasBuffer
    <2>9. ASSUME NEW v \in Versions, SameStream(chunk, version[chunk], v),
                 NEW i \in DOMAIN delivered'[chunk] \cap DOMAIN Bufs(chunk, v)
          PROVE  delivered'[chunk][i] = Kept(Bufs(chunk, v)[i])
      <3>1. CASE i \in DOMAIN delivered[chunk]
        <4>1. delivered'[chunk][i] = delivered[chunk][i]
          BY <2>2, <2>5, <3>1
        <4>2. delivered[chunk][i] = Kept(Bufs(chunk, v)[i])
          BY <2>2, <2>9, <3>1, VersionsAreDistinct DEF DeliveredFits
        <4>3. QED  BY <4>1, <4>2
      <3>2. CASE i \notin DOMAIN delivered[chunk]
        <4>1. i = Len(delivered[chunk]) + 1
          BY <2>2, <2>5, <2>9, <3>2
        <4>2. delivered'[chunk][i] = Kept(NextBuffer)
          BY <2>2, <2>5, <4>1
        <4>3. Bufs(chunk, version[chunk])[i] = Bufs(chunk, v)[i]
          BY <2>2, <2>8, <2>9, <4>1, SameStreamAgrees
        <4>4. QED  BY <2>7, <4>1, <4>2, <4>3
      <3>3. QED  BY <3>1, <3>2
    <2>10. QED  BY <2>3, <2>4, <2>9 DEF DeliveredFits
  <1>5. ASSUME NEW v \in Versions, Reopen(v) PROVE DeliveredFits'
    <2>1. chunk \in Chunks /\ version[chunk] \in Versions
      BY <1>5, FetchingFacts DEF Reopen, Fetching
    <2>2. /\ delivered' = delivered /\ version'[chunk] = v
          /\ \A c \in Chunks : c # chunk => version'[c] = version[c]
      BY <1>5, <2>1 DEF Reopen, TypeOK
    <2>3. ASSUME NEW w \in Versions, SameStream(chunk, v, w)
          PROVE  SameStream(chunk, version[chunk], w)
      BY <1>5, <2>1, <2>3, SameStreamIsEquivalence DEF Reopen
    <2>4. QED  BY <2>1, <2>2, <2>3, VersionsAreDistinct DEF DeliveredFits
  <1>6. CASE Quiet
    BY <1>6, <1>1, QuietStep
  <1>7. CASE Finish \/ OpenEmptyWindow \/ OpenFails \/ ReadEnd \/ Close \/ CloseFails
    BY <1>7, <1>1 DEF Finish, OpenEmptyWindow, OpenFails, ReadEnd, Close, CloseFails, stream
  <1>8. CASE UNCHANGED vars
    BY <1>8, <1>1 DEF vars
  <1>9. QED
    BY <1>2, <1>3, <1>4, <1>5, <1>6, <1>7, <1>8 DEF Next, Step, Quiet

\* StreamClosed is kept by every step.
LEMMA StepStreamClosed == FetchInv /\ [Next]_vars => StreamClosed'
  <1> SUFFICES ASSUME FetchInv, [Next]_vars PROVE StreamClosed'
    OBVIOUS
  <1>1. CASE BeginFetch \/ Close
    BY <1>1 DEF BeginFetch, Close, StreamClosed
  <1>2. CASE Finish
    BY <1>2, CountsAreNaturals DEF Finish, StreamClosed, FetchInv, TypeOK, stream
  <1>3. CASE Quiet
    BY <1>3, QuietStep DEF StreamClosed, Fetching
  <1>4. ASSUME NEW v \in Versions, OpenWindow(v) \/ Reopen(v) PROVE StreamClosed'
    BY <1>4 DEF OpenWindow, Reopen, StreamClosed
  <1>5. CASE OpenEmptyWindow \/ OpenFails \/ ReadRecord \/ ReadEnd \/ CloseFails
    BY <1>5 DEF OpenEmptyWindow, OpenFails, ReadRecord, ReadEnd, CloseFails, Raise, StreamClosed
  <1>6. CASE UNCHANGED vars
    BY <1>6 DEF vars, StreamClosed, FetchInv
  <1>7. QED
    BY <1>1, <1>2, <1>3, <1>4, <1>5, <1>6 DEF Next, Step, Quiet

\* The replay position, the order of the windows and the contents handed out
\* fit together in every reachable state.
THEOREM FetchInvariant == Spec => []FetchInv
  <1>1. FetchInv /\ [Next]_vars => FetchInv'
    BY StepTypeOK, StepWindowOrder, StepReplayPosition, StepDeliveredFits,
       StepStreamClosed DEF FetchInv
  <1>2. QED  BY InitFetchInv, <1>1, PTL DEF Spec

\* No record is lost, repeated or reordered by window boundaries, self-repair
\* or leftovers of an earlier fetch.
THEOREM InOrder == Spec => []DeliveredInOrder
  <1>1. FetchInv => DeliveredInOrder
    <2> SUFFICES ASSUME FetchInv, NEW c \in Chunks, version[c] # NoVersion,
                        NEW i \in DOMAIN delivered[c] \cap DOMAIN Bufs(c, version[c])
                 PROVE  delivered[c][i] = Kept(Bufs(c, version[c])[i])
      BY DEF DeliveredInOrder
    <2>1. version[c] \in Versions  BY DEF FetchInv, TypeOK
    <2>2. SameStream(c, version[c], version[c])  BY DEF SameStream
    <2>3. QED  BY <2>1, <2>2 DEF FetchInv, DeliveredFits
  <1>2. QED  BY <1>1, FetchInvariant, PTL

\* A fetch that ends well handed over every window in full.
THEOREM Whole == Spec => []DoneIsWhole
  <1>1. FetchInv => DoneIsWhole
    BY CountsAreNaturals DEF FetchInv, TypeOK, WindowOrder, DoneIsWhole, Chunks
  <1>2. QED  BY <1>1, FetchInvariant, PTL

\* A fetch that ends well leaves no stream open.
THEOREM ClosedAtEnd == Spec => []DoneIsClosed
  <1>1. FetchInv => DoneIsClosed
    BY DEF FetchInv, StreamClosed, DoneIsClosed
  <1>2. QED  BY <1>1, FetchInvariant, PTL

-----------------------------------------------------------------------------
(* The refinement of RecordStream. *)

\* A state that is neither idle nor over is a running request.
LEMMA Running ==
    ASSUME phase \notin {"idle", "done", "failed"}
    PROVE  RequestStatus = "running"
  BY DEF RequestStatus

\* The same for the next state.
LEMMA RunningNext ==
    ASSUME phase' \notin {"idle", "done", "failed"}
    PROVE  RequestStatus' = "running"
  BY DEF RequestStatus

\* The abstract whole is the concrete one.
LEMMA WholeMapped ==
    ASSUME NEW c \in Chunks
    PROVE  WholeIn(c) = Abstract!WholeIn(delivered, version, c)
  BY DEF WholeIn, Abstract!WholeIn, Bufs, Abstract!Bufs

\* Every step of the fetcher is a step of the record stream or none.
LEMMA StepRefines ==
    FetchInv /\ [Next]_vars => [Abstract!AbsNext]_(Abstract!absVars)
  <1> SUFFICES ASSUME FetchInv, [Next]_vars
               PROVE  [Abstract!AbsNext]_(Abstract!absVars)
    OBVIOUS
  <1> DEFINE Stutter == UNCHANGED <<delivered, version, RequestStatus>>
  <1>1. Stutter => [Abstract!AbsNext]_(Abstract!absVars)
    BY DEF Abstract!absVars
  <1>2. CASE BeginFetch
    <2>1. RequestStatus # "running" /\ RequestStatus' = "running"
      BY <1>2 DEF BeginFetch, RequestStatus
    <2>2. Abstract!Begin
      BY <1>2, <2>1 DEF BeginFetch, Abstract!Begin, Abstract!Chunks, Chunks
    <2>3. QED  BY <2>2 DEF Abstract!AbsNext
  <1>3. CASE Finish
    <2>1. RequestStatus = "running" /\ RequestStatus' = "complete"
      BY <1>3 DEF Finish, RequestStatus
    <2>2. \A c \in Chunks : WholeIn(c)
      BY <1>3, CountsAreNaturals DEF Finish, FetchInv, TypeOK, WindowOrder, Chunks
    <2>3. Abstract!Complete
      BY <1>3, <2>1, <2>2, WholeMapped
      DEF Finish, stream, Abstract!Complete, Abstract!Chunks, Chunks
    <2>4. QED  BY <2>3 DEF Abstract!AbsNext
  <1>4. ASSUME NEW v \in Versions, OpenWindow(v)
        PROVE  [Abstract!AbsNext]_(Abstract!absVars)
    <2>1. RequestStatus = "running" /\ RequestStatus' = "running"
      BY <1>4 DEF OpenWindow, RequestStatus
    <2>2. chunk \in Chunks /\ delivered[chunk] = <<>>
      BY <1>4 DEF OpenWindow, FetchInv, WindowOrder
    <2>3. Abstract!Serve(chunk, v)
      BY <1>4, <2>1, <2>2 DEF OpenWindow, Abstract!Serve, Abstract!Continues
    <2>4. QED  BY <2>2, <2>3 DEF Abstract!AbsNext, Abstract!Chunks, Chunks
  <1>5. ASSUME NEW v \in Versions, Reopen(v)
        PROVE  [Abstract!AbsNext]_(Abstract!absVars)
    <2>1. RequestStatus = "running" /\ RequestStatus' = "running"
      BY <1>5 DEF Reopen, RequestStatus
    <2>2. chunk \in Chunks /\ version[chunk] \in Versions
      BY <1>5, FetchingFacts DEF Reopen, Fetching
    <2>3. \A i \in DOMAIN delivered[chunk] \cap DOMAIN Bufs(chunk, v) :
             delivered[chunk][i] = Kept(Bufs(chunk, v)[i])
      BY <1>5, <2>2, VersionsAreDistinct DEF Reopen, FetchInv, DeliveredFits
    <2>4. Abstract!Serve(chunk, v)
      BY <1>5, <2>1, <2>3
      DEF Reopen, Abstract!Serve, Abstract!Continues, Bufs, Kept, Abstract!Bufs, Abstract!Kept
    <2>5. QED  BY <2>2, <2>4 DEF Abstract!AbsNext, Abstract!Chunks, Chunks
  <1>6. CASE ReadRecord
    <2>1. phase \in Fetching  BY <1>6 DEF ReadRecord, HasBuffer, Fetching
    <2>2. RequestStatus = "running" /\ RequestStatus' = "running"
      BY <1>6, <2>1 DEF ReadRecord, HasBuffer, RequestStatus
    <2>3. /\ chunk \in Chunks /\ version[chunk] # NoVersion
          /\ delivered[chunk] \in Seq(RowSets)
      BY <2>1, FetchingFacts, VersionsAreDistinct
    <2>4. pos = Len(delivered[chunk])
      BY <1>6 DEF ReadRecord, HasBuffer, ReplayPending, FetchInv, ReplayPosition, Fetching, TypeOK
    <2>5. Len(delivered[chunk]) < Len(Bufs(chunk, version[chunk]))
      BY <1>6, <2>4 DEF ReadRecord, HasBuffer
    <2>6. \A d \in 1..(chunk - 1) : WholeIn(d) /\ d \in Chunks
      BY <2>3, CountsAreNaturals DEF FetchInv, WindowOrder, Chunks
    <2>7. delivered' = [delivered EXCEPT ![chunk] =
              Append(@, Kept(Bufs(chunk, version[chunk])[Len(@) + 1]))]
      BY <1>6, <2>4 DEF ReadRecord, NextBuffer
    <2>8. version' = version  BY <1>6 DEF ReadRecord
    <2>9. \A d \in 1..(chunk - 1) : Abstract!WholeIn(delivered, version, d)
      BY <2>6, WholeMapped
    <2>10. Abstract!Deliver(chunk)
      BY <2>2, <2>3, <2>5, <2>7, <2>8, <2>9
      DEF Abstract!Deliver, Bufs, Kept, Abstract!Bufs, Abstract!Kept
    <2>11. QED  BY <2>3, <2>10 DEF Abstract!AbsNext, Abstract!Chunks, Chunks
  <1>7. CASE Quiet
    <2>1. Stutter
      BY <1>7, QuietStep, Running, RunningNext DEF Fetching
    <2>2. QED  BY <2>1, <1>1
  <1>8. CASE OpenEmptyWindow \/ OpenFails \/ ReadEnd
    <2>1. /\ phase \notin {"idle", "done", "failed"}
          /\ phase' \notin {"idle", "done", "failed"}
          /\ UNCHANGED <<delivered, version>>
      BY <1>8 DEF OpenEmptyWindow, OpenFails, ReadEnd, Raise, stream
    <2>2. QED  BY <2>1, <1>1, Running, RunningNext
  <1>9. CASE Close \/ CloseFails
    <2>1. RequestStatus = "running" /\ RequestStatus' \in {"running", "failed"}
      BY <1>9 DEF Close, CloseFails, RequestStatus
    <2>2. UNCHANGED <<delivered, version>>
      BY <1>9 DEF Close, CloseFails, stream
    <2>3. CASE RequestStatus' = "running"
      BY <2>1, <2>2, <2>3, <1>1
    <2>4. CASE RequestStatus' = "failed"
      BY <2>1, <2>2, <2>4 DEF Abstract!Fail, Abstract!AbsNext
    <2>5. QED  BY <2>1, <2>3, <2>4
  <1>10. CASE UNCHANGED vars
    BY <1>10, <1>1 DEF vars, RequestStatus
  <1>11. QED
    BY <1>2, <1>3, <1>4, <1>5, <1>6, <1>7, <1>8, <1>9, <1>10 DEF Next, Step, Quiet

\* The fetcher implements RecordStream: exactly-once, in-order delivery window
\* after window, and success only for the whole of it.
THEOREM Refinement == Spec => ImplementsRecordStream
  <1>1. Init => Abstract!AbsInit
    BY DEF Init, Abstract!AbsInit, RequestStatus, Abstract!Chunks, Chunks
  <1>2. QED
    BY <1>1, StepRefines, FetchInvariant, PTL
    DEF Spec, ImplementsRecordStream, Abstract!AbsSpec

=============================================================================
