--------------------------- MODULE HistoricalFetch --------------------------
(***************************************************************************)
(* HistoricalFetcher.fetch (src/fetcher/historical.py) over one JV-Link    *)
(* session: one JVOpen / JVRead* / JVClose cycle per calendar-year window, *)
(* the wait for the provider's download, and the self-repair of a          *)
(* zero-byte file (-402): delete the file, close, reopen the same context  *)
(* and swallow the records already handed out.  The fetcher object is      *)
(* reused, so one fetch starts from whatever the previous one left behind. *)
(*                                                                         *)
(* No cache manager is attached here; NlCache adds the cache.              *)
(***************************************************************************)
EXTENDS Naturals, Sequences

CONSTANTS
    NChunks,      \* fromtimes of one request (_jvopen_fromtimes)
    Versions,     \* contents the provider may have for a window over time
    NoVersion,
    Offer,        \* Offer[c][v] = [stamp, files, bufs]: what JVOpen reports
                  \* (lastfiletimestamp, readcount) and the stream behind it
    Parsed,       \* Parsed[b]: rows of buffer b; {} when the parser rejects b
    Late,         \* rows dated after to_date
    MaxRetries,   \* JVD_SELF_REPAIR_MAX_RETRIES
    MaxPolls,     \* polls before the 300 s / 600 s waits give up
    MaxFetches    \* bound: fetches made on one fetcher object

Chunks == 1..NChunks
Buffers == DOMAIN Parsed
Bufs(c, v) == Offer[c][v].bufs
Kept(b) == Parsed[b] \ Late
RowSets == SUBSET UNION {Parsed[b] : b \in Buffers}

\* What _recover_historical_read_error compares after the reopen.
SameStream(c, v, w) ==
    /\ Offer[c][v].files = Offer[c][w].files
    /\ Offer[c][v].stamp = Offer[c][w].stamp

Agree(c, v, w) ==
    \A i \in DOMAIN Bufs(c, v) \cap DOMAIN Bufs(c, w) :
        Bufs(c, v)[i] = Bufs(c, w)[i]

ASSUME CountsAreNaturals ==
    /\ NChunks \in Nat \ {0}
    /\ MaxRetries \in Nat
    /\ MaxPolls \in Nat
    /\ MaxFetches \in Nat

ASSUME VersionsAreDistinct == NoVersion \notin Versions

ASSUME OfferIsTyped ==
    \A c \in Chunks, v \in Versions :
        Offer[c][v].bufs \in Seq(Buffers) /\ Offer[c][v].files \in Nat

\* What the recovery relies on and cannot check: a window that reports the
\* same timestamp and the same file count replays the same records, though it
\* may stop earlier (the file deleted was not restored whole).
ASSUME StampIdentifiesStream ==
    \A c \in Chunks, v, w \in Versions : SameStream(c, v, w) => Agree(c, v, w)

VARIABLES
    phase,         \* where the generator stands
    fetchNo,
    chunk,         \* window being fetched
    raised,        \* primary_error is set
    recovering,    \* inside _recover_historical_read_error
    attempts,      \* _jvd_self_repair_attempts
    fetched,       \* _records_fetched
    base,          \* _open_records_baseline
    remaining,     \* _jvd_replay_records_remaining
    files,         \* _files_processed
    polls,         \* unanswered polls of the current wait
    rangeComplete, \* cache.range_complete
    opened,        \* JV-Link holds an open stream (provider side)
    pos,           \* buffers JV-Link has returned since its JVOpen
    version,       \* version[c]: contents the last JVOpen of window c served
    delivered      \* delivered[c]: row sets yielded, one per buffer of c

vars == <<phase, fetchNo, chunk, raised, recovering, attempts, fetched, base,
          remaining, files, polls, rangeComplete, opened, pos, version, delivered>>

request == <<fetchNo, chunk, rangeComplete>>
counters == <<attempts, fetched, base, remaining>>
stream == <<opened, pos, version>>

Phases == {"idle", "chunk", "download", "read", "yield", "repair", "reopen",
           "close", "done", "failed"}

Init ==
    /\ phase = "idle"
    /\ fetchNo = 0 /\ chunk = 1
    /\ raised = FALSE /\ recovering = FALSE
    /\ attempts = 0 /\ fetched = 0 /\ base = 0 /\ remaining = 0
    /\ files = 0 /\ polls = 0
    /\ rangeComplete = TRUE
    /\ opened = FALSE /\ pos = 0
    /\ version = [c \in Chunks |-> NoVersion]
    /\ delivered = [c \in Chunks |-> <<>>]

\* fetch(): reset_statistics, one retry budget and one completeness flag for
\* the whole request.  remaining and base keep their old values.
BeginFetch ==
    /\ phase \in {"idle", "done", "failed"}
    /\ fetchNo < MaxFetches
    /\ fetchNo' = fetchNo + 1
    /\ phase' = "chunk"
    /\ chunk' = 1
    /\ fetched' = 0 /\ attempts' = 0 /\ rangeComplete' = TRUE
    /\ raised' = FALSE /\ recovering' = FALSE
    /\ version' = [c \in Chunks |-> NoVersion]
    /\ delivered' = [c \in Chunks |-> <<>>]
    /\ UNCHANGED <<base, remaining, files, polls, opened, pos>>

Finish ==
    /\ phase = "chunk" /\ chunk > NChunks
    /\ phase' = "done"
    /\ UNCHANGED <<request, raised, recovering, counters, files, polls, stream,
                   delivered>>

\* _fetch_one_open starts: per-open state is reset before JVOpen is called.
ResetOpenState ==
    /\ remaining' = 0
    /\ base' = fetched
    /\ files' = 0
    /\ polls' = 0

\* JVOpen of a window answers with a stream of version v.
OpenWindow(v) ==
    /\ phase = "chunk" /\ chunk \in Chunks /\ ~opened
    /\ ResetOpenState
    /\ opened' = TRUE /\ pos' = 0
    /\ version' = [version EXCEPT ![chunk] = v]
    /\ phase' \in {"download", "read"}         \* downloadcount > 0 or = 0
    /\ UNCHANGED <<request, raised, recovering, attempts, fetched, delivered>>

\* JVOpen answers -1 or 0/0 files: skip the window, never mark the range.
OpenEmptyWindow ==
    /\ phase = "chunk" /\ chunk \in Chunks /\ ~opened
    /\ ResetOpenState
    /\ opened' = TRUE /\ pos' = 0              \* -1 must be closed as well
    /\ rangeComplete' = FALSE
    /\ phase' = "close"
    /\ UNCHANGED <<fetchNo, chunk, raised, recovering, attempts, fetched,
                   version, delivered>>

\* JVOpen raises, is cancelled (-2), or finds a stream left open (-202).
OpenFails ==
    /\ phase = "chunk" /\ chunk \in Chunks
    /\ ResetOpenState
    /\ opened' \in {opened, TRUE}
    /\ raised' = TRUE
    /\ phase' = "close"
    /\ UNCHANGED <<request, recovering, attempts, fetched, pos, version, delivered>>

\* Buffers handed out since the window was opened.
ReplayLength == fetched - base

\* _consume_replayed_record has something to skip.
ReplayPending == remaining > 0

\* The stream ended while records handed out before are still missing.
ReplayLeft == remaining > 0

\* Mutant: a repair is not charged to the budget.
MutantChargeRepair == attempts' = attempts

\* A repair that succeeded is charged to the budget of the whole fetch.
ChargeRepair == attempts' = IF recovering THEN attempts + 1 ELSE attempts

\* Any exception inside _fetch_one_open: unwind to the mandatory JVClose.
Raise ==
    /\ raised' = TRUE
    /\ phase' = "close"

\* JVStatus below downloadcount: wait.
DownloadPoll ==
    /\ phase = "download" /\ polls < MaxPolls
    /\ polls' = polls + 1
    /\ UNCHANGED <<phase, request, raised, recovering, counters, files, stream, delivered>>

\* JVStatus equals downloadcount.  After a reopen this ends the repair.
DownloadDone ==
    /\ phase = "download"
    /\ phase' = "read"
    /\ polls' = 0
    /\ ChargeRepair
    /\ files' = IF recovering THEN 0 ELSE files
    /\ recovering' = FALSE
    /\ UNCHANGED <<request, raised, fetched, base, remaining, stream, delivered>>

\* Negative status, more files than announced, stall or timeout.
DownloadFails ==
    /\ phase = "download"
    /\ Raise
    /\ UNCHANGED <<request, recovering, counters, files, polls, stream, delivered>>

\* JVRead -3: the file is still downloading.
ReadWait ==
    /\ phase = "read" /\ polls < MaxPolls
    /\ polls' = polls + 1
    /\ UNCHANGED <<phase, request, raised, recovering, counters, files, stream, delivered>>

\* JVRead -1: end of one file of the stream.
ReadFileSwitch ==
    /\ phase = "read" /\ files < Offer[chunk][version[chunk]].files
    /\ files' = files + 1
    /\ polls' = 0
    /\ UNCHANGED <<phase, request, raised, recovering, counters, stream, delivered>>

NextBuffer == Bufs(chunk, version[chunk])[pos + 1]

HasBuffer == phase = "read" /\ pos < Len(Bufs(chunk, version[chunk]))

\* JVRead > 0 while a repair is being caught up: drop the buffer unparsed.
ReadReplayed ==
    /\ HasBuffer /\ ReplayPending
    /\ remaining' = remaining - 1
    /\ pos' = pos + 1 /\ polls' = 0
    /\ UNCHANGED <<phase, request, raised, recovering, attempts, fetched, base,
                   files, opened, version, delivered>>

\* JVRead > 0: count, parse, filter by to_date, yield the surviving rows.
ReadRecord ==
    /\ HasBuffer /\ ~ReplayPending
    /\ Parsed[NextBuffer] # {}
    /\ fetched' = fetched + 1
    /\ pos' = pos + 1 /\ polls' = 0
    /\ delivered' = [delivered EXCEPT ![chunk] = Append(@, Kept(NextBuffer))]
    /\ phase' = IF Kept(NextBuffer) = {} THEN "read" ELSE "yield"
    /\ UNCHANGED <<request, raised, recovering, attempts, base, remaining,
                   files, opened, version>>

\* The parser rejects the buffer: fatal, after it was counted.
ReadRejected ==
    /\ HasBuffer /\ ~ReplayPending
    /\ Parsed[NextBuffer] = {}
    /\ fetched' = fetched + 1
    /\ pos' = pos + 1 /\ polls' = 0
    /\ Raise
    /\ UNCHANGED <<request, recovering, attempts, base, remaining, files,
                   opened, version, delivered>>

\* JVRead 0: the end checks of _fetch_one_open, then JVClose.
ReadEnd ==
    /\ phase = "read" /\ pos = Len(Bufs(chunk, version[chunk]))
    /\ phase' = "close"
    /\ raised' = ReplayLeft
    /\ polls' = 0
    /\ UNCHANGED <<request, recovering, counters, files, stream, delivered>>

\* JVRead -403, any other error code, or a -3 wait that timed out.
ReadFails ==
    /\ phase = "read"
    /\ Raise
    /\ UNCHANGED <<request, recovering, counters, files, polls, stream, delivered>>

\* JVRead -402 for a named file: self-repair while the budget lasts.
ReadZeroByteFile ==
    /\ phase = "read"
    /\ polls' = 0
    /\ IF attempts >= MaxRetries
         THEN Raise /\ UNCHANGED recovering
         ELSE phase' = "repair" /\ recovering' = TRUE /\ UNCHANGED raised
    /\ UNCHANGED <<request, counters, files, stream, delivered>>

\* JVFiledelete succeeds; remember the prefix handed out since this window
\* was opened; JVClose.
DeleteAndClose ==
    /\ phase = "repair"
    /\ remaining' = ReplayLength
    /\ opened' = FALSE
    /\ phase' = "reopen"
    /\ UNCHANGED <<request, raised, recovering, attempts, fetched, base, files,
                   polls, pos, version, delivered>>

\* JVFiledelete fails, or the JVClose after it does.
DeleteOrCloseFails ==
    /\ phase = "repair"
    /\ remaining' \in {remaining, ReplayLength}
    /\ Raise
    /\ UNCHANGED <<request, recovering, attempts, fetched, base, files, polls,
                   stream, delivered>>

\* Mutant: the reopen compares the file count only.
MutantReopen(v) ==
    /\ phase = "reopen"
    /\ Offer[chunk][version[chunk]].files = Offer[chunk][v].files
    /\ opened' = TRUE /\ pos' = 0
    /\ version' = [version EXCEPT ![chunk] = v]
    /\ phase' = "download"
    /\ UNCHANGED <<request, raised, recovering, counters, files, polls, delivered>>

\* JVOpen restores the stream: same file count, same last timestamp and
\* something to download, or the repair is refused.
Reopen(v) ==
    /\ phase = "reopen"
    /\ SameStream(chunk, version[chunk], v)
    /\ opened' = TRUE /\ pos' = 0
    /\ version' = [version EXCEPT ![chunk] = v]
    /\ phase' = "download"
    /\ UNCHANGED <<request, raised, recovering, counters, files, polls, delivered>>

ReopenRefused ==
    /\ phase = "reopen"
    /\ opened' \in BOOLEAN                     \* raised by JVOpen, or after it
    /\ Raise
    /\ UNCHANGED <<request, recovering, counters, files, polls, pos, version,
                   delivered>>

\* The consumer asks for the next row, or drops the generator.
Resume ==
    /\ phase = "yield"
    /\ phase' = "read"
    /\ UNCHANGED <<request, raised, recovering, counters, files, polls, stream,
                   delivered>>

Abandon ==
    /\ phase = "yield"
    /\ Raise
    /\ UNCHANGED <<request, recovering, counters, files, polls, stream, delivered>>

\* The finally block: JVClose whatever happened.
Close ==
    /\ phase = "close"
    /\ opened' = FALSE
    /\ IF raised THEN phase' = "failed" /\ UNCHANGED chunk
                 ELSE phase' = "chunk" /\ chunk' = chunk + 1
    /\ UNCHANGED <<fetchNo, rangeComplete, raised, recovering, counters, files,
                   polls, pos, version, delivered>>

\* Mutant: a JVClose error is only logged and the next window is tried.
MutantCloseFails ==
    /\ phase = "close"
    /\ phase' = IF raised THEN "failed" ELSE "chunk"
    /\ chunk' = IF raised THEN chunk ELSE chunk + 1
    /\ UNCHANGED <<fetchNo, rangeComplete, raised, recovering, counters, files,
                   polls, stream, delivered>>

\* A JVClose error is raised when there is no earlier one, logged otherwise.
CloseFails ==
    /\ phase = "close"
    /\ phase' = "failed"
    /\ raised' = TRUE
    /\ UNCHANGED <<request, recovering, counters, files, polls, stream, delivered>>

\* Steps of the fetcher and of JV-Link answering it.
Step ==
    \/ Finish
    \/ \E v \in Versions : OpenWindow(v)
    \/ OpenEmptyWindow \/ OpenFails
    \/ DownloadPoll \/ DownloadDone \/ DownloadFails
    \/ ReadWait \/ ReadFileSwitch
    \/ ReadReplayed \/ ReadRecord \/ ReadRejected \/ ReadEnd \/ ReadFails
    \/ ReadZeroByteFile
    \/ DeleteAndClose \/ DeleteOrCloseFails
    \/ \E v \in Versions : Reopen(v)
    \/ ReopenRefused
    \/ Resume
    \/ Close \/ CloseFails

Next == BeginFetch \/ Step \/ Abandon

Spec == Init /\ [][Next]_vars

\* The import loop drains the generator and every JV-Link call returns.
FairSpec == Spec /\ WF_vars(Step)

-----------------------------------------------------------------------------

TypeOK ==
    /\ phase \in Phases
    /\ fetchNo \in Nat
    /\ chunk \in 1..(NChunks + 1)
    /\ raised \in BOOLEAN /\ recovering \in BOOLEAN
    /\ attempts \in Nat /\ fetched \in Nat /\ base \in Nat /\ remaining \in Nat
    /\ files \in Nat /\ polls \in Nat
    /\ rangeComplete \in BOOLEAN
    /\ opened \in BOOLEAN /\ pos \in Nat
    /\ version \in [Chunks -> Versions \cup {NoVersion}]
    /\ delivered \in [Chunks -> Seq(RowSets)]

WholeIn(c) ==
    IF version[c] = NoVersion THEN delivered[c] = <<>>
                              ELSE Len(delivered[c]) = Len(Bufs(c, version[c]))

\* Every row set the consumer has received from a window is that of the buffer
\* at the same place in the provider's stream: no repair, leftover replay count
\* or window boundary loses, repeats or reorders a record
\* (historical.py:169-180, 232-234, 303-304).
DeliveredInOrder ==
    \A c \in Chunks : version[c] # NoVersion =>
        \A i \in DOMAIN delivered[c] \cap DOMAIN Bufs(c, version[c]) :
            delivered[c][i] = Kept(Bufs(c, version[c])[i])

\* A fetch that ends without an error has handed over every record of every
\* window it opened, and says the range is complete only if it opened them all
\* (historical.py:351-367, 426-436, 572).
DoneIsWhole ==
    phase = "done" =>
        /\ \A c \in Chunks : WholeIn(c)
        /\ rangeComplete => \A c \in Chunks : version[c] # NoVersion

\* A fetch that ends without an error leaves no JV-Link stream open behind it
\* (historical.py:442-460): the next JVOpen would be refused with -202.
DoneIsClosed == phase = "done" => ~opened

\* The inductive invariant behind the properties above.

Fetching == {"download", "read", "yield", "repair", "reopen"}

\* Windows still to come are untouched, windows behind are whole.
WindowOrder ==
    /\ phase \in Fetching \cup {"close"} => chunk <= NChunks
    /\ phase = "done" => chunk = NChunks + 1
    /\ \A c \in Chunks :
         /\ c < chunk => WholeIn(c) /\ (rangeComplete => version[c] # NoVersion)
         /\ c > chunk => version[c] = NoVersion
         /\ version[c] = NoVersion => delivered[c] = <<>>
    /\ phase = "chunk" /\ chunk \in Chunks => version[chunk] = NoVersion
    /\ phase = "close" /\ ~raised =>
         WholeIn(chunk) /\ (rangeComplete => version[chunk] # NoVersion)

\* Where JV-Link stands, what is still to be skipped and what the consumer has.
ReplayPosition ==
    /\ phase \in Fetching =>
         /\ version[chunk] # NoVersion
         /\ fetched = base + Len(delivered[chunk])
    /\ phase \in Fetching \ {"reopen"} => pos + remaining = Len(delivered[chunk])
    /\ phase = "reopen" => remaining = Len(delivered[chunk])

\* What was handed out fits every stream a repair would accept.
DeliveredFits ==
    \A c \in Chunks : version[c] # NoVersion =>
        \A v \in Versions : SameStream(c, version[c], v) =>
            \A i \in DOMAIN delivered[c] \cap DOMAIN Bufs(c, v) :
                delivered[c][i] = Kept(Bufs(c, v)[i])

StreamClosed == phase = "done" \/ (phase = "chunk" /\ chunk > 1) => ~opened

FetchInv ==
    /\ TypeOK
    /\ WindowOrder
    /\ ReplayPosition
    /\ DeliveredFits
    /\ StreamClosed

\* Every fetch ends, with a result or an error: the repair budget spans all
\* windows and every wait gives up (historical.py:193-202, 772-775).
FetchEnds == (phase = "chunk") ~> (phase \in {"done", "failed"})

\* The status of the request a consumer sees.
RequestStatus ==
    CASE phase = "idle"   -> "idle"
      [] phase = "done"   -> "complete"
      [] phase = "failed" -> "failed"
      [] OTHER            -> "running"

\* The fetcher implements the record stream its consumers are promised: each
\* step hands over the next buffer of the current window or nothing, a reopened
\* stream continues what was handed out, success means all of it.
Abstract == INSTANCE RecordStream WITH
    serving <- version,
    status <- RequestStatus

ImplementsRecordStream == Abstract!AbsSpec

=============================================================================
