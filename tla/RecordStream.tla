---------------------------- MODULE RecordStream ----------------------------
(***************************************************************************)
(* What HistoricalFetcher.fetch promises its consumer, without JV-Link     *)
(* calls, waits, retries or replays.  A request is cut into windows (one   *)
(* JVOpen per calendar year); the provider offers each window as a         *)
(* sequence of raw buffers; the consumer receives the rows of every buffer *)
(* exactly once, in order, window after window, and "complete" is only     *)
(* reported when every window has been handed over in full.                *)
(***************************************************************************)
EXTENDS Naturals, Sequences

CONSTANTS
    NChunks,    \* number of windows of one request
    Versions,   \* the contents the provider may have for a window over time
    NoVersion,  \* the window has not been opened with data
    Offer,      \* Offer[c][v].bufs: the buffers of window c in version v
    Parsed,     \* Parsed[b]: the rows the parser makes of buffer b
    Late        \* rows dated after to_date

VARIABLES delivered, serving, status

absVars == <<delivered, serving, status>>

Chunks == 1..NChunks

\* The rows of a buffer that survive the client-side to_date filter.
Kept(b) == Parsed[b] \ Late

Bufs(c, v) == Offer[c][v].bufs

\* Version v of window c continues what the consumer already has of it.
Continues(c, v) ==
    \A i \in DOMAIN delivered[c] \cap DOMAIN Bufs(c, v) :
        delivered[c][i] = Kept(Bufs(c, v)[i])

\* Window c has been handed over in full, or has nothing to hand over.
WholeIn(del, ver, c) ==
    IF ver[c] = NoVersion THEN del[c] = <<>>
                          ELSE Len(del[c]) = Len(Bufs(c, ver[c]))

AbsInit ==
    /\ delivered = [c \in Chunks |-> <<>>]
    /\ serving = [c \in Chunks |-> NoVersion]
    /\ status = "idle"

\* A new request on the same fetcher.
Begin ==
    /\ status # "running"
    /\ status' = "running"
    /\ delivered' = [c \in Chunks |-> <<>>]
    /\ serving' = [c \in Chunks |-> NoVersion]

\* The window is opened, or opened again with contents that continue it.
Serve(c, v) ==
    /\ status = "running"
    /\ Continues(c, v)
    /\ serving' = [serving EXCEPT ![c] = v]
    /\ UNCHANGED <<delivered, status>>

\* The next buffer of the window, and no other, reaches the consumer.
Deliver(c) ==
    /\ status = "running"
    /\ serving[c] # NoVersion
    /\ \A d \in 1..(c - 1) : WholeIn(delivered, serving, d)
    /\ Len(delivered[c]) < Len(Bufs(c, serving[c]))
    /\ delivered' = [delivered EXCEPT ![c] =
                       Append(@, Kept(Bufs(c, serving[c])[Len(@) + 1]))]
    /\ UNCHANGED <<serving, status>>

Complete ==
    /\ status = "running"
    /\ \A c \in Chunks : WholeIn(delivered, serving, c)
    /\ status' = "complete"
    /\ UNCHANGED <<delivered, serving>>

Fail ==
    /\ status = "running"
    /\ status' = "failed"
    /\ UNCHANGED <<delivered, serving>>

AbsNext ==
    \/ Begin
    \/ \E c \in Chunks, v \in Versions : Serve(c, v)
    \/ \E c \in Chunks : Deliver(c)
    \/ Complete
    \/ Fail

AbsSpec == AbsInit /\ [][AbsNext]_absVars

=============================================================================
