----------------------------- MODULE RaceWindow -----------------------------
(***************************************************************************)
(* Which races a time-series run opens: the post-time window of            *)
(* src/fetcher/realtime.py over the race rows of NL_RA and RT_RA.          *)
(*                                                                         *)
(* A race has a full key (JVRTOpen's 12-digit key and the Kaiji/Nichiji of *)
(* the meeting, which that key does not carry); rows of one 12-digit key   *)
(* may contradict each other.  Times are minutes.                          *)
(***************************************************************************)
EXTENDS Integers, FiniteSets

CONSTANTS
    DayOf,      \* day of each 12-digit key
    DayMinutes  \* minutes of a day

ASSUME WindowAssumption ==
    DayMinutes \in Nat \ {0} /\ DayOf \in [DOMAIN DayOf -> Int]

\* A window that was not asked for, and a bound of it that was not given.
NoLimit == -1
Requested(w) == w.within # NoLimit \/ w.past # NoLimit

\* What is in the HassoTime column instead of a minute of the day.
NoPost == -1
BadPost == -2

\* A row of NL_RA or RT_RA, and a window.
RaceRows ==
    [src : {"NL", "RT"}, key : DOMAIN DayOf, meet : Nat, kubun : STRING,
     post : {NoPost, BadPost} \cup 0 .. DayMinutes - 1]
Bounds == [within : Nat \cup {NoLimit}, past : Nat \cup {NoLimit}, now : Int]

Full(row) == <<row.key, row.meet>>
KeysOf(R) == {row.key : row \in R}
Of(R, k) == {row \in R : row.key = k}

\* A row of RT_RA supersedes the row of NL_RA with the same full key.
MutantSelected(R) == {row \in R : row.src = "NL"} \cup {row \in R : row.src = "RT" /\
    \A n \in R : n.src = "NL" => Full(n) # Full(row)}

Selected(R) ==
    {row \in R : row.src = "NL" => \A rt \in R : rt.src = "RT" => Full(rt) # Full(row)}

DayStart(k) == DayOf[k] * DayMinutes
DayEnd(k) == DayStart(k) + DayMinutes - 1

\* _group_race_rows_by_window_date: whole dates outside the window are dropped
\* before their rows are looked at.
TooFarByDate(k, w) == w.within # NoLimit /\ DayStart(k) > w.now + w.within
TooPastByDate(k, w) == w.past # NoLimit /\ DayEnd(k) < w.now - w.past

DateCandidates(R, w) ==
    {k \in KeysOf(R) : ~TooFarByDate(k, w) /\ ~TooPastByDate(k, w)}

\* _overlay_current_lifecycle_rows: a status that decides nothing, or one key
\* both active and canceled.
Undecided(R, w) ==
    \E k \in DateCandidates(R, w) :
        \/ \E row \in Of(R, k) : row.kubun \notin {"active", "canceled"}
        \/ \E a, b \in Of(R, k) : a.kubun # b.kubun

Canceled(R, w) ==
    {k \in DateCandidates(R, w) : \E row \in Of(R, k) : row.kubun = "canceled"}

\* _filter_race_rows_by_post_time: a post time that is missing, unreadable or
\* ambiguous.
NoPostTime(R, w) ==
    \E k \in DateCandidates(R, w) :
        \/ \E row \in Of(R, k) : row.post \in {NoPost, BadPost}
        \/ \E a, b \in Of(R, k) : a.post # b.post

PostTime(R, k) == DayStart(k) + (CHOOSE row \in Of(R, k) : TRUE).post

TooFar(R, k, w) == w.within # NoLimit /\ PostTime(R, k) - w.now > w.within
TooPast(R, k, w) == w.past # NoLimit /\ w.now - PostTime(R, k) > w.past

Kept(R, w) ==
    {k \in DateCandidates(R, w) : ~TooFar(R, k, w) /\ ~TooPast(R, k, w)}

\* The rows are refused as a whole, or the keys to open.
Refuses(R, w) ==
    Requested(w) /\ (Undecided(Selected(R), w) \/ NoPostTime(Selected(R), w))

Targets(R, w) ==
    IF ~Requested(w) THEN KeysOf(R)
    ELSE LET S == Selected(R) IN Kept(S, w) \ Canceled(S, w)

\* Each canceled key that would otherwise have been kept is reported.
OmittedCanceled(R, w) ==
    LET S == Selected(R) IN Cardinality(Kept(S, w) \cap Canceled(S, w))

=============================================================================
