-------------------------- MODULE MCRealtimeCollect --------------------------
(* The instance of RealtimeCollect that TLC checks. *)
EXTENDS RealtimeCollect

MCKeyOrder == <<"A", "B">>
MCDayOf == [k \in {"A", "B"} |-> IF k = "A" THEN 1 ELSE 2]
MCSlots == {1, 2}

Line(do, pub, slot, flaw) == [do |-> do, pub |-> pub, slot |-> slot, flaw |-> flaw]
Put(pub, slot) == Line("put", pub, slot, "none")

\* Two rows, then one of them is withdrawn; a second publication of odds may
\* erase the first, or hold a row that cannot be stored.
MCAnswers ==
    [kind \in {"speed", "date", "mining", "odds1", "odds2"} |->
        CASE kind = "odds1" -> <<<<Put(1, 1), Put(1, 2)>>,
                                 <<Line("erase", 1, 1, "none"), Put(2, 1)>>>>
          [] kind = "odds2" -> <<<<Put(1, 1), Put(1, 2)>>,
                                 <<Put(2, 1), Line("put", 2, 2, "nokey")>>>>
          [] kind = "date"  -> <<<<Put(0, 1), Put(0, 2)>>, <<Put(0, 2)>>>>
          [] OTHER          -> <<<<Put(0, 1), Put(0, 2)>>,
                                 <<Line("put", 0, 1, "header"), Put(0, 2)>>>>]

MCHandles == {<<FALSE, "sqlite", "sqlite">>, <<FALSE, "pg8000", "sqlite">>}
MCCollectors == {"background", "bgtime", "quickspeed", "quicktime", "daily", "capture"}

RaceRow(src, key, kubun, post) ==
    [src |-> src, key |-> key, meet |-> 1, kubun |-> kubun, post |-> post]
OtherMeet(src, key, kubun, post) == [RaceRow(src, key, kubun, post) EXCEPT !.meet = 2]
NoWindow == [within |-> NoLimit, past |-> NoLimit, now |-> 0]

\* One row or none of each source for A, an active row for B, sometimes a second
\* meeting of A's key.
RowsOfA ==
    {{}} \cup
    {{RaceRow("NL", "A", kubun, post)} : kubun \in {"active", "canceled", "erased"}, post \in {0, 3}}
Overlay ==
    {{}} \cup
    {{RaceRow("RT", "A", kubun, post)} :
        kubun \in {"active", "canceled", "invalid"}, post \in {2, NoPost, BadPost}}
Meeting == {{}, {OtherMeet("NL", "A", "active", 3)}, {OtherMeet("RT", "A", "canceled", 2)}}
Tables == {a \cup rt \cup m \cup {RaceRow("NL", "B", "active", 1)} :
              a \in RowsOfA, rt \in Overlay, m \in Meeting}

Windows ==
    {[within |-> a, past |-> b, now |-> t] : a \in {NoLimit, 0, 2}, b \in {NoLimit, 1}, t \in {5, 6, 8}}

Plain == [rows |-> {RaceRow("NL", "A", "active", 0), RaceRow("NL", "B", "active", 0)},
          window |-> NoWindow]
MCAsks ==
    <<[rows : Tables, window : Windows], {Plain}>>

=============================================================================
