-------------------------- MODULE MCHistoricalFetch -------------------------
(***************************************************************************)
(* Two windows.  Window 1 may be served whole ("full"), cut short after a  *)
(* repair ("short"), or rewritten under another timestamp ("new"); window  *)
(* 2 is longer than window 1, so a replay length that forgot the window    *)
(* boundary would swallow records instead of hitting the end check.        *)
(* Buffer "h" is a full-struct record with two rows, "l" lies after        *)
(* to_date, "x" is rejected by the parser.                                 *)
(***************************************************************************)
EXTENDS HistoricalFetch, TLC

MCVersions == {"full", "short", "new"}

MCParsed == [b \in {"a", "b", "h", "l", "x"} |->
               CASE b = "a" -> {"a1"}
                 [] b = "b" -> {"b1"}
                 [] b = "h" -> {"h1", "h2"}
                 [] b = "l" -> {"l1"}
                 [] b = "x" -> {}]

MCLate == {"l1"}

Served(stamp, bufs) == [stamp |-> stamp, files |-> 2, bufs |-> bufs]

MCOffer ==
    <<[full  |-> Served(1, <<"a", "l", "b">>),
       short |-> Served(1, <<"a">>),
       new   |-> Served(2, <<"h", "a">>)],
      [full  |-> Served(1, <<"h", "l", "a", "b">>),
       short |-> Served(1, <<"h", "l">>),
       new   |-> Served(2, <<"b", "x">>)]>>

=============================================================================
