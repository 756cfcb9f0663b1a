-------------------------- MODULE MCRealtimeMonitor -------------------------
(***************************************************************************)
(* A snapshot key and one whose records may commit themselves.  The second *)
(* version withdraws a row of the first.                                   *)
(***************************************************************************)
EXTENDS RealtimeMonitor, TLC

MCContent == 0 :> {} @@ 1 :> {1, 2} @@ 2 :> {1}

=============================================================================
