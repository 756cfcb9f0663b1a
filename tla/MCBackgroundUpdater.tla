------------------------ MODULE MCBackgroundUpdater -------------------------
(***************************************************************************)
(* One handler and a console send triggers to a service that is started    *)
(* twice.                                                                  *)
(***************************************************************************)
EXTENDS BackgroundUpdater
=============================================================================
