--------------------------- MODULE MCLoginTracker ---------------------------
(***************************************************************************)
(* A store of two entries under three addresses, for TLC.                  *)
(***************************************************************************)
EXTENDS LoginTrackerProperties
=============================================================================
