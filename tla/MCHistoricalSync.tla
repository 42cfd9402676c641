--------------------------- MODULE MCHistoricalSync ---------------------------
(***************************************************************************)
(* An instance of HistoricalSync for TLC.                                   *)
(***************************************************************************)
EXTENDS HistoricalSync
===============================================================================
