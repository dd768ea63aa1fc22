----------------------------- MODULE MCRealTime -----------------------------
(***************************************************************************)
(* RealTime for TLC.                                                        *)
(***************************************************************************)
EXTENDS RealTime

CONSTANTS a, b
=============================================================================
