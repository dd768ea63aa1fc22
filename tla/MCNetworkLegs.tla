--------------------------- MODULE MCNetworkLegs ---------------------------
(***************************************************************************)
(* A leg of two daemons: values of the constants of NetworkLegs.           *)
(***************************************************************************)
EXTENDS NetworkLegs

OneTwo == [e \in LegEnds |-> e + 1]
=============================================================================
