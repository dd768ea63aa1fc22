----------------------------- MODULE MCAverages -----------------------------
(***************************************************************************)
(* Averages for TLC.                                                        *)
(***************************************************************************)
EXTENDS Averages

\* Offsets of both signs, of less and of more than a second.
MCOffsets == {-3, 0, 6}

\* Clocks that slowly drift apart.
DriftingOffsets == {0, 2, 4}
=============================================================================
