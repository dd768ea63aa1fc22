---------------------------- MODULE MCStateFlood ----------------------------
(***************************************************************************)
(* The flooding in small networks: values of the constants of StateFlood.   *)
(***************************************************************************)
EXTENDS StateFlood

\* Daemons in a row, and the leg of the first two.
Row == {<<n, m>> \in Daemons \X Daemons : n - m \in {-1, 1}}
FirstLeg == {<<0, 1>>, <<1, 0>>}
=============================================================================
