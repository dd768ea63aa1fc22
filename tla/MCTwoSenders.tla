---------------------------- MODULE MCTwoSenders ----------------------------
(***************************************************************************)
(* StrayAcks for TLC: two senders with the files of MCFileTransfer.          *)
(***************************************************************************)
EXTENDS MCFileTransfer, StrayAcks
=============================================================================
