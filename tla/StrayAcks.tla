----------------------------- MODULE StrayAcks -----------------------------
(***************************************************************************)
(* FileTransfer with a history variable.  The ACK timer of rcv sends to      *)
(* from_addr, whoever that is (rcv.c:109): a sender that gets an             *)
(* acknowledgement of another one's session is misled for good.  Behaviours  *)
(* are followed up to there, whatever the number of senders.                 *)
(***************************************************************************)
EXTENDS FileTransfer

VARIABLE misled   \* an acknowledgement went to a sender without the session

HistoryInit == Init /\ misled = FALSE

\* Behaviours are followed up to the first acknowledgement that goes astray.
HistoryNext ==
    /\ ~misled /\ Next
    /\ misled' = ~NoneAstray

HistorySpec == HistoryInit /\ [][HistoryNext]_<<vars, misled>>

\* Whatever other senders do, their packets do not get into the file of a session:
\* unless an acknowledgement went astray, full packets are intact.
FullPacketsNeverMix == ~misled => FullPacketsIntact
=============================================================================
