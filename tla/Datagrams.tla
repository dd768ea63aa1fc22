----------------------------- MODULE Datagrams -----------------------------
(***************************************************************************)
(* What a UDP socket and sendto_dbg do to datagrams: a network is the set of *)
(* the datagrams in flight, so their order is lost.                         *)
(***************************************************************************)
EXTENDS Naturals, FiniteSets

CONSTANT MayDuplicate   \* whether the network may deliver a datagram twice

\* A burst of sendto_dbg calls: any of the datagrams may be dropped, and the net
\* carries no more than cap.
Carried(net, burst, cap) ==
    {n \in {net \cup kept : kept \in SUBSET burst} : Cardinality(n) <= cap}

\* Taking datagram m off the network.
Consumed(net, m) ==
    {net \ {m}} \cup (IF MayDuplicate THEN {net} ELSE {})
=============================================================================
