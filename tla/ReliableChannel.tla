-------------------------- MODULE ReliableChannel --------------------------
(***************************************************************************)
(* What a reliable link of Spines promises, seen from above: each end hands  *)
(* messages over, numbered from 0, and the other end delivers each of them   *)
(* at most once, in any order; an end knows only of deliveries that have     *)
(* taken place.  Nothing is ever lost here, so what implements this          *)
(* tolerates loss.                                                          *)
(***************************************************************************)
EXTENDS Integers

CONSTANT Messages   \* how many messages each end may hand over

VARIABLES
    accepted,    \* how many messages each end has handed over
    delivered,   \* how often each message of the other end has been delivered
    known        \* each end knows that its messages below this were delivered

chVars == <<accepted, delivered, known>>

Ends == {0, 1}

Peer(e) == 1 - e

Numbers(e) == 0..(Messages[e] - 1)

Init ==
    /\ accepted = [e \in Ends |-> 0]
    /\ delivered = [e \in Ends |-> [n \in Numbers(Peer(e)) |-> 0]]
    /\ known = [e \in Ends |-> 0]

Accept(e) ==
    /\ accepted' = [accepted EXCEPT ![e] = @ + 1]
    /\ UNCHANGED <<delivered, known>>

\* A message of the other end that it has handed over and that is new.
Deliver(e) ==
    \E n \in Numbers(Peer(e)) :
        /\ n < accepted[Peer(e)] /\ delivered[e][n] = 0
        /\ delivered' = [delivered EXCEPT ![e][n] = 1]

\* An end learns what the other has delivered, every message below k.
Learn(e) ==
    \E k \in Numbers(e) :
        /\ known[e] <= k
        /\ \A n \in 0..k : delivered[Peer(e)][n] = 1
        /\ known' = [known EXCEPT ![e] = k + 1]

\* A datagram may tell both.
Hear(e) ==
    /\ Deliver(e) \/ UNCHANGED delivered
    /\ Learn(e) \/ UNCHANGED known
    /\ UNCHANGED accepted

Next == \E e \in Ends : Accept(e) \/ Hear(e)

Spec == Init /\ [][Next]_chVars
=============================================================================
