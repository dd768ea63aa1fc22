-------------------------- MODULE MCLinkProtocols --------------------------
(***************************************************************************)
(* The reliable, the real-time and the intrusion-tolerant link of a leg.      *)
(* They share no state, so that each behaviour follows one of them and       *)
(* the others rest: kind says which, as the links array of a leg is indexed. *)
(***************************************************************************)
EXTENDS ReliableLink, RealtimeLink, IntrusionTolLink

CONSTANT Kinds   \* the kinds of link to follow

VARIABLE kind

linkVars == <<vars, rtVars, itVars, kind>>

LinkInit ==
    /\ Init /\ RtInit /\ ItInit
    /\ kind \in Kinds
    /\ kind # "intrusion" => it_conf = CHOOSE c \in Configurations : TRUE

LinkNext ==
    /\ UNCHANGED kind
    /\ \/ kind = "reliable" /\ Next /\ UNCHANGED <<rtVars, itVars>>
       \/ kind = "realtime" /\ RtNext /\ UNCHANGED <<vars, itVars>>
       \/ kind = "intrusion" /\ ItNext /\ UNCHANGED <<vars, rtVars>>

LinkSpec == LinkInit /\ [][LinkNext]_linkVars

FairLinkSpec ==
    /\ LinkSpec
    /\ \/ kind = "reliable" /\ Fairness
       \/ kind = "intrusion" /\ ItFairness

-----------------------------------------------------------------------------
(* Values of the constants. *)

\* The configuration of daemon/spines.conf, and one with cryptography.
Conf(crypto, reintroduce) ==
    [Crypto |-> crypto, Reintroduce |-> reintroduce, TCP_Fairness |-> TRUE]
Shipped == {Conf(FALSE, TRUE)}
\* Without congestion control several packets are under way from the start.
OpenWindow == {[c EXCEPT !.TCP_Fairness = FALSE] : c \in Shipped}
BothConfs == Shipped \cup {Conf(TRUE, FALSE)}

\* End 0 sends, end 1 answers with one message; or there is only end 0.
ThreeAndOne == [e \in Ends |-> IF e = 0 THEN 3 ELSE 1]
ThreeOneWay == [e \in Ends |-> IF e = 0 THEN 3 ELSE 0]
OneEach == [e \in Ends |-> 1]
TwoOne == [e \in Ends |-> IF e = 1 THEN 2 ELSE 1]

FromZero(messages) == [e \in ItEnds |-> IF e = 0 THEN messages ELSE <<>>]
TwoOnes == [c \in Configurations |-> FromZero(<<1, 1>>)]
TwoThenOne == [c \in Configurations |-> FromZero(IF c.Crypto THEN <<2>> ELSE <<2, 1>>)]
TwoLast == [c \in Configurations |-> FromZero(<<1, 1, 2>>)]
=============================================================================
