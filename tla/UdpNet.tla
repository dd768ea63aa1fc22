------------------------------- MODULE UdpNet -------------------------------
(***************************************************************************)
(* The UDP network between the ncp senders and the rcv receiver of p1.      *)
(* Datagrams may be lost, when they are sent (sendto_dbg drops at random    *)
(* and claims success) or because the network is full; they may overtake    *)
(* one another, and be duplicated where MayDuplicate says so.               *)
(***************************************************************************)
EXTENDS MessBuf, Datagrams

CONSTANTS
    Senders,        \* the ncp processes, each with an address of its own
    WINDOW_SIZE,
    NACK_SIZE,
    RcvCap,         \* bound: datagrams in flight to the receiver
    NcpCap          \* bound: datagrams in flight to the senders

ASSUME NetAssumption ==
    /\ WINDOW_SIZE \in Nat \ {0}
    /\ NACK_SIZE \in Nat \ {0}
    /\ MayDuplicate \in BOOLEAN
    /\ RcvCap \in Nat
    /\ NcpCap \in Nat

VARIABLES
    toRcv,   \* datagrams in flight to the receiver
    toNcp    \* datagrams in flight to the senders

netVars == <<toRcv, toNcp>>

NackArray == [1..NACK_SIZE -> Int]

ToRcvMsg == [src : Senders, seq : Int, data : Payload]

ToNcpMsg == [dst : Senders, cack : Int, nack : NackArray]

NetTypeOK ==
    /\ toRcv \subseteq ToRcvMsg
    /\ toNcp \subseteq ToNcpMsg

\* Sequence number s lives in this cell of a window, at either end.
Slot(s) == s % WINDOW_SIZE

Slots == 0..(WINDOW_SIZE - 1)

\* What sendto_dbg makes of a burst.
SentToRcv(burst) == toRcv' \in Carried(toRcv, burst, RcvCap)

SentToNcp(burst) == toNcp' \in Carried(toNcp, burst, NcpCap)

NetInit ==
    /\ toRcv = {}
    /\ toNcp = {}
=============================================================================
