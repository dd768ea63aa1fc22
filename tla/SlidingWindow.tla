--------------------------- MODULE SlidingWindow ---------------------------
(***************************************************************************)
(* What the window protocol of p1 promises, seen from above: one counter    *)
(* of packets sent, one of packets the receiver has in order, one of        *)
(* packets the sender knows it has.  There are no datagrams here: nothing   *)
(* can be lost, so what implements this tolerates loss.                     *)
(***************************************************************************)
EXTENDS Integers

CONSTANT Window   \* packets sent and not known to have arrived, at most

VARIABLES mode, sent, got, known

swVars == <<mode, sent, got, known>>

Init ==
    /\ mode = "connecting"
    /\ sent = Window /\ got = 0 /\ known = 0

\* The receiver has accepted: the first window goes out.
Accept ==
    /\ mode = "connecting"
    /\ mode' = "sending"
    /\ UNCHANGED <<sent, got, known>>

\* The receiver gets one or more packets further.
Deliver ==
    /\ mode = "sending"
    /\ got' \in (got + 1)..sent
    /\ UNCHANGED <<mode, sent, known>>

\* The sender learns of it, and may send as many packets more.
Learn ==
    /\ mode = "sending"
    /\ known' \in (known + 1)..got
    /\ sent' \in sent..(sent + known' - known)
    /\ UNCHANGED <<mode, got>>

\* The sender stops, and takes a single missing packet for delivered.
Finish ==
    /\ mode = "sending"
    /\ got >= sent - 1
    /\ mode' = "exited"
    /\ got' = sent
    /\ UNCHANGED <<sent, known>>

Next == Accept \/ Deliver \/ Learn \/ Finish

Spec == Init /\ [][Next]_swVars
=============================================================================
