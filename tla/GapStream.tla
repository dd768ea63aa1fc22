----------------------------- MODULE GapStream -----------------------------
(***************************************************************************)
(* What the real-time transport promises its applications, without clocks,   *)
(* windows or datagrams: packets come out in the order they went in, none     *)
(* twice, none that was not sent; some are left out, and once a later packet   *)
(* is out a packet left out stays out.                                      *)
(***************************************************************************)
EXTENDS Naturals, Sequences

VARIABLES
    sent,   \* packets 1..sent have been sent
    out     \* the packets that came out, in order

Init == sent = 0 /\ out = <<>>

Send == sent' = sent + 1 /\ UNCHANGED out

Last == IF out = <<>> THEN 0 ELSE out[Len(out)]

\* Any number of packets comes out at once.
Release ==
    /\ UNCHANGED sent
    /\ Len(out) < Len(out')
    /\ SubSeq(out', 1, Len(out)) = out
    /\ \A i \in (Len(out) + 1)..Len(out') :
          /\ (IF i = Len(out) + 1 THEN Last ELSE out'[i - 1]) < out'[i]
          /\ out'[i] <= sent

Spec == Init /\ [][Send \/ Release]_<<sent, out>>
=============================================================================
