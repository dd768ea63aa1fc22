------------------------------- MODULE RtSrv -------------------------------
(***************************************************************************)
(* The sender process of p2 (p2/source/rt_srv.c).  It gives its stream to    *)
(* the first client that asks, numbers the packets of a local application    *)
(* and keeps them in a window for as long as a resent packet could be of use. *)
(* A turn of its loop handles a packet of the application, a datagram of a   *)
(* client, or both in this order, and ends by sliding the window.           *)
(***************************************************************************)
EXTENDS RtNet

CONSTANT DefaultHalf   \* the half RTT before a client has told one

ASSUME SrvAssumption == DefaultHalf \in Nat

MAX_INT == 2147483647

VARIABLES
    Request,       \* a client has asked
    current_addr,  \* that client
    rcv_addr,      \* where datagrams go: the source of the last one
    seq,           \* number of the next packet
    head,          \* first packet of the window
    slide,         \* per slot, until when its packet makes sense
    srvWindow,     \* the packets kept
    srvNack,       \* rcv_pkt.nack, whatever was last received or copied there
    Halfrtt,
    srvReport,     \* next_report_time
    midTurn        \* a packet of the application handled, a datagram still to be

srvVars == <<Request, current_addr, rcv_addr, seq, head, slide, srvWindow,
             srvNack, Halfrtt, srvReport, midTurn>>

Package == [seq : Nat, ts : Nat, nack : NackArray]

SrvTypeOK ==
    /\ Request \in BOOLEAN
    /\ current_addr \in Clients
    /\ rcv_addr \in Clients
    /\ seq \in Nat
    /\ head \in 1..MAX_INT
    /\ slide \in [Slots -> Nat]
    /\ srvWindow \in [Slots -> Package]
    /\ srvNack \in NackArray
    /\ Halfrtt \in Nat
    /\ srvReport \in Nat
    /\ midTurn \in BOOLEAN

NoNack == [i \in 1..NACK_SIZE |-> -1]

\* The two arrays come from malloc, fresh from the system: zeros.
SrvInit ==
    /\ Request = FALSE
    /\ current_addr \in Clients
    /\ rcv_addr = current_addr
    /\ seq = 1
    /\ head = 1
    /\ slide = [s \in Slots |-> 0]
    /\ srvWindow = [s \in Slots |-> [seq |-> 0, ts |-> 0, nack |-> [i \in 1..NACK_SIZE |-> 0]]]
    /\ srvNack = NoNack
    /\ Halfrtt = DefaultHalf
    /\ srvReport = 0
    /\ midTurn = FALSE

ToCli(q, t, n, time) == [dst |-> q, type |-> t, seq |-> n, ts |-> time]

-----------------------------------------------------------------------------
(* Sliding the window *)

Expired(s, until, half) == now >= until[Slot(s)] + half

\* head moves to the first packet of the window that has not expired.  The window
\* moves along with it: if all have, head runs on until head + WINDOW_SIZE overflows.
Slid(until, half) ==
    LET fresh == {s \in head..(head + (WINDOW_SIZE - 1)) : ~Expired(s, until, half)}
    IN  IF head > MAX_INT - WINDOW_SIZE THEN head
        ELSE IF fresh = {} THEN MAX_INT - WINDOW_SIZE + 1
        ELSE CHOOSE s \in fresh : \A x \in fresh : s <= x

\* The end of a turn.
EndTurn ==
    /\ midTurn' = FALSE
    /\ head' = Slid(slide', Halfrtt')

-----------------------------------------------------------------------------
(* The actions *)

\* Mutant of Permit: every request is granted.
PermitAll(m) ==
    /\ m.type = REQUEST
    /\ toSrv' \in Consumed(toSrv, m)
    /\ Request' = TRUE
    /\ current_addr' = m.src /\ rcv_addr' = m.src
    /\ srvNack' = m.nack
    /\ SentToCli({ToCli(m.src, PERMIT, 0, now)})
    /\ UNCHANGED <<now, seq, head, slide, srvWindow, Halfrtt, srvReport, midTurn>>

\* The first request is granted, ten times.  Nothing else is read before that.
Permit(m) ==
    /\ ~Request /\ m.type = REQUEST
    /\ toSrv' \in Consumed(toSrv, m)
    /\ Request' = TRUE
    /\ current_addr' = m.src /\ rcv_addr' = m.src
    /\ srvNack' = m.nack
    /\ SentToCli({ToCli(m.src, PERMIT, 0, now)})
    /\ UNCHANGED <<now, seq, head, slide, srvWindow, Halfrtt, srvReport, midTurn>>

\* The packet of the application is longer than rcv_pkt.data by its header, and
\* memcpy writes its end over rcv_pkt.ack and the first two NACKs.
Spilled(nack, spill) == [i \in 1..NACK_SIZE |-> IF i <= 2 THEN spill[i] ELSE nack[i]]

\* A packet of the application is sent and kept, whatever is in its slot: when more than
\* WINDOW_SIZE packets come before the first of them has expired, they overrun the window.
App ==
    /\ Request /\ ~midTurn
    /\ seq <= MaxSeq /\ now <= AppTime
    /\ \E spill \in [1..2 -> Stale] : srvNack' = Spilled(srvNack, spill)
    /\ SentToCli({ToCli(rcv_addr, DATA, seq, now)})
    /\ srvWindow' = [srvWindow EXCEPT ![Slot(seq)] = [seq |-> seq, ts |-> now, nack |-> srvNack']]
    /\ slide' = [slide EXCEPT ![Slot(seq)] = now + Latency]
    /\ seq' = seq + 1
    /\ srvReport' = IF seq = 1 THEN now + Report_Interval ELSE srvReport
    /\ UNCHANGED <<toSrv, now, Request, current_addr, rcv_addr, Halfrtt>>
    /\ \/ EndTurn
       \/ toSrv # {} /\ midTurn' = TRUE /\ UNCHANGED head

\* Mutant of Resendable: head is not looked at.
ResendableBeforeHead(s) == s # -1 /\ slide[Slot(s)] >= now

\* A lost packet is resent while it can be in time.
Resendable(s) == s \in head..MAX_INT /\ slide[Slot(s)] >= now

\* The NACKs in rcv_pkt before and after each of them is looked at.  A packet to resend
\* is copied over rcv_pkt, the NACKs that are still to be looked at included.
NacksSeen(m) ==
    LET nack[i \in 0..NACK_SIZE] ==
          IF i = 0 THEN m.nack
          ELSE IF Resendable(nack[i - 1][i]) THEN srvWindow[Slot(nack[i - 1][i])].nack
          ELSE nack[i - 1]
    IN  nack

\* The answer to an ACK: an ACKACK, then the packets of its NACKs.
Answer(m) ==
    LET asked == {NacksSeen(m)[i - 1][i] : i \in 1..NACK_SIZE}
        kept == {srvWindow[Slot(s)] : s \in {s \in asked : Resendable(s)}}
    IN  {ToCli(m.src, ACKACK, 0, now)} \cup {ToCli(m.src, RESENT, k.seq, k.ts) : k \in kept}

RecvAck(m) ==
    /\ Request /\ m.type = ACK
    /\ toSrv' \in Consumed(toSrv, m)
    /\ rcv_addr' = m.src
    /\ Halfrtt' = m.half
    /\ srvNack' = NacksSeen(m)[NACK_SIZE]
    /\ SentToCli(Answer(m))
    /\ UNCHANGED <<now, Request, current_addr, seq, slide, srvWindow, srvReport>>
    /\ EndTurn

\* A request of another client is declined, one of the current client ignored.
RecvRequest(m) ==
    /\ Request /\ m.type = REQUEST
    /\ toSrv' \in Consumed(toSrv, m)
    /\ rcv_addr' = m.src
    /\ srvNack' = m.nack
    /\ SentToCli(IF m.src # current_addr THEN {ToCli(m.src, DECLINE, 0, now)} ELSE {})
    /\ UNCHANGED <<now, Request, current_addr, seq, slide, srvWindow, Halfrtt, srvReport>>
    /\ EndTurn

\* select() times out, or refuses a timeout that has passed.
SrvReport ==
    /\ seq > 1 /\ ~midTurn /\ now >= srvReport
    /\ srvReport' = srvReport + Report_Interval
    /\ UNCHANGED <<rtNetVars, Request, current_addr, rcv_addr, seq, slide, srvWindow,
                   srvNack, Halfrtt>>
    /\ EndTurn

SrvRecv(m) == Permit(m) \/ RecvAck(m) \/ RecvRequest(m)

SrvNext ==
    \/ \E m \in toSrv : SrvRecv(m)
    \/ App
    \/ SrvReport
=============================================================================
