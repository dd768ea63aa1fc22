---------------------------- MODULE ReliableLink ----------------------------
(***************************************************************************)
(* The reliable link of Spines (daemon/reliable_datagram.c, reliable_udp.c): *)
(* a window of MAX_WINDOW packets in each direction, cumulative              *)
(* acknowledgements and NACKs that ride on the data, a retransmission timer, *)
(* and a congestion window.  The two ends of the link are 0 and 1.           *)
(*                                                                         *)
(* Time is left out: a timer that is set may expire at any moment, and a     *)
(* NACK may be repeated whenever one is allowed.  The congestion window is   *)
(* kept rounded up, which is all that head - tail is compared with.  The     *)
(* flag cong_flag is 1 throughout: only code in comments clears it           *)
(* (reliable_datagram.c:181).  Stream_Fairness is off (spines.c:684).        *)
(***************************************************************************)
EXTENDS Integers, Sequences, FiniteSets

CONSTANTS
    MAX_WINDOW,        \* slots of a window, and the largest congestion window
    Minimum_Window,
    TCP_Fairness,      \* whether the congestion window is used
    Fast_Retransmit,   \* whether a gap of one packet is enough for a NACK
    MAX_BUFF_LINK,     \* sessions are blocked when more messages are buffered ...
    RESUME_BUFF_LINK,  \* ... and resumed below this (a quarter of it in the code)
    Messages,          \* bound: messages each end sends
    NetCap,            \* bound: datagrams in flight to each end
    MayDuplicate       \* whether the network may deliver a datagram twice

Ends == {0, 1}

Peer(e) == 1 - e

ASSUME LinkAssumption ==
    /\ MAX_WINDOW \in Nat \ {0}
    /\ Minimum_Window \in 1..MAX_WINDOW
    /\ MAX_BUFF_LINK \in Nat /\ RESUME_BUFF_LINK \in 1..MAX_BUFF_LINK
    /\ Messages \in [Ends -> Nat]
    /\ NetCap \in [Ends -> Nat]
    /\ {TCP_Fairness, Fast_Retransmit, MayDuplicate} \subseteq BOOLEAN

VARIABLES
    flags,         \* per end: whether its link is connected
    seq_no,        \* number of the next message
    head, tail,    \* the packets tail..head-1 are sent and not acknowledged
    window,        \* each slot: the number of the packet it holds, or NULL
    window_size,   \* the congestion window, rounded up
    ssthresh,
    msg_buff,      \* messages for which the window has no room
    nack_buff,     \* numbers the other end asks for
    recv_tail,     \* all packets below have been received
    recv_head,     \* no packet from here on has been received
    recv_window,   \* each slot: "empty", "received" or "nack"
    scheduled_ack, \* whether Send_Ack is queued
    timer,         \* whether Reliable_timeout is queued (scheduled_timeout)
    retransm,      \* whether Send_Nack_Retransm is queued
    trySend,       \* whether Try_to_Send is queued
    blocked,       \* whether Link_Sessions_Blocked_On is this link
    net,           \* datagrams in flight to each end
    delivered      \* history: how often each packet of the other end was delivered

sendVars == <<flags, seq_no, head, window, msg_buff, blocked>>
recvVars == <<recv_tail, recv_head, delivered>>
congVars == <<window_size, ssthresh>>
vars == <<sendVars, recvVars, congVars, tail, nack_buff, recv_window, scheduled_ack, timer,
          retransm, trySend, net>>

NULL == -1

Slot(n) == n % MAX_WINDOW

Slots == 0..(MAX_WINDOW - 1)

Numbers(e) == 0..(Messages[e] - 1)

\* Data packets and pure acknowledgements; the latter have number 0, which is not used.
Datagram == [type : {"data", "ack"}, seq : Nat, ack : Nat, nacks : SUBSET Nat]

TypeOK ==
    /\ flags \in [Ends -> BOOLEAN]
    /\ seq_no \in [Ends -> Nat] /\ head \in [Ends -> Nat] /\ tail \in [Ends -> Nat]
    /\ window \in [Ends -> [Slots -> Nat \cup {NULL}]]
    /\ window_size \in [Ends -> Minimum_Window..MAX_WINDOW]
    /\ ssthresh \in [Ends -> Minimum_Window..MAX_WINDOW]
    /\ msg_buff \in [Ends -> Seq(Nat)]
    /\ nack_buff \in [Ends -> SUBSET Nat]
    /\ recv_tail \in [Ends -> Nat] /\ recv_head \in [Ends -> Nat]
    /\ recv_window \in [Ends -> [Slots -> {"empty", "received", "nack"}]]
    /\ scheduled_ack \in [Ends -> BOOLEAN] /\ timer \in [Ends -> BOOLEAN]
    /\ retransm \in [Ends -> BOOLEAN] /\ trySend \in [Ends -> BOOLEAN]
    /\ blocked \in [Ends -> BOOLEAN]
    /\ net \in [Ends -> SUBSET Datagram]
    /\ DOMAIN delivered = Ends
    /\ \A e \in Ends : delivered[e] \in [Numbers(Peer(e)) -> Nat]

Init ==
    /\ flags = [e \in Ends |-> FALSE]
    /\ seq_no = [e \in Ends |-> 0] /\ head = [e \in Ends |-> 0] /\ tail = [e \in Ends |-> 0]
    /\ window = [e \in Ends |-> [s \in Slots |-> NULL]]
    /\ window_size = [e \in Ends |-> IF TCP_Fairness THEN Minimum_Window ELSE MAX_WINDOW]
    /\ ssthresh = [e \in Ends |-> MAX_WINDOW]
    /\ msg_buff = [e \in Ends |-> <<>>]
    /\ nack_buff = [e \in Ends |-> {}]
    /\ recv_tail = [e \in Ends |-> 0] /\ recv_head = [e \in Ends |-> 0]
    /\ recv_window = [e \in Ends |-> [s \in Slots |-> "empty"]]
    /\ scheduled_ack = [e \in Ends |-> FALSE] /\ timer = [e \in Ends |-> FALSE]
    /\ retransm = [e \in Ends |-> FALSE] /\ trySend = [e \in Ends |-> FALSE]
    /\ blocked = [e \in Ends |-> FALSE]
    /\ net = [e \in Ends |-> {}]
    /\ delivered = [e \in Ends |-> [n \in Numbers(Peer(e)) |-> 0]]

-----------------------------------------------------------------------------
(* Sending *)

\* The datagrams of burst leave end e: each may be lost, and the network carries no
\* more than NetCap.
Sent(e, burst) ==
    \E kept \in SUBSET burst :
        /\ Cardinality(net[Peer(e)] \cup kept) <= NetCap[Peer(e)]
        /\ net' = [net EXCEPT ![Peer(e)] = @ \cup kept]

\* The packets end e misses and has not asked for yet: NACKs wait for two packets
\* behind the gap, or four, as the network may have reordered them.
Missing(e) ==
    {n \in recv_tail[e]..(recv_head[e] - 1) :
        /\ recv_window[e][Slot(n)] = "empty"
        /\ recv_head[e] - n > (IF Fast_Retransmit THEN 1 ELSE 3)}

\* The packets it has asked for and not got.
Asked(e) == {n \in recv_tail[e]..(recv_head[e] - 1) : recv_window[e][Slot(n)] = "nack"}

\* End e sends the datagrams of burst.  One of them carries all NACKs that are due:
\* new ones, and those sent long enough ago.
SendWithNacks(e, burst, carrier) ==
    \E again \in SUBSET Asked(e) :
        /\ Sent(e, {[m EXCEPT !.nacks = IF m = carrier THEN Missing(e) \cup again ELSE {}]
                       : m \in burst})
        /\ recv_window' = [recv_window EXCEPT ![e] =
              [s \in Slots |-> IF \E n \in Missing(e) : Slot(n) = s THEN "nack" ELSE @[s]]]

\* Mutant of Data: it acknowledges all that lies below the newest packet.
DataAckingHead(e, n) == [type |-> "data", seq |-> n, ack |-> recv_head[e], nacks |-> {}]

Data(e, n) == [type |-> "data", seq |-> n, ack |-> recv_tail[e], nacks |-> {}]

\* End e sends the data packets with these numbers, as many datagrams.  They bring
\* the acknowledgement that was to be sent.
SendData(e, numbers, first) ==
    /\ SendWithNacks(e, {Data(e, n) : n \in numbers}, Data(e, first))
    /\ scheduled_ack' = [scheduled_ack EXCEPT ![e] = FALSE]

\* Mutant of Admitted: the window is compared with < for <=.
AdmittedOneMore(e, k) ==
    LET room == window_size[e] - (head[e] - tail[e]) + 1
    IN  IF ~flags[e] \/ room <= 0 THEN 0 ELSE IF k < room THEN k ELSE room

\* How many of k waiting messages go into the window.
Admitted(e, k) ==
    LET room == window_size[e] - (head[e] - tail[e])
    IN  IF ~flags[e] \/ room <= 0 THEN 0 ELSE IF k < room THEN k ELSE room

\* Mutant of Blocking: sessions are resumed only when there was nothing new to send.
BlockingUntilIdle(e, queue, k) ==
    LET old == Len(msg_buff[e])
        pushed == Len(queue) > old /\ k < Len(queue)
        popped == old > 0 /\ k > 0
    IN  blocked' = [blocked EXCEPT ![e] =
            \/ pushed /\ Len(queue) - k > MAX_BUFF_LINK
            \/ @ /\ ~(popped /\ Len(queue) = old /\ k < old /\ old - k < RESUME_BUFF_LINK)]

\* Sessions are blocked by a message that stays in a full buffer, and resumed when
\* sending has drained it.
Blocking(e, queue, k) ==
    LET old == Len(msg_buff[e])
        pushed == Len(queue) > old /\ k < Len(queue)
        popped == old > 0 /\ k > 0
    IN  blocked' = [blocked EXCEPT ![e] =
            \/ pushed /\ Len(queue) - k > MAX_BUFF_LINK
            \/ @ /\ ~(popped /\ old - k < RESUME_BUFF_LINK)]

\* Of the messages in queue, those for which there is room are sent and the others
\* stay in the buffer.
SendMuch(e, queue) ==
    LET k == Admitted(e, Len(queue))
        numbers == {queue[i] : i \in 1..k}
    IN  /\ msg_buff' = [msg_buff EXCEPT ![e] = SubSeq(queue, k + 1, Len(queue))]
        /\ Blocking(e, queue, k)
        /\ head' = [head EXCEPT ![e] = @ + k]
        /\ window' = [window EXCEPT ![e] =
              [s \in Slots |-> IF \E n \in numbers : Slot(n) = s
                               THEN CHOOSE n \in numbers : Slot(n) = s ELSE @[s]]]
        /\ IF k = 0
           THEN UNCHANGED <<net, recv_window, scheduled_ack, timer>>
           ELSE /\ SendData(e, numbers, queue[1])
                /\ timer' = [timer EXCEPT ![e] = TRUE]

\* Reliable_Send_Msg: the buffered messages go first.
SendMsg(e) ==
    /\ seq_no[e] < Messages[e]
    /\ seq_no' = [seq_no EXCEPT ![e] = @ + 1]
    /\ SendMuch(e, Append(msg_buff[e], seq_no[e]))
    /\ UNCHANGED <<flags, recvVars, congVars, tail, nack_buff, retransm, trySend>>

TryToSend(e) ==
    /\ trySend[e]
    /\ trySend' = [trySend EXCEPT ![e] = FALSE]
    /\ SendMuch(e, msg_buff[e])
    /\ UNCHANGED <<flags, seq_no, recvVars, congVars, tail, nack_buff, retransm>>

\* Mutant of Connect: what was buffered waits for the next message.
ConnectSilently(e) ==
    /\ ~flags[e]
    /\ flags' = [flags EXCEPT ![e] = TRUE]
    /\ UNCHANGED <<seq_no, head, window, msg_buff, blocked, recvVars, congVars, tail, nack_buff,
                   recv_window, scheduled_ack, timer, retransm, trySend, net>>

\* The link becomes connected (hello.c), and what was buffered can go.
Connect(e) ==
    /\ ~flags[e]
    /\ flags' = [flags EXCEPT ![e] = TRUE]
    /\ trySend' = [trySend EXCEPT ![e] = TRUE]
    /\ UNCHANGED <<seq_no, head, window, msg_buff, blocked, recvVars, congVars, tail, nack_buff,
                   recv_window, scheduled_ack, timer, retransm, net>>

SendAck(e) ==
    /\ scheduled_ack[e]
    /\ scheduled_ack' = [scheduled_ack EXCEPT ![e] = FALSE]
    /\ LET m == [type |-> "ack", seq |-> 0, ack |-> recv_tail[e], nacks |-> {}]
       IN  SendWithNacks(e, {m}, m)
    /\ UNCHANGED <<sendVars, recvVars, congVars, tail, nack_buff, timer, retransm, trySend>>

AtLeast(a, b) == IF a < b THEN b ELSE a

AtMost(a, b) == IF a > b THEN b ELSE a

\* Half of a window between w - 1 and w, rounded down.
Halved(w) == {AtLeast((w - 1) \div 2, Minimum_Window), AtLeast(w \div 2, Minimum_Window)}

\* Reliable_timeout: the whole window is sent again and the congestion window starts
\* anew.  The timer runs only while packets are under way (TimerWhileUnderWay), so that
\* the return of line 717 is not taken.
Timeout(e) ==
    /\ timer[e]
    /\ IF TCP_Fairness
       THEN /\ \E h \in Halved(window_size[e]) : ssthresh' = [ssthresh EXCEPT ![e] = h]
            /\ window_size' = [window_size EXCEPT ![e] = Minimum_Window]
       ELSE UNCHANGED <<ssthresh, window_size>>
    /\ SendData(e, {window[e][Slot(n)] : n \in tail[e]..(head[e] - 1)}, window[e][Slot(tail[e])])
    /\ UNCHANGED <<sendVars, recvVars, tail, nack_buff, timer, retransm, trySend>>

\* Send_Nack_Retransm with nothing under way: the numbers stay in nack_buff.
NackRetransmIdle(e) ==
    /\ retransm[e] /\ head[e] = tail[e]
    /\ retransm' = [retransm EXCEPT ![e] = FALSE]
    /\ UNCHANGED <<sendVars, recvVars, congVars, tail, nack_buff, recv_window, scheduled_ack,
                   timer, trySend, net>>

\* What the window holds in the slots of the numbers asked for is sent again.  The
\* congestion window is halved.  When nothing is left to send, the acknowledgement
\* that was due is cancelled all the same.
NackRetransm(e) ==
    /\ retransm[e] /\ head[e] # tail[e]
    /\ retransm' = [retransm EXCEPT ![e] = FALSE]
    /\ nack_buff' = [nack_buff EXCEPT ![e] = {}]
    /\ IF TCP_Fairness
       THEN /\ \E h \in Halved(window_size[e]) : ssthresh' = [ssthresh EXCEPT ![e] = h]
            /\ window_size' = [window_size EXCEPT ![e] = AtLeast((@ + 1) \div 2, Minimum_Window)]
       ELSE UNCHANGED <<ssthresh, window_size>>
    /\ LET held == {window[e][Slot(n)] : n \in nack_buff[e]} \ {NULL}
       IN  IF held = {}
           THEN /\ scheduled_ack' = [scheduled_ack EXCEPT ![e] = FALSE]
                /\ UNCHANGED <<net, recv_window>>
           ELSE \E first \in held : SendData(e, held, first)
    /\ UNCHANGED <<sendVars, recvVars, tail, timer, trySend>>

-----------------------------------------------------------------------------
(* Receiving *)

\* Datagram m is read by end e; a copy may follow it.
ReadFrom(e, m) ==
    \E n \in {net[e] \ {m}} \cup (IF MayDuplicate THEN {net[e]} ELSE {}) :
        net' = [net EXCEPT ![e] = n]

\* Window sizes after k packets were acknowledged while others waited: slow start
\* below ssthresh, at most one more for each window above.
Grown(e, k) ==
    LET forced == AtMost(k, AtLeast(ssthresh[e] - window_size[e], 0))
    IN  {AtMost(window_size[e] + i, MAX_WINDOW) : i \in forced..k}

\* Packets tail..ack-1 have arrived.
Acknowledged(e, ack) ==
    /\ tail' = [tail EXCEPT ![e] = ack]
    /\ window' = [window EXCEPT ![e] =
          [s \in Slots |-> IF \E n \in tail[e]..(ack - 1) : Slot(n) = s THEN NULL ELSE @[s]]]
    /\ timer' = [timer EXCEPT ![e] = head[e] > ack]
    /\ IF msg_buff[e] = <<>>
       THEN UNCHANGED <<window_size, trySend>>
       ELSE /\ trySend' = [trySend EXCEPT ![e] = TRUE]
            /\ IF TCP_Fairness
               THEN \E w \in Grown(e, ack - tail[e]) :
                        window_size' = [window_size EXCEPT ![e] = w]
               ELSE UNCHANGED window_size

\* The first part of Process_Ack: the NACKs of m are noted and its acknowledgement
\* taken, unless it is of packets not yet sent.
TakeAck(e, m) ==
    /\ nack_buff' = [nack_buff EXCEPT ![e] = @ \cup m.nacks]
    /\ retransm' = [retransm EXCEPT ![e] = @ \/ m.nacks # {}]
    /\ IF tail[e] < m.ack /\ m.ack <= head[e]
       THEN Acknowledged(e, m.ack)
       ELSE UNCHANGED <<tail, window, timer, window_size, trySend>>
    /\ UNCHANGED <<flags, seq_no, head, msg_buff, blocked, ssthresh>>

\* Mutant of Fresh: an old packet whose slot is free passes for a new one.
FreshUnlessMarked(e, n) == recv_window[e][Slot(n)] # "received"

\* Packet n is neither below the receive window nor in it.
Fresh(e, n) == recv_window[e][Slot(n)] # "received" /\ n >= recv_tail[e]

\* Whether the slot of k is marked once packet n is in.
HasReceived(e, n, k) == Slot(k) = Slot(n) \/ recv_window[e][Slot(k)] = "received"

\* The second part of Process_Ack: packet n opens the receive window as far as there
\* are no gaps, and is delivered.
TakeData(e, n) ==
    LET newHead == AtLeast(recv_head[e], n + 1)
    IN  /\ recv_head' = [recv_head EXCEPT ![e] = newHead]
        /\ \E newTail \in recv_tail[e]..newHead :
              /\ \A k \in recv_tail[e]..(newTail - 1) : HasReceived(e, n, k)
              /\ newTail < newHead => ~HasReceived(e, n, newTail)
              /\ recv_tail' = [recv_tail EXCEPT ![e] = newTail]
              /\ recv_window' = [recv_window EXCEPT ![e] =
                    [s \in Slots |->
                        IF \E k \in recv_tail[e]..(newTail - 1) : Slot(k) = s THEN "empty"
                        ELSE IF s = Slot(n) THEN "received" ELSE @[s]]]
        /\ delivered' = [delivered EXCEPT ![e][n] = @ + 1]

\* A data packet is acknowledged even when it is old or from another incarnation.
ReceiveData(e, m) ==
    /\ flags[e] /\ m.type = "data"
    /\ ReadFrom(e, m)
    /\ TakeAck(e, m)
    /\ scheduled_ack' = [scheduled_ack EXCEPT ![e] = TRUE]
    /\ IF m.ack <= head[e] /\ Fresh(e, m.seq)
       THEN TakeData(e, m.seq)
       ELSE UNCHANGED <<recvVars, recv_window>>

ReceiveAck(e, m) ==
    /\ flags[e] /\ m.type = "ack"
    /\ ReadFrom(e, m)
    /\ TakeAck(e, m)
    /\ UNCHANGED <<recvVars, recv_window, scheduled_ack>>

\* Before the link is connected what comes in is dropped.
Drop(e, m) ==
    /\ ~flags[e]
    /\ ReadFrom(e, m)
    /\ UNCHANGED <<sendVars, recvVars, congVars, tail, nack_buff, recv_window, scheduled_ack,
                   timer, retransm, trySend>>

Receive(e, m) == ReceiveData(e, m) \/ ReceiveAck(e, m) \/ Drop(e, m)

EndNext(e) ==
    \/ Connect(e)
    \/ SendMsg(e)
    \/ TryToSend(e)
    \/ SendAck(e)
    \/ Timeout(e)
    \/ NackRetransmIdle(e)
    \/ NackRetransm(e)
    \/ \E m \in net[e] : Receive(e, m)

Next == \E e \in Ends : EndNext(e)

Spec == Init /\ [][Next]_vars

-----------------------------------------------------------------------------
(* Properties *)

\* The send window holds the packets under way and no others, each in its slot, and
\* the buffer the ones that follow: neither "Reliability failure" (line 1257) nor
\* "sending a packet with a smaller seq_no" (194, 445) can be reported.
SendWindowHolds ==
    \A e \in Ends :
        /\ tail[e] <= head[e] /\ head[e] - tail[e] <= MAX_WINDOW
        /\ \A n \in tail[e]..(head[e] - 1) : window[e][Slot(n)] = n
        /\ \A s \in Slots : window[e][s] # NULL => window[e][s] \in tail[e]..(head[e] - 1)
        /\ Len(msg_buff[e]) = seq_no[e] - head[e]
        /\ \A i \in 1..Len(msg_buff[e]) : msg_buff[e][i] = head[e] + i - 1

\* The slots of the receive window say what was delivered, each packet once: a slot
\* never stands for two packets.
ReceiveWindowHolds ==
    \A e \in Ends :
        /\ recv_tail[e] <= recv_head[e] /\ recv_head[e] <= recv_tail[e] + MAX_WINDOW
        /\ \A n \in Numbers(Peer(e)) :
              delivered[e][n] = IF \/ n < recv_tail[e]
                                   \/ n < recv_head[e] /\ recv_window[e][Slot(n)] = "received"
                                THEN 1 ELSE 0

\* The ends are in step: what one takes for delivered has been, and acknowledgements
\* and NACKs under way are of packets that were sent ("from another movie", 1222,
\* takes another incarnation).
EndsInStep ==
    \A e \in Ends :
        /\ tail[e] <= recv_tail[Peer(e)] /\ recv_head[Peer(e)] <= head[e]
        /\ \A m \in net[e] : /\ m.ack <= recv_tail[Peer(e)]
                             /\ \A n \in m.nacks : n < head[e]

\* Packets under way have a timer, so that none waits for an acknowledgement only.
TimerWhileUnderWay == \A e \in Ends : timer[e] <=> head[e] > tail[e]

\* Sessions are blocked only by a buffer that still has to drain: every way the
\* buffer gets short resumes them.
BlockedMeansFull == \A e \in Ends : blocked[e] => Len(msg_buff[e]) >= RESUME_BUFF_LINK

\* The link is a reliable channel.
Channel == INSTANCE ReliableChannel WITH
    accepted <- seq_no,
    known <- tail

ImplementsChannel == Channel!Spec

-----------------------------------------------------------------------------
(* Fairness: queued events are handled, datagrams are read, and what is sent again *)
(* and again arrives.                                                       *)

Fairness ==
    \A e \in Ends :
        /\ WF_vars(Connect(e)) /\ WF_vars(TryToSend(e))
        /\ WF_vars(NackRetransmIdle(e)) /\ WF_vars(NackRetransm(e))
        /\ \A n \in Numbers(e) :
              SF_vars(Timeout(e) /\ \E m \in net'[Peer(e)] : m.type = "data" /\ m.seq = n)
        /\ SF_vars(SendAck(e) /\ net'[Peer(e)] # net[Peer(e)])
        /\ \A n \in Numbers(Peer(e)) :
              WF_vars(\E m \in net[e] : m.seq = n /\ ReceiveData(e, m))
        /\ \A n \in 0..Messages[e] :
              WF_vars(\E m \in net[e] : m.ack = n /\ ReceiveAck(e, m))

FairSpec == Spec /\ Fairness

\* Every message handed to the link is delivered at the other end.
MessagesArrive ==
    \A e \in Ends : \A n \in Numbers(e) :
        (seq_no[e] > n) ~> (delivered[Peer(e)][n] = 1)
=============================================================================
