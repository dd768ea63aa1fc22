---------------------------- MODULE RealtimeLink ----------------------------
(***************************************************************************)
(* The real-time link of Spines (daemon/realtime_udp.c).  The sending end    *)
(* keeps a packet for HISTORY_TIME at most, the receiving end asks once for  *)
(* each packet it finds missing, and resending is limited by tokens that     *)
(* new packets earn.  Both ends of a link do both; the two directions have   *)
(* nothing in common, and one of them is modelled: end 0 sends to end 1.     *)
(*                                                                         *)
(* Time: packets grow older than HISTORY_TIME in the order of their times.   *)
(***************************************************************************)
EXTENDS Integers, Sequences, FiniteSets

CONSTANTS
    MAX_HISTORY,      \* slots of a history
    MAX_BUCKET,       \* tokens that can be saved
    RT_RETRANSM_TOK,  \* tokens for resending a packet
    MaxNacks,         \* NACKs that fit into a packet
    RtPackets,        \* bound: packets sent
    RtNetCap,         \* bound: datagrams in flight each way
    RtDuplicate       \* whether the network may deliver a datagram twice

ASSUME RtLinkAssumption ==
    /\ MAX_HISTORY \in Nat \ {0}
    /\ MAX_BUCKET \in Nat /\ RT_RETRANSM_TOK \in Nat \ {0} /\ MaxNacks \in Nat
    /\ RtPackets \in Nat /\ RtNetCap \in Nat /\ RtDuplicate \in BOOLEAN

VARIABLES
    rt_head, rt_tail,  \* the packets rt_tail..rt_head-1 are kept
    rt_window,         \* each slot: the number of the packet it keeps, or RtNull
    retransm_buff,     \* the NACKs of the last NACK packet
    rt_retransm,       \* whether Send_RT_Retransm is queued
    bucket,            \* tokens
    rt_recv_head,      \* no packet from here on has been received
    rt_recv_tail,      \* packets below are not taken any more
    rt_recv_window,    \* each slot: whether it is marked, and the time of that
    rt_nack_buff,      \* packets to ask for
    rt_nack,           \* whether Send_RT_Nack is queued
    arrivals,          \* packets taken so far: the time at the receiving end
    expired,           \* times up to this are longer ago than HISTORY_TIME
    rt_data_net, rt_nack_net,  \* datagrams in flight: data, lists of NACKs
    rt_delivered       \* history: how often each packet was delivered

rtSendVars == <<rt_head, rt_tail, rt_window, retransm_buff, rt_retransm, bucket>>
rtRecvVars == <<rt_recv_head, rt_recv_tail, rt_recv_window, rt_nack_buff, rt_nack, arrivals,
                expired, rt_delivered>>
rtVars == <<rtSendVars, rtRecvVars, rt_data_net, rt_nack_net>>

RtNull == -1

RtSlot(n) == n % MAX_HISTORY

RtSlots == 0..(MAX_HISTORY - 1)

RtNumbers == 0..(RtPackets - 1)

Unmarked == [flag |-> FALSE, time |-> 0]

RtLinkTypeOK ==
    /\ rt_head \in Nat /\ rt_tail \in Nat /\ rt_recv_head \in Nat /\ rt_recv_tail \in Nat
    /\ rt_window \in [RtSlots -> RtNumbers \cup {RtNull}]
    /\ retransm_buff \in Seq(RtNumbers) /\ rt_nack_buff \in Seq(RtNumbers)
    /\ rt_retransm \in BOOLEAN /\ rt_nack \in BOOLEAN
    /\ bucket \in 0..MAX_BUCKET
    /\ rt_recv_window \in [RtSlots -> [flag : BOOLEAN, time : Nat]]
    /\ arrivals \in Nat /\ expired \in 0..arrivals
    /\ rt_data_net \subseteq RtNumbers /\ rt_nack_net \subseteq Seq(RtNumbers)
    /\ rt_delivered \in [RtNumbers -> Nat]

RtInit ==
    /\ rt_head = 0 /\ rt_tail = 0 /\ rt_recv_head = 0 /\ rt_recv_tail = 0
    /\ rt_window = [s \in RtSlots |-> RtNull]
    /\ retransm_buff = <<>> /\ rt_nack_buff = <<>>
    /\ rt_retransm = FALSE /\ rt_nack = FALSE
    /\ bucket = 0
    /\ rt_recv_window = [s \in RtSlots |-> Unmarked]
    /\ arrivals = 0 /\ expired = 0
    /\ rt_data_net = {} /\ rt_nack_net = {}
    /\ rt_delivered = [n \in RtNumbers |-> 0]

\* Datagrams are lost at will and when too many are under way.
RtSent(net, burst) ==
    {n \in {net \cup kept : kept \in SUBSET burst} : Cardinality(n) <= RtNetCap}

RtRead(net, m) == {net \ {m}} \cup (IF RtDuplicate THEN {net} ELSE {})

-----------------------------------------------------------------------------
(* The sending end *)

\* Clean_RT_history and the same loop elsewhere: packets below t are too old.
Cleaned(t) == [s \in RtSlots |-> IF rt_window[s] < t THEN RtNull ELSE rt_window[s]]

\* Mutant of ForwardRT: one packet too many may be kept.
ForwardRTKeepingOneMore ==
    /\ rt_head < RtPackets
    /\ \E t \in rt_tail..rt_head :
          /\ rt_tail' = IF rt_head - t > MAX_HISTORY THEN t + 1 ELSE t
          /\ rt_window' = [Cleaned(rt_tail') EXCEPT ![RtSlot(rt_head)] = rt_head]
    /\ rt_head' = rt_head + 1
    /\ bucket' = IF bucket < MAX_BUCKET THEN bucket + 1 ELSE bucket
    /\ rt_data_net' \in RtSent(rt_data_net, {rt_head})
    /\ UNCHANGED <<retransm_buff, rt_retransm, rtRecvVars, rt_nack_net>>

\* Forward_RT_UDP_Data: the oldest packet makes room where all others are recent.
ForwardRT ==
    /\ rt_head < RtPackets
    /\ \E t \in rt_tail..rt_head :
          /\ rt_tail' = IF rt_head - t >= MAX_HISTORY THEN t + 1 ELSE t
          /\ rt_window' = [Cleaned(rt_tail') EXCEPT ![RtSlot(rt_head)] = rt_head]
    /\ rt_head' = rt_head + 1
    /\ bucket' = IF bucket < MAX_BUCKET THEN bucket + 1 ELSE bucket
    /\ rt_data_net' \in RtSent(rt_data_net, {rt_head})
    /\ UNCHANGED <<retransm_buff, rt_retransm, rtRecvVars, rt_nack_net>>

\* Process_RT_nack_packet: NACKs not yet answered are replaced.
TakeNacks(m) ==
    /\ rt_nack_net' \in RtRead(rt_nack_net, m)
    /\ retransm_buff' = m
    /\ rt_retransm' = TRUE
    /\ UNCHANGED <<rt_head, rt_tail, rt_window, bucket, rtRecvVars, rt_data_net>>

\* Send_RT_Retransm: the packets asked for that are still kept are sent, up to the last one
\* that there are tokens for; a failing send ends it too.  Then the NACKs are forgotten.
SendRetransm ==
    /\ rt_retransm
    /\ rt_retransm' = FALSE
    /\ retransm_buff' = <<>>
    /\ \E t \in rt_tail..rt_head, last \in 0..Len(retransm_buff) :
          LET sent == {i \in 1..last : t <= retransm_buff[i] /\ retransm_buff[i] < rt_head}
              cost == Cardinality(sent) * RT_RETRANSM_TOK
          IN  /\ cost <= bucket
              /\ bucket' = bucket - cost
              /\ rt_tail' = t
              /\ rt_window' = Cleaned(t)
              /\ rt_data_net' \in
                    RtSent(rt_data_net, {Cleaned(t)[RtSlot(retransm_buff[i])] : i \in sent})
    /\ UNCHANGED <<rt_head, rtRecvVars, rt_nack_net>>

-----------------------------------------------------------------------------
(* The receiving end *)

Marked(n) == rt_recv_window[RtSlot(n)].flag

\* Times up to t are too old: the tail goes past the received packets in front, as long as
\* they are old; missing ones before them are given up.
AgedTo(t, tail) ==
    LET received == {n \in rt_recv_tail..(rt_recv_head - 1) : Marked(n)}
        recent == {n \in received : rt_recv_window[RtSlot(n)].time > t}
        passed == {n \in received : \A r \in recent : n < r}
    IN  /\ tail = rt_recv_tail \/ tail - 1 \in passed
        /\ \A n \in passed : n < tail

\* The slots of the packets a..b-1 are cleared.
Emptied(a, b) ==
    [s \in RtSlots |-> IF \E n \in a..(b - 1) : RtSlot(n) = s THEN Unmarked ELSE rt_recv_window[s]]

\* Of what lies between the head and packet n, as much as there is room for is asked for.
NacksUpTo(n) ==
    LET room == MaxNacks - Len(rt_nack_buff)
        asked == IF n - rt_recv_head < room THEN n - rt_recv_head ELSE room
    IN  rt_nack_buff \o [i \in 1..asked |-> rt_recv_head + i - 1]

\* Process_RT_UDP_data_packet: an old packet, or one marked already.
IgnoreRT(n) ==
    /\ n < rt_recv_tail \/ (n < rt_recv_head /\ Marked(n))
    /\ rt_data_net' \in RtRead(rt_data_net, n)
    /\ UNCHANGED <<rtSendVars, rtRecvVars, rt_nack_net>>

\* Mutant of TailFor: the history is taken for one packet longer than it is.
TailForLongerHistory(n, aged) ==
    IF n >= rt_recv_head /\ n - aged > MAX_HISTORY THEN n - MAX_HISTORY + 1 ELSE aged

\* The tail once packet n is in: further than by age where the history is too short.
TailFor(n, aged) ==
    IF n >= rt_recv_head /\ n - aged >= MAX_HISTORY THEN n - MAX_HISTORY + 1 ELSE aged

\* A packet is marked and delivered.  One that is ahead of all others moves the head.
TakeRT(n) ==
    /\ n >= rt_recv_tail /\ (n < rt_recv_head => ~Marked(n))
    /\ rt_data_net' \in RtRead(rt_data_net, n)
    /\ arrivals' = arrivals + 1
    /\ rt_delivered' = [rt_delivered EXCEPT ![n] = @ + 1]
    /\ expired' \in expired..arrivals
    /\ LET ahead == n >= rt_recv_head
           skipped == IF ahead THEN {RtSlot(k) : k \in rt_recv_head..(n - 1)} ELSE {}
       IN  /\ \E aged \in rt_recv_tail..rt_recv_head :
                 AgedTo(expired', aged) /\ rt_recv_tail' = TailFor(n, aged)
           /\ rt_recv_head' = IF ahead THEN n + 1 ELSE rt_recv_head
           /\ rt_recv_window' =
                 [[s \in RtSlots |-> IF s \in skipped THEN Unmarked
                                     ELSE Emptied(rt_recv_tail, rt_recv_tail')[s]]
                    EXCEPT ![RtSlot(n)] = [flag |-> TRUE, time |-> arrivals + 1]]
           /\ rt_nack_buff' = IF ahead THEN NacksUpTo(n) ELSE rt_nack_buff
           /\ rt_nack' = (rt_nack \/ (ahead /\ rt_nack_buff' # <<>>))
    /\ UNCHANGED <<rtSendVars, rt_nack_net>>

\* Send_RT_Nack.
SendNack ==
    /\ rt_nack
    /\ rt_nack' = FALSE
    /\ rt_nack_buff' = <<>>
    /\ rt_nack_net' \in RtSent(rt_nack_net, {rt_nack_buff})
    /\ UNCHANGED <<rtSendVars, rt_recv_head, rt_recv_tail, rt_recv_window, arrivals, expired,
                   rt_delivered, rt_data_net>>

RtNext ==
    \/ ForwardRT
    \/ SendRetransm
    \/ SendNack
    \/ \E m \in rt_nack_net : TakeNacks(m)
    \/ \E n \in rt_data_net : IgnoreRT(n) \/ TakeRT(n)

RtSpec == RtInit /\ [][RtNext]_rtVars

-----------------------------------------------------------------------------
(* Properties *)

\* The history has what it is asked for: a packet that is not too old for resending
\* is in its slot (realtime_udp.c:587 reads through the pointer unchecked).
HistoryHolds ==
    /\ rt_tail <= rt_head /\ rt_head - rt_tail <= MAX_HISTORY
    /\ \A n \in rt_tail..(rt_head - 1) : rt_window[RtSlot(n)] = n
    /\ \A s \in RtSlots : rt_window[s] # RtNull => rt_window[s] \in rt_tail..(rt_head - 1)

\* The receiving end's marks tell what was delivered, each packet once: a mark is not
\* left behind for the packet that uses the slot a history later.
MarksTell ==
    /\ rt_recv_tail <= rt_recv_head /\ rt_recv_head <= rt_recv_tail + MAX_HISTORY
    /\ \A n \in rt_recv_tail..(rt_recv_head - 1) : Marked(n) <=> rt_delivered[n] = 1
    /\ \A n \in RtNumbers : rt_delivered[n] <= 1
=============================================================================
