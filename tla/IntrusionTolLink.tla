-------------------------- MODULE IntrusionTolLink --------------------------
(***************************************************************************)
(* The intrusion-tolerant link of Spines (daemon/intrusion_tol_udp.c) with   *)
(* correct daemons at both ends, 0 and 1, which may crash and start again.   *)
(* Messages are cut into packets; an acknowledgement proves receipt by a     *)
(* digest of the nonces of all packets; each end has an incarnation and      *)
(* takes only packets that name both incarnations; pings, and the exchange   *)
(* of keys when there is cryptography, tell the ends of new incarnations.    *)
(*                                                                         *)
(* Abstracted: time (a queued event may happen at any moment, a NACK may be  *)
(* repeated when one is sent, rate limits only refuse, which is a loss);     *)
(* a packet carries one fragment; random numbers never repeat; the loss that *)
(* halves the congestion window may be noticed with any acknowledgement; the *)
(* dissemination layer's callbacks are the steps Forward_Intru_Tol_Data.     *)
(* Ordered_Delivery is on, as spines.conf:27 has it.                         *)
(***************************************************************************)
EXTENDS Integers, Sequences, FiniteSets

CONSTANTS
    MAX_SEND_ON_LINK,  \* slots of a window
    Msg_Per_SAA,       \* packets to receive before a pure acknowledgement is due
    Configurations,    \* the configurations to consider, [Crypto, Reintroduce, TCP_Fairness]
    FragmentsOf,       \* bound: for each, the messages of the ends, as numbers of fragments
    MaxRestarts,       \* bound: restarts of the ends
    ItNetCap,          \* bound: datagrams in flight to each end
    ItDuplicate        \* whether the network may deliver a datagram twice

ItEnds == {0, 1}

Types == {"data", "ping", "pong", "dh"}

Other(e) == 1 - e

ASSUME IntrusionTolAssumption ==
    /\ MAX_SEND_ON_LINK \in Nat \ {0} /\ Msg_Per_SAA \in Nat \ {0}
    /\ Configurations \subseteq [Crypto : BOOLEAN, Reintroduce : BOOLEAN, TCP_Fairness : BOOLEAN]
    /\ FragmentsOf \in [Configurations -> [ItEnds -> Seq(1..MAX_SEND_ON_LINK)]]
    /\ MaxRestarts \in Nat /\ ItNetCap \in [ItEnds -> Nat] /\ ItDuplicate \in BOOLEAN

VARIABLES
    it_conf,           \* Conf_IT_Link, the same at both ends (Conf_Hash)
    my_incarnation, ngbr_incarnation,
    dh_key,            \* the key of the link, that of two incarnations, or NoKey
    dh_pkt,            \* the key exchange packet, or NoPkt once dh_established
    send_dh,           \* whether Send_IT_DH is queued
    out_tail, tcp_head,  \* packets below are acknowledged, packets below were sent
    outgoing,          \* the packets from out_tail on
    out_nonce_digest,  \* each slot: the nonces of all packets up to the slot's
    nacked,            \* the packets asked for
    out_message,       \* message and fragment to be packed next, or NoMessage
    cwnd,              \* the congestion window, rounded down
    in_tail, in_head,  \* packets below are received, none from here on is
    incoming,          \* each slot: Empty, Nack or the packet received
    aru_nonce_digest,  \* the nonces of the packets below in_tail
    in_message,        \* the fragments of a message that is not complete
    incoming_msg_count,
    ack_timer, reliable_timer, retransm_timer,  \* whether these events are queued
    it_net,            \* datagrams in flight to each end
    next_message,      \* how many messages the end was given
    it_sent, it_got,   \* history: messages sent to and got from this neighbour incarnation
    blacklisted        \* history: whether Blacklist_Neighbor_IT was called

outVars == <<out_tail, tcp_head, outgoing, out_nonce_digest, out_message, cwnd>>
inVars == <<in_tail, in_head, incoming, aru_nonce_digest, in_message, it_got, blacklisted>>
incVars == <<my_incarnation, ngbr_incarnation>>
dhVars == <<dh_key, dh_pkt, send_dh>>
ackVars == <<incoming_msg_count, ack_timer>>
retransmVars == <<nacked, retransm_timer>>
upVars == <<next_message, it_sent>>
itVars == <<it_conf, outVars, inVars, incVars, dhVars, ackVars, retransmVars, reliable_timer,
            it_net, upVars>>

Empty == <<"empty">>
Nack == <<"nack">>
NoKey == <<>>
NoPkt == <<>>
NoMessage == <<>>

Fragments == FragmentsOf[it_conf]

ItSlot(n) == n % MAX_SEND_ON_LINK

ItSlots == 0..(MAX_SEND_ON_LINK - 1)

\* out_head_seq: the next packet to be put into the window.
OutHead(e) == out_tail[e] + Len(outgoing[e])

\* Whether end e can seal what it sends.
Ready(e) == it_conf.Crypto => dh_key[e] # NoKey

\* The key two incarnations agree on: each end has a secret of its incarnation.
KeyOf(e, mine, his) == IF e = 0 THEN <<mine, his>> ELSE <<his, mine>>

Fresh0 == [e \in ItEnds |-> 0]

Quiet == [e \in ItEnds |-> FALSE]

FirstCwnd == IF it_conf.TCP_Fairness THEN 1 ELSE MAX_SEND_ON_LINK

ItInit ==
    /\ it_conf \in Configurations
    /\ my_incarnation = [e \in ItEnds |-> 1] /\ ngbr_incarnation = Fresh0
    /\ dh_key = [e \in ItEnds |-> NoKey]
    /\ dh_pkt = [e \in ItEnds |-> IF it_conf.Crypto THEN [type |-> "dh", inc |-> 1, aru_inc |-> 0]
                                   ELSE NoPkt]
    /\ send_dh = [e \in ItEnds |-> it_conf.Crypto]
    /\ out_tail = [e \in ItEnds |-> 1] /\ tcp_head = [e \in ItEnds |-> 1]
    /\ outgoing = [e \in ItEnds |-> <<>>]
    /\ out_nonce_digest = [e \in ItEnds |-> [s \in ItSlots |-> {}]]
    /\ nacked = [e \in ItEnds |-> {}]
    /\ out_message = [e \in ItEnds |-> NoMessage]
    /\ cwnd = [e \in ItEnds |-> FirstCwnd]
    /\ in_tail = [e \in ItEnds |-> 1] /\ in_head = [e \in ItEnds |-> 1]
    /\ incoming = [e \in ItEnds |-> [s \in ItSlots |-> Empty]]
    /\ aru_nonce_digest = [e \in ItEnds |-> {}]
    /\ in_message = [e \in ItEnds |-> <<>>]
    /\ incoming_msg_count = [e \in ItEnds |-> Msg_Per_SAA - 1]
    /\ ack_timer = Quiet /\ reliable_timer = Quiet /\ retransm_timer = Quiet
    /\ it_net = [e \in ItEnds |-> {}]
    /\ next_message = Fresh0
    /\ it_sent = [e \in ItEnds |-> <<>>] /\ it_got = [e \in ItEnds |-> <<>>]
    /\ blacklisted = Quiet

-----------------------------------------------------------------------------
(* Sending *)

\* End e sends the datagrams of burst, of which any may be lost; left is what is still
\* under way to itself.  What is too much for the network crowds out what is under way.
Transmit(e, left, burst) ==
    LET flying == it_net[Other(e)]
        fits(n) == Cardinality(n) <= ItNetCap[Other(e)]
    IN  \E kept \in SUBSET burst :
            \E lost \in IF fits(flying \cup kept) THEN {{}} ELSE SUBSET flying :
                LET n == (flying \ lost) \cup kept
                IN  /\ fits(n)
                    /\ it_net' = [it_net EXCEPT ![e] = left, ![Other(e)] = n]

\* IT_Link_Send: nothing is sent as long as there is no key to seal it with.
ItSend(e, left, burst) == Transmit(e, left, IF Ready(e) THEN burst ELSE {})

\* A data packet, or an acknowledgement (number 0), with its tail, sealed with the key.
WithTail(e, n, packet, nacks) ==
    [type |-> "data", key |-> dh_key[e], inc |-> my_incarnation[e],
     aru_inc |-> ngbr_incarnation[e], seq |-> n, packet |-> packet,
     aru |-> in_tail[e] - 1, aru_nonce |-> aru_nonce_digest[e], nacks |-> nacks]

\* Mutant of Wanted: the first packet of the window is never asked for.
WantedBehindTail(e) ==
    {n \in (in_tail[e] + 1)..(in_head[e] - 1) : incoming[e][ItSlot(n)] = Nack}

\* Add_IT_Nacks: the packets that end e may ask for.
Wanted(e) == {n \in in_tail[e]..(in_head[e] - 1) : incoming[e][ItSlot(n)] = Nack}

\* Send_IT_Data_Msg for each of these numbers; window holds the packets from number tail
\* on.  One datagram brings the NACKs that are due, and they do for an acknowledgement.
\* If a packet was received in this step, counted is 1, and one may be due at once.
SendITData(e, left, tail, window, numbers, counted) ==
    \E nacks \in SUBSET Wanted(e) :
        LET asks == nacks # {} /\ Ready(e)
            count == (IF asks THEN 0 ELSE incoming_msg_count[e]) + counted
        IN  /\ numbers = {} => nacks = {}
            /\ \E first \in numbers \cup {0} :
                  /\ first = 0 <=> nacks = {}
                  /\ ItSend(e, left, {WithTail(e, n, window[n - tail + 1],
                                               IF n = first THEN nacks ELSE {}) : n \in numbers})
            /\ incoming_msg_count' = [incoming_msg_count EXCEPT ![e] =
                  IF count < Msg_Per_SAA THEN count ELSE Msg_Per_SAA]
            /\ ack_timer' = [ack_timer EXCEPT ![e] =
                  @ \/ asks \/ (counted = 1 /\ count >= Msg_Per_SAA)]

Xor(a, b) == (a \ b) \cup (b \ a)

\* Mutant of Digests: of each packet alone.
DigestsOfEach(digest, head, packets) ==
    LET at(s) == {i \in DOMAIN packets : ItSlot(head + i - 1) = s}
    IN  [s \in ItSlots |-> IF at(s) = {} THEN digest[s]
                           ELSE {packets[CHOOSE i \in at(s) : TRUE]}]

\* The digests when packets are put into the window from number head on.
Digests(digest, head, packets) ==
    LET at(s) == {i \in DOMAIN packets : ItSlot(head + i - 1) = s}
    IN  [s \in ItSlots |->
            IF at(s) = {} THEN digest[s]
            ELSE Xor(digest[ItSlot(head - 1)],
                     {packets[j] : j \in 1..(CHOOSE i \in at(s) : TRUE)})]

\* Pack_Fragments_Into_Packets_IT: the window, which begins with number tail, takes as
\* many fragments of the message as there is room for.  A packet is a fragment (message
\* and index) with a nonce, which is of the neighbour's incarnation.
Pack(e, tail, window, digest, message, inc) ==
    LET left == IF message = NoMessage THEN 0 ELSE Fragments[e][message[1]] - message[2] + 1
        room == MAX_SEND_ON_LINK - Len(window)
        k == IF left < room THEN left ELSE room
        new == [i \in 1..k |-> <<message[1], message[2] + i - 1, inc>>]
    IN  /\ outgoing' = [outgoing EXCEPT ![e] = window \o new]
        /\ out_nonce_digest' =
              [out_nonce_digest EXCEPT ![e] = Digests(digest, tail + Len(window), new)]
        /\ out_message' = [out_message EXCEPT ![e] =
              IF k = left THEN NoMessage ELSE <<message[1], message[2] + k>>]

\* What the congestion window allows to send beyond what was sent.
Allowed(e, tail, length, window) ==
    tcp_head[e]..((IF length < window THEN tail + length ELSE tail + window) - 1)

\* Forward_Intru_Tol_Data: the dissemination layer sends when there is room in the window.
ForwardIT(e) ==
    /\ next_message[e] < Len(Fragments[e])
    /\ Len(outgoing[e]) < MAX_SEND_ON_LINK
    /\ LET m == next_message[e] + 1
       IN  /\ next_message' = [next_message EXCEPT ![e] = m]
           /\ it_sent' = [it_sent EXCEPT ![e] = Append(@, m)]
           /\ Pack(e, out_tail[e], outgoing[e], out_nonce_digest[e], <<m, 1>>, ngbr_incarnation[e])
    /\ LET new == Allowed(e, out_tail[e], Len(outgoing'[e]), cwnd[e])
       IN  /\ tcp_head' = [tcp_head EXCEPT ![e] = @ + Cardinality(new)]
           /\ SendITData(e, it_net[e], out_tail[e], outgoing'[e], new, 0)
           /\ reliable_timer' = [reliable_timer EXCEPT ![e] = @ \/ (new # {} /\ Ready(e))]
    /\ UNCHANGED <<it_conf, out_tail, cwnd, inVars, incVars, dhVars, retransmVars>>

\* Ack_IT_Timeout: what came in since the last acknowledgement is acknowledged.
AckITTimeout(e) ==
    /\ ack_timer[e]
    /\ ack_timer' = [ack_timer EXCEPT ![e] = incoming_msg_count[e] > 0]
    /\ incoming_msg_count' = [incoming_msg_count EXCEPT ![e] =
          IF @ = 0 THEN Msg_Per_SAA - 1 ELSE 0]
    /\ IF incoming_msg_count[e] = 0
       THEN UNCHANGED it_net
       ELSE \E nacks \in SUBSET Wanted(e) :
                ItSend(e, it_net[e], {WithTail(e, 0, Empty, nacks)})
    /\ UNCHANGED <<it_conf, outVars, inVars, incVars, dhVars, retransmVars, reliable_timer, upVars>>

\* Reliable_IT_Timeout: the last packet sent is sent again, until all are acknowledged.
ReliableITTimeout(e) ==
    /\ reliable_timer[e]
    /\ LET sent == tcp_head[e] > out_tail[e]
       IN  /\ reliable_timer' = [reliable_timer EXCEPT ![e] = sent]
           /\ SendITData(e, it_net[e], out_tail[e], outgoing[e],
                         IF sent THEN {tcp_head[e] - 1} ELSE {}, 0)
    /\ UNCHANGED <<it_conf, outVars, inVars, incVars, dhVars, retransmVars, upVars>>

\* Handle_IT_Retransm with the packets asked for among tail..head-1: those whose time has
\* come are sent again, until this and other links have sent Send_Batch_Size of them;
\* then the event is queued again.
Resend(e, tail, head, asked, resent) ==
    /\ nacked' = [nacked EXCEPT ![e] = asked \ resent]
    /\ \E through \in tail..head :
          /\ \A n \in resent : n < through
          /\ retransm_timer' = [retransm_timer EXCEPT ![e] = through < head]

HandleITRetransm(e) ==
    /\ retransm_timer[e]
    /\ \E resent \in SUBSET nacked[e] :
          /\ Resend(e, out_tail[e], tcp_head[e], nacked[e], resent)
          /\ SendITData(e, it_net[e], out_tail[e], outgoing[e], resent, 0)
          /\ reliable_timer' = [reliable_timer EXCEPT ![e] = @ \/ (resent # {} /\ Ready(e))]
    /\ UNCHANGED <<it_conf, outVars, inVars, incVars, dhVars, upVars>>

Ping(e, type) ==
    [type |-> type, key |-> dh_key[e], inc |-> my_incarnation[e], aru_inc |-> ngbr_incarnation'[e]]

\* Ping_IT_Timeout.
PingITTimeout(e) ==
    /\ UNCHANGED <<it_conf, outVars, inVars, incVars, dhVars, ackVars, retransmVars,
                   reliable_timer, upVars>>
    /\ ItSend(e, it_net[e], {Ping(e, "ping")})

\* Send_IT_DH: until the other end is known to have the key.  It is not sealed.
SendITDH(e) ==
    /\ send_dh[e]
    /\ send_dh' = [send_dh EXCEPT ![e] = dh_pkt[e] # NoPkt]
    /\ Transmit(e, it_net[e], IF dh_pkt[e] = NoPkt THEN {} ELSE {dh_pkt[e]})
    /\ UNCHANGED <<it_conf, outVars, inVars, incVars, dh_key, dh_pkt, ackVars, retransmVars,
                   reliable_timer, upVars>>

-----------------------------------------------------------------------------
(* Receiving *)

\* What is left when end e reads datagram m.
Left(e, m) == {it_net[e] \ {m}} \cup (IF ItDuplicate THEN {it_net[e]} ELSE {})

\* Preprocess_intru_tol_packet: with cryptography only what is sealed with the link's
\* key is taken, apart from key exchange packets.
Unlocks(e, m) == m.type # "dh" /\ Ready(e) /\ m.key = dh_key[e]

\* DH_established: the other end has the key.
Established(e) ==
    /\ dh_pkt' = [dh_pkt EXCEPT ![e] = NoPkt]
    /\ UNCHANGED <<dh_key, send_dh>>

\* Mutant of SameIncarnations: only that of the sender is compared.
SameIncarnationOfSender(e, m) == m.inc = ngbr_incarnation[e]

\* Both incarnations are the current ones.
SameIncarnations(e, m) ==
    m.inc = ngbr_incarnation[e] /\ m.aru_inc = my_incarnation[e]

\* The acknowledgement is of packets that are sent and not acknowledged.
Acks(e, m) == out_tail[e] <= m.aru /\ m.aru < tcp_head[e]

\* It is refused, with all the rest of the packet, when it does not prove receipt.
Proves(e, m) == Acks(e, m) => m.aru_nonce = out_nonce_digest[e][ItSlot(m.aru)]

\* The congestion window after an acknowledgement of so many packets: one more for each in
\* slow start, sometimes one more in congestion avoidance, from half of it and three when a
\* loss is resolved.
NextCwnds(e, acked) ==
    IF ~it_conf.TCP_Fairness THEN {cwnd[e]}
    ELSE {IF w + g < MAX_SEND_ON_LINK THEN w + g ELSE MAX_SEND_ON_LINK :
             w \in {cwnd[e], cwnd[e] \div 2 + 3, 5}, g \in 0..acked}

\* Build_Message_From_Fragments_IT for one packet: acc is the fragments so far, the
\* messages delivered and whether a fragment was not the next one.
Build(e, acc, packet) ==
    LET total(p) == Fragments[Other(e)][p[1]]
        parts == Append(acc.parts, packet)
    IN  IF packet[2] # Len(parts) \/ total(parts[1]) # total(packet)
        THEN [acc EXCEPT !.bad = TRUE]
        ELSE IF packet[2] = total(packet)
             THEN [acc EXCEPT !.parts = <<>>,
                              !.got = Append(@, [i \in DOMAIN parts |-> parts[i][1]])]
             ELSE [acc EXCEPT !.parts = parts]

\* The same for packets in order.
Built(e, packets) ==
    LET built[i \in 0..Len(packets)] ==
            IF i = 0 THEN [parts |-> in_message[e], got |-> it_got[e], bad |-> blacklisted[e]]
                     ELSE Build(e, built[i - 1], packets[i])
    IN  built[Len(packets)]

\* Mutant of TakesPacket: a packet below the window is taken for a later one.
TakesPacketUnlessThere(e, m) ==
    /\ m.seq < in_tail[e] + MAX_SEND_ON_LINK
    /\ incoming[e][ItSlot(m.seq)] \in {Empty, Nack}

\* A packet that is below the window, beyond it or there already is not taken.
TakesPacket(e, m) ==
    /\ in_tail[e] <= m.seq /\ m.seq < in_tail[e] + MAX_SEND_ON_LINK
    /\ incoming[e][ItSlot(m.seq)] \in {Empty, Nack}

\* The last part of Process_IT_Ack: packet m is stored, gaps before it are marked to be
\* asked for, and what is in order is delivered.
TakePacket(e, m) ==
    LET cells == [s \in ItSlots |->
                     IF s = ItSlot(m.seq) THEN m.packet
                     ELSE IF \E n \in in_head[e]..(m.seq - 1) : ItSlot(n) = s THEN Nack
                     ELSE incoming[e][s]]
        has(n) == n < in_tail[e] + MAX_SEND_ON_LINK /\ cells[ItSlot(n)] \notin {Empty, Nack}
        tail == CHOOSE t \in in_tail[e]..(in_tail[e] + MAX_SEND_ON_LINK) :
                    ~has(t) /\ \A n \in in_tail[e]..(t - 1) : has(n)
        passed == [i \in 1..(tail - in_tail[e]) |-> cells[ItSlot(in_tail[e] + i - 1)]]
        built == Built(e, passed)
    IN  /\ in_tail' = [in_tail EXCEPT ![e] = tail]
        /\ in_head' = [in_head EXCEPT ![e] = IF m.seq < @ THEN @ ELSE m.seq + 1]
        /\ incoming' = [incoming EXCEPT ![e] =
              [s \in ItSlots |-> IF \E n \in in_tail[e]..(tail - 1) : ItSlot(n) = s
                                 THEN Empty ELSE cells[s]]]
        /\ aru_nonce_digest' = [aru_nonce_digest EXCEPT ![e] =
              Xor(@, {passed[i] : i \in DOMAIN passed})]
        /\ in_message' = [in_message EXCEPT ![e] = built.parts]
        /\ it_got' = [it_got EXCEPT ![e] = built.got]
        /\ blacklisted' = [blacklisted EXCEPT ![e] = built.bad]

\* The first part of Process_IT_Ack: an acknowledgement frees packets and lets others of
\* the window be sent; then the message of which a part waits outside is packed, to be
\* sent another time.  Packets asked for are sent again, unless that is queued already.
TakeITAck(e, m) ==
    LET acks == Acks(e, m)
        tail == IF acks THEN m.aru + 1 ELSE out_tail[e]
        window == SubSeq(outgoing[e], tail - out_tail[e] + 1, Len(outgoing[e]))
    IN  /\ out_tail' = [out_tail EXCEPT ![e] = tail]
        /\ IF acks
           THEN /\ \E c \in NextCwnds(e, tail - out_tail[e]) : cwnd' = [cwnd EXCEPT ![e] = c]
                /\ Pack(e, tail, window, out_nonce_digest[e], out_message[e], ngbr_incarnation[e])
           ELSE UNCHANGED <<cwnd, outgoing, out_nonce_digest, out_message>>
        /\ LET new == IF acks THEN Allowed(e, tail, Len(window), cwnd'[e]) ELSE {}
               head == tcp_head[e] + Cardinality(new)
               asked == (nacked[e] \cup m.nacks) \cap tail..(head - 1)
               runs == m.nacks # {} /\ ~retransm_timer[e]
           IN  /\ tcp_head' = [tcp_head EXCEPT ![e] = head]
               /\ \E resent \in (IF runs THEN SUBSET (asked \ new) ELSE {{}}) :
                     /\ IF runs
                        THEN Resend(e, tail, head, asked, resent)
                        ELSE nacked' = [nacked EXCEPT ![e] = asked] /\ UNCHANGED retransm_timer
                     /\ \E left \in Left(e, m) :
                           SendITData(e, left, tail, window, new \cup resent,
                                      IF m.seq > 0 THEN 1 ELSE 0)
                     /\ reliable_timer' = [reliable_timer EXCEPT ![e] =
                           @ \/ dh_pkt[e] # NoPkt \/ new \cup resent # {}]

\* Process_intru_tol_data_packet and Process_intru_tol_ack_packet.
ProcessITPacket(e, m) ==
    /\ m.type = "data" /\ Unlocks(e, m) /\ SameIncarnations(e, m) /\ Proves(e, m)
    /\ TakeITAck(e, m)
    /\ IF m.seq > 0 /\ TakesPacket(e, m) THEN TakePacket(e, m) ELSE UNCHANGED inVars
    /\ Established(e)
    /\ UNCHANGED <<it_conf, incVars, upVars>>

\* What of a list is in a set.
Among(list, set) ==
    LET kept[i \in 0..Len(list)] ==
            IF i = 0 THEN <<>>
            ELSE IF list[i] \in set THEN Append(kept[i - 1], list[i]) ELSE kept[i - 1]
    IN  kept[Len(list)]

\* Incarnation_Change: nothing is kept of what came from the old incarnation.  What was
\* to be sent is given up or, with Reintroduce_Messages, sent again from the first
\* packet in the window that begins a message.
IncarnationChange(e, inc) ==
    LET starts == {i \in DOMAIN outgoing[e] : outgoing[e][i][2] = 1}
        skipped == IF starts = {} THEN Len(outgoing[e])
                   ELSE (CHOOSE i \in starts : \A j \in starts : i <= j) - 1
        window == [i \in 1..(Len(outgoing[e]) - skipped) |->
                      [outgoing[e][skipped + i] EXCEPT ![3] = inc]]
        digest == [s \in ItSlots |->
                      IF s = 0 \/ \E n \in in_tail[e]..(in_head[e] - 1) : ItSlot(n) = s
                      THEN {} ELSE out_nonce_digest[e][s]]
        waiting == {window[i][1] : i \in DOMAIN window}
                      \cup (IF out_message[e] = NoMessage THEN {} ELSE {out_message[e][1]})
    IN  /\ ngbr_incarnation' = [ngbr_incarnation EXCEPT ![e] = inc]
        /\ in_tail' = [in_tail EXCEPT ![e] = 1] /\ in_head' = [in_head EXCEPT ![e] = 1]
        /\ incoming' = [incoming EXCEPT ![e] = [s \in ItSlots |-> Empty]]
        /\ aru_nonce_digest' = [aru_nonce_digest EXCEPT ![e] = {}]
        /\ in_message' = [in_message EXCEPT ![e] = <<>>]
        /\ it_got' = [it_got EXCEPT ![e] = <<>>]
        /\ out_tail' = [out_tail EXCEPT ![e] = 1]
        /\ nacked' = [nacked EXCEPT ![e] = {}]
        /\ cwnd' = [cwnd EXCEPT ![e] = FirstCwnd]
        /\ IF it_conf.Reintroduce
           THEN /\ tcp_head' = [tcp_head EXCEPT ![e] = IF window = <<>> THEN 1 ELSE 2]
                /\ it_sent' = [it_sent EXCEPT ![e] = Among(@, waiting)]
                /\ Pack(e, 1, window, Digests(digest, 1, window), out_message[e], inc)
           ELSE /\ tcp_head' = [tcp_head EXCEPT ![e] = 1]
                /\ it_sent' = [it_sent EXCEPT ![e] = <<>>]
                /\ outgoing' = [outgoing EXCEPT ![e] = <<>>]
                /\ out_nonce_digest' = [out_nonce_digest EXCEPT ![e] = digest]
                /\ out_message' = [out_message EXCEPT ![e] = NoMessage]
        /\ UNCHANGED <<it_conf, my_incarnation, blacklisted, retransm_timer, ackVars, next_message>>

\* Process_intru_tol_ping: a new incarnation is noticed, and a ping answered unless its
\* sender knows of a later incarnation of this end.
ProcessITPing(e, m) ==
    /\ m.type \in {"ping", "pong"} /\ Unlocks(e, m) /\ m.inc >= ngbr_incarnation[e]
    /\ IF m.inc > ngbr_incarnation[e]
       THEN /\ IncarnationChange(e, m.inc)
            /\ reliable_timer' = [reliable_timer EXCEPT ![e] = TRUE]
       ELSE /\ UNCHANGED <<it_conf, outVars, inVars, incVars, ackVars, retransmVars, upVars>>
            /\ reliable_timer' = [reliable_timer EXCEPT ![e] = @ \/ dh_pkt[e] # NoPkt]
    /\ \E left \in Left(e, m) :
          ItSend(e, left, IF m.type = "ping" /\ m.aru_inc <= my_incarnation[e]
                          THEN {Ping(e, "pong")} ELSE {})
    /\ Established(e)

KeyExchange(e) == [type |-> "dh", inc |-> my_incarnation[e], aru_inc |-> ngbr_incarnation[e]]

\* Mutant of ProcessITDH: the exchange begun here is not queued for sending.
ProcessITDHSilently(e, m) ==
    /\ m.type = "dh" /\ m.inc > ngbr_incarnation[e] /\ m.aru_inc <= my_incarnation[e]
    /\ dh_pkt' = [dh_pkt EXCEPT ![e] = IF dh_key[e] = NoKey THEN @ ELSE KeyExchange(e)]
    /\ dh_key' = [dh_key EXCEPT ![e] = KeyOf(e, my_incarnation[e], m.inc)]
    /\ IncarnationChange(e, m.inc)
    /\ \E left \in Left(e, m) : Transmit(e, left, {})
    /\ UNCHANGED <<send_dh, reliable_timer>>

\* Process_DH_IT: the key of both incarnations is computed, after an exchange was begun
\* here too if the last one is over (Key_Exchange_IT).
ProcessITDH(e, m) ==
    /\ m.type = "dh" /\ m.inc > ngbr_incarnation[e] /\ m.aru_inc <= my_incarnation[e]
    /\ IF dh_key[e] = NoKey
       THEN UNCHANGED <<dh_pkt, send_dh>>
       ELSE /\ dh_pkt' = [dh_pkt EXCEPT ![e] = KeyExchange(e)]
            /\ send_dh' = [send_dh EXCEPT ![e] = TRUE]
    /\ dh_key' = [dh_key EXCEPT ![e] = KeyOf(e, my_incarnation[e], m.inc)]
    /\ IncarnationChange(e, m.inc)
    /\ \E left \in Left(e, m) : Transmit(e, left, {})
    /\ UNCHANGED reliable_timer

\* Anything else is dropped.
DropIT(e, m) ==
    /\ CASE m.type = "data" -> ~(Unlocks(e, m) /\ SameIncarnations(e, m) /\ Proves(e, m))
         [] m.type = "dh" -> ~(m.inc > ngbr_incarnation[e] /\ m.aru_inc <= my_incarnation[e])
         [] OTHER -> ~(Unlocks(e, m) /\ m.inc >= ngbr_incarnation[e])
    /\ \E left \in Left(e, m) : Transmit(e, left, {})
    /\ UNCHANGED <<it_conf, outVars, inVars, incVars, dhVars, ackVars, retransmVars,
                   reliable_timer, upVars>>

-----------------------------------------------------------------------------
\* The daemon of end e dies and is started again: Create_Link, at a later second.
Restart(e) ==
    /\ my_incarnation[0] + my_incarnation[1] < 2 + MaxRestarts
    /\ my_incarnation' = [my_incarnation EXCEPT ![e] = @ + 1]
    /\ ngbr_incarnation' = [ngbr_incarnation EXCEPT ![e] = 0]
    /\ dh_key' = [dh_key EXCEPT ![e] = NoKey]
    /\ send_dh' = [send_dh EXCEPT ![e] = it_conf.Crypto]
    /\ dh_pkt' = [dh_pkt EXCEPT ![e] =
          IF it_conf.Crypto THEN [KeyExchange(e) EXCEPT !.inc = @ + 1, !.aru_inc = 0] ELSE NoPkt]
    /\ out_tail' = [out_tail EXCEPT ![e] = 1] /\ tcp_head' = [tcp_head EXCEPT ![e] = 1]
    /\ outgoing' = [outgoing EXCEPT ![e] = <<>>]
    /\ out_nonce_digest' = [out_nonce_digest EXCEPT ![e] = [s \in ItSlots |-> {}]]
    /\ nacked' = [nacked EXCEPT ![e] = {}]
    /\ out_message' = [out_message EXCEPT ![e] = NoMessage]
    /\ cwnd' = [cwnd EXCEPT ![e] = FirstCwnd]
    /\ in_tail' = [in_tail EXCEPT ![e] = 1] /\ in_head' = [in_head EXCEPT ![e] = 1]
    /\ incoming' = [incoming EXCEPT ![e] = [s \in ItSlots |-> Empty]]
    /\ aru_nonce_digest' = [aru_nonce_digest EXCEPT ![e] = {}]
    /\ in_message' = [in_message EXCEPT ![e] = <<>>]
    /\ incoming_msg_count' = [incoming_msg_count EXCEPT ![e] = Msg_Per_SAA - 1]
    /\ ack_timer' = [ack_timer EXCEPT ![e] = FALSE]
    /\ reliable_timer' = [reliable_timer EXCEPT ![e] = FALSE]
    /\ retransm_timer' = [retransm_timer EXCEPT ![e] = FALSE]
    /\ it_sent' = [it_sent EXCEPT ![e] = <<>>] /\ it_got' = [it_got EXCEPT ![e] = <<>>]
    /\ blacklisted' = [blacklisted EXCEPT ![e] = FALSE]
    /\ UNCHANGED <<it_conf, it_net, next_message>>

ItEndNext(e) ==
    \/ ForwardIT(e)
    \/ AckITTimeout(e)
    \/ ReliableITTimeout(e)
    \/ HandleITRetransm(e)
    \/ PingITTimeout(e)
    \/ SendITDH(e)
    \/ \E m \in it_net[e] :
          ProcessITPacket(e, m) \/ ProcessITPing(e, m) \/ ProcessITDH(e, m) \/ DropIT(e, m)
    \/ Restart(e)

ItNext == \E e \in ItEnds : ItEndNext(e)

ItSpec == ItInit /\ [][ItNext]_itVars

-----------------------------------------------------------------------------
(* Properties *)

\* The window holds the packets that are not acknowledged, sent ones first, and a message
\* waits outside it only when it is full: Forward_Intru_Tol_Data never finds one there
\* ("out_message is not NULL!", 1087), and Send_IT_Data_Msg no number out of the
\* window, which it would report (1757) and send all the same.
ItWindowHolds ==
    \A e \in ItEnds :
        /\ out_tail[e] <= tcp_head[e] /\ tcp_head[e] <= OutHead(e)
        /\ Len(outgoing[e]) <= MAX_SEND_ON_LINK
        /\ out_message[e] # NoMessage => Len(outgoing[e]) = MAX_SEND_ON_LINK
        /\ nacked[e] \subseteq out_tail[e]..(tcp_head[e] - 1)
        /\ in_tail[e] <= in_head[e] /\ in_head[e] <= in_tail[e] + MAX_SEND_ON_LINK
        /\ \A s \in ItSlots :
              incoming[e][s] # Empty <=> \E n \in in_tail[e]..(in_head[e] - 1) : ItSlot(n) = s
        /\ incoming[e][ItSlot(in_tail[e])] # Empty => incoming[e][ItSlot(in_tail[e])] = Nack

\* Both ends have agreed on their incarnations.
Paired ==
    \A e \in ItEnds : ngbr_incarnation[e] = my_incarnation[Other(e)]

\* An acknowledgement of the current incarnations always proves receipt: no restart
\* leaves the two digests different ("each packet acknowledgement must provide evidence",
\* DOC_Intrusion_Tolerance.txt:21), or the link would be stuck.
AcksProve ==
    \A e \in ItEnds : \A m \in it_net[e] :
        m.type = "data" /\ SameIncarnations(e, m) => Proves(e, m)

\* Between the two incarnations messages are delivered whole, in order and once, and
\* nothing of other incarnations; a correct neighbour is never found to misbehave
\* (Blacklist_Neighbor_IT).
ItDeliversInOrder ==
    /\ \A e \in ItEnds : ~blacklisted[e]
    /\ Paired =>
        \A e \in ItEnds :
            /\ Len(it_got[e]) <= Len(it_sent[Other(e)])
            /\ \A i \in DOMAIN it_got[e] :
                  /\ Len(it_got[e][i]) = Fragments[Other(e)][it_sent[Other(e)][i]]
                  /\ \A j \in DOMAIN it_got[e][i] : it_got[e][i][j] = it_sent[Other(e)][i]

\* While its own key exchange is not over an end goes on sending it: Process_DH_IT does
\* not exit for "send event should be queued" (1010), and no end waits for ever for a
\* packet the other has stopped sending.
KeyExchangeGoesOn == \A e \in ItEnds : dh_pkt[e] # NoPkt => send_dh[e]

\* "only re-enqueue this if we had something to send; otherwise, we have nothing to
\* send" (intrusion_tol_udp.c:2653): between paired ends the timer is off only when the
\* window is empty.
TimerOffMeansNothingToSend ==
    \A e \in ItEnds : Paired /\ Ready(e) /\ ~reliable_timer[e] => outgoing[e] = <<>>

-----------------------------------------------------------------------------
(* Fairness: what is sent again and again arrives, datagrams are read, and what an     *)
(* acknowledgement asks for again and again is sent, as its waiting time passes.        *)

\* Packet n, sent by end e, is under way when this step is over.
UnderWay(e, n) == \E m \in it_net'[Other(e)] : m.type = "data" /\ m.seq = n

\* End e takes packet n, or a NACK for packet n.
Takes(e, n) == \E m \in it_net[e] : m.type = "data" /\ m.seq = n /\ ProcessITPacket(e, m)
TakesNack(e, n) ==
    \E m \in it_net[e] : m.type = "data" /\ n \in m.nacks /\ ProcessITPacket(e, m)

\* End e sends packet n because it is asked for.
SendsAgain(e, n) == (HandleITRetransm(e) \/ TakesNack(e, n)) /\ UnderWay(e, n)

ItSenders == {e \in ItEnds : \E c \in Configurations : FragmentsOf[c][e] # <<>>}

\* For links without cryptography, and networks that carry one datagram of a type: which
\* of several is read is not said.
ItFairness ==
    /\ \A e \in ItEnds :
          /\ WF_itVars(PingITTimeout(e) /\ \E m \in it_net'[Other(e)] : m.type = "ping")
          /\ SF_itVars(\E m \in it_net[e] :
                          m.type = "ping" /\ (ProcessITPing(e, m) \/ DropIT(e, m)))
    /\ \A e \in ItSenders :
          /\ WF_itVars(ReliableITTimeout(e) /\ UnderWay(e, tcp_head[e] - 1))
          /\ \A n \in 1..MAX_SEND_ON_LINK : SF_itVars(Takes(Other(e), n))
          /\ SF_itVars(AckITTimeout(Other(e)) /\ \E m \in it_net'[e] :
                           m.type = "data" /\ m.nacks = Wanted(Other(e)))
          /\ SF_itVars(Takes(e, 0))
          /\ \A n \in 1..(MAX_SEND_ON_LINK - 1) :
                SF_itVars(TakesNack(e, n)) /\ SF_itVars(SendsAgain(e, n))

ItFairSpec == ItSpec /\ ItFairness

\* A packet that was sent is acknowledged in the end, although only the last one is sent
\* again by the timer and the others only when they are asked for.
SentIsAcked ==
    \A e \in ItSenders, n \in 1..MAX_SEND_ON_LINK : tcp_head[e] > n ~> out_tail[e] > n
=============================================================================
