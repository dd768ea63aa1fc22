------------------------- MODULE ReliableLinkProofs -------------------------
(***************************************************************************)
(* The reliable link of Spines, whatever its window, the messages of its     *)
(* ends and the datagrams under way: LinkInv is inductive, and the link      *)
(* implements the channel.                                                  *)
(***************************************************************************)
EXTENDS ReliableLink, SequenceTheorems, TLAPS

-----------------------------------------------------------------------------
(* The inductive invariant, by what it is about *)

\* The slots w hold the packets t..h-1.  Each is in its own slot, which SendWindowHolds does
\* not say of all slots: without it an acknowledgement might leave a packet behind.
Holds(w, t, h) ==
    /\ \A n \in t..(h - 1) : w[Slot(n)] = n
    /\ \A s \in Slots : w[s] # NULL => w[s] \in t..(h - 1) /\ Slot(w[s]) = s

\* What end e sends.
SendSide(e) ==
    /\ seq_no[e] <= Messages[e]
    /\ tail[e] <= head[e] /\ head[e] - tail[e] <= MAX_WINDOW
    /\ Holds(window[e], tail[e], head[e])
    /\ Len(msg_buff[e]) = seq_no[e] - head[e]
    /\ \A i \in 1..Len(msg_buff[e]) : msg_buff[e][i] = head[e] + i - 1
    /\ timer[e] <=> head[e] > tail[e]

\* What end e receives.  Slots behind the window are empty.
RecvSide(e) ==
    /\ recv_tail[e] <= recv_head[e] /\ recv_head[e] <= recv_tail[e] + MAX_WINDOW
    /\ \A s \in Slots : recv_window[e][s] # "empty" =>
          \E n \in recv_tail[e]..(recv_head[e] - 1) : Slot(n) = s
    /\ \A n \in Numbers(Peer(e)) :
          delivered[e][n] = IF \/ n < recv_tail[e]
                               \/ n < recv_head[e] /\ recv_window[e][Slot(n)] = "received"
                            THEN 1 ELSE 0

\* What is under way to end e, and what it takes for delivered.
Between(e) ==
    /\ tail[e] <= recv_tail[Peer(e)] /\ recv_head[Peer(e)] <= head[e]
    /\ \A m \in net[e] :
          /\ m.ack <= recv_tail[Peer(e)]
          /\ \A n \in m.nacks : n < head[e]
          /\ m.type = "data" => m.seq < head[Peer(e)]

LinkInv == TypeOK /\ \A e \in Ends : SendSide(e) /\ RecvSide(e) /\ Between(e)

-----------------------------------------------------------------------------
(* Ends and slots *)

\* There are two ends.
LEMMA TwoEnds ==
    ASSUME NEW e \in Ends
    PROVE  /\ Peer(e) \in Ends /\ Peer(e) # e /\ Peer(Peer(e)) = e
           /\ \A d \in Ends : d = e \/ d = Peer(e)
BY DEF Ends, Peer

\* The constants that the proofs below use, with their types.
LEMMA Constants ==
    /\ MAX_WINDOW \in Nat /\ MAX_WINDOW > 0 /\ Minimum_Window \in 1..MAX_WINDOW
    /\ Messages \in [Ends -> Nat]
BY LinkAssumption

\* Division by the size of the window.
LEMMA LinkDivision ==
    ASSUME NEW n \in Nat, n > 0, NEW a \in Int
    PROVE  a = n * (a \div n) + (a % n)
OBVIOUS

\* A packet has a slot.
LEMMA SlotInSlots ==
    ASSUME NEW n \in Int
    PROVE  Slot(n) \in Slots /\ Slot(n) \in Int
BY Constants DEF Slot, Slots

\* Two packets less than a window apart have different slots.
LEMMA SlotApart ==
    ASSUME NEW a \in Int, NEW b \in Int, a <= b, b < a + MAX_WINDOW, Slot(a) = Slot(b)
    PROVE  a = b
<1> DEFINE Windows(k) == MAX_WINDOW * k
           q == a \div MAX_WINDOW
           r == b \div MAX_WINDOW
<1>1. MAX_WINDOW \in Nat /\ MAX_WINDOW > 0 BY Constants
<1>2. q \in Int /\ r \in Int /\ Slot(a) \in Int BY <1>1 DEF Slot
<1>3. a = Windows(q) + Slot(a) BY <1>1, LinkDivision DEF Slot
<1>4. b = Windows(r) + Slot(b) BY <1>1, LinkDivision DEF Slot
<1> HIDE DEF q, r
<1>5. /\ Windows(r) \in Int /\ Windows(q) \in Int
      /\ r - q >= 1 => Windows(r) - Windows(q) >= MAX_WINDOW
      /\ r - q <= -1 => Windows(q) - Windows(r) >= MAX_WINDOW
  <2>1. \A k \in Int : k >= 1 => MAX_WINDOW * k >= MAX_WINDOW BY <1>1
  <2>2. /\ MAX_WINDOW * (r - q) = Windows(r) - Windows(q)
        /\ MAX_WINDOW * (q - r) = Windows(q) - Windows(r)
    BY <1>1, <1>2
  <2>3. Windows(r) \in Int /\ Windows(q) \in Int BY <1>1, <1>2
  <2> HIDE DEF Windows
  <2>4. QED BY <1>2, <2>1, <2>2, <2>3
<1> HIDE DEF Windows
<1>6. ~(r - q >= 1) /\ ~(r - q <= -1) BY <1>1, <1>2, <1>3, <1>4, <1>5
<1>7. r = q BY <1>2, <1>6
<1>8. QED BY <1>3, <1>4, <1>7

\* The packets of a window have different slots.
LEMMA SlotsDiffer ==
    ASSUME NEW t \in Int, NEW a \in t..(t + MAX_WINDOW - 1), NEW b \in t..(t + MAX_WINDOW - 1),
           Slot(a) = Slot(b)
    PROVE  a = b
<1>1. a \in Int /\ b \in Int /\ MAX_WINDOW \in Nat BY Constants
<1>2. CASE a <= b
  <2>1. b < a + MAX_WINDOW BY <1>1
  <2>2. QED BY <1>1, <1>2, <2>1, SlotApart
<1>3. CASE b <= a
  <2>1. a < b + MAX_WINDOW BY <1>1
  <2>2. b = a BY <1>1, <1>3, <2>1, SlotApart
  <2>3. QED BY <2>2
<1>4. QED BY <1>1, <1>2, <1>3

\* The types the arithmetic of the windows needs.
LEMMA LinkTypes ==
    ASSUME TypeOK, NEW e \in Ends
    PROVE  /\ head[e] \in Nat /\ tail[e] \in Nat /\ seq_no[e] \in Nat
           /\ recv_tail[e] \in Nat /\ recv_head[e] \in Nat
           /\ window_size[e] \in 1..MAX_WINDOW /\ window_size[e] \in Nat
           /\ window[e] \in [Slots -> Nat \cup {NULL}]
           /\ recv_window[e] \in [Slots -> {"empty", "received", "nack"}]
           /\ msg_buff[e] \in Seq(Nat) /\ Len(msg_buff[e]) \in Nat
           /\ \A m \in net[e] : m \in Datagram /\ m.seq \in Nat /\ m.ack \in Nat /\ m.nacks \subseteq Nat
<1>1. window_size[e] \in Minimum_Window..MAX_WINDOW BY DEF TypeOK
<1>2. window_size[e] \in 1..MAX_WINDOW /\ window_size[e] \in Nat BY <1>1, Constants
<1>3. msg_buff[e] \in Seq(Nat) BY DEF TypeOK
<1>4. \A m \in net[e] : m \in Datagram BY DEF TypeOK
<1>5. \A m \in net[e] : m.seq \in Nat /\ m.ack \in Nat /\ m.nacks \subseteq Nat
  BY <1>4 DEF Datagram
<1>6. QED BY <1>2, <1>3, <1>4, <1>5 DEF TypeOK

-----------------------------------------------------------------------------
(* What leaves an end *)

\* What end e sends in a step: packets below h, acknowledging what it has, with NACKs of
\* what is sent.  Its marks of received packets stay.
NacksSent(e, h) ==
    /\ net' \in [Ends -> SUBSET Datagram] /\ net'[e] = net[e]
    /\ \A m \in net'[Peer(e)] :
          \/ m \in net[Peer(e)]
          \/ /\ m.ack <= recv_tail[e]
             /\ \A n \in m.nacks : n < recv_head[e]
             /\ m.type = "data" => m.seq < h
    /\ recv_window' \in [Ends -> [Slots -> {"empty", "received", "nack"}]]
    /\ recv_window'[Peer(e)] = recv_window[Peer(e)]
    /\ \A s \in Slots :
          /\ recv_window'[e][s] = "received" <=> recv_window[e][s] = "received"
          /\ recv_window'[e][s] # "empty" =>
                \E n \in recv_tail[e]..(recv_head[e] - 1) : Slot(n) = s

\* Nothing is sent.
LEMMA NothingSent ==
    ASSUME LinkInv, NEW e \in Ends, NEW h, UNCHANGED <<net, recv_window>>
    PROVE  NacksSent(e, h)
BY DEF LinkInv, TypeOK, RecvSide, NacksSent

\* The datagrams of a burst are sent, of which one carries NACKs.
LEMMA BurstSent ==
    ASSUME LinkInv, NEW e \in Ends, NEW h \in Nat, NEW burst, NEW carrier,
           \A m \in burst : /\ m \in Datagram /\ m.ack = recv_tail[e]
                            /\ m.type = "data" => m.seq < h,
           SendWithNacks(e, burst, carrier)
    PROVE  NacksSent(e, h)
<1>0. TypeOK /\ RecvSide(e) /\ Peer(e) \in Ends /\ Peer(e) # e BY TwoEnds DEF LinkInv
<1>1. /\ recv_tail[e] \in Nat /\ recv_head[e] \in Nat
      /\ recv_window[e] \in [Slots -> {"empty", "received", "nack"}]
      /\ \A m \in net[Peer(e)] : m \in Datagram
  BY <1>0, LinkTypes
<1>2. PICK again \in SUBSET Asked(e) :
        /\ Sent(e, {[m EXCEPT !.nacks = IF m = carrier THEN Missing(e) \cup again ELSE {}]
                       : m \in burst})
        /\ recv_window' = [recv_window EXCEPT ![e] =
              [s \in Slots |-> IF \E n \in Missing(e) : Slot(n) = s THEN "nack" ELSE @[s]]]
  BY DEF SendWithNacks
<1> DEFINE Nacks(m) == IF m = carrier THEN Missing(e) \cup again ELSE {}
           Load(m) == [m EXCEPT !.nacks = Nacks(m)]
           Loaded == {Load(m) : m \in burst}
<1>3. Missing(e) \cup again \subseteq recv_tail[e]..(recv_head[e] - 1) BY DEF Missing, Asked
<1>4. \A m \in Loaded : /\ m \in Datagram /\ m.ack = recv_tail[e]
                        /\ \A n \in m.nacks : n < recv_head[e]
                        /\ m.type = "data" => m.seq < h
  <2>1. ASSUME NEW m \in burst
        PROVE  /\ Load(m) \in Datagram /\ Load(m).ack = recv_tail[e]
               /\ \A n \in Load(m).nacks : n < recv_head[e]
               /\ Load(m).type = "data" => Load(m).seq < h
    <3>1. Nacks(m) \subseteq Nat /\ \A n \in Nacks(m) : n < recv_head[e] BY <1>1, <1>3
    <3> HIDE DEF Nacks
    <3>2. /\ Load(m) \in Datagram /\ Load(m).nacks = Nacks(m)
          /\ Load(m).ack = m.ack /\ Load(m).type = m.type /\ Load(m).seq = m.seq
      BY <3>1 DEF Datagram
    <3> HIDE DEF Load
    <3>3. QED BY <3>1, <3>2
  <2> HIDE DEF Load
  <2>2. QED BY <2>1
<1>5. PICK kept \in SUBSET Loaded : net' = [net EXCEPT ![Peer(e)] = @ \cup kept]
  BY <1>2 DEF Sent
<1> HIDE DEF Loaded, Load
<1>6. net' \in [Ends -> SUBSET Datagram] /\ net'[e] = net[e]
  BY <1>0, <1>1, <1>4, <1>5 DEF TypeOK
<1>7. net'[Peer(e)] = net[Peer(e)] \cup kept BY <1>0, <1>5 DEF TypeOK
<1>8. /\ recv_window' \in [Ends -> [Slots -> {"empty", "received", "nack"}]]
      /\ recv_window'[Peer(e)] = recv_window[Peer(e)]
      /\ \A s \in Slots : recv_window'[e][s] =
            IF \E n \in Missing(e) : Slot(n) = s THEN "nack" ELSE recv_window[e][s]
  BY <1>0, <1>1, <1>2 DEF TypeOK
<1>9. ASSUME NEW s \in Slots
      PROVE  /\ recv_window'[e][s] = "received" <=> recv_window[e][s] = "received"
             /\ recv_window'[e][s] # "empty" =>
                   \E n \in recv_tail[e]..(recv_head[e] - 1) : Slot(n) = s
  <2>1. CASE \E n \in Missing(e) : Slot(n) = s
    <3>1. recv_window'[e][s] = "nack" /\ recv_window[e][s] = "empty"
      BY <1>8, <2>1 DEF Missing
    <3>2. \E n \in recv_tail[e]..(recv_head[e] - 1) : Slot(n) = s BY <1>3, <2>1
    <3>3. QED BY <3>1, <3>2
  <2>2. CASE ~\E n \in Missing(e) : Slot(n) = s BY <1>0, <1>8, <2>2 DEF RecvSide
  <2>3. QED BY <2>1, <2>2
<1>10. \A m \in net'[Peer(e)] : \/ m \in net[Peer(e)]
                                 \/ /\ m.ack <= recv_tail[e]
                                    /\ \A n \in m.nacks : n < recv_head[e]
                                    /\ m.type = "data" => m.seq < h
  BY <1>1, <1>4, <1>7
<1> HIDE DEF Nacks
<1>11. QED BY <1>6, <1>8, <1>9, <1>10 DEF NacksSent

\* Data packets are sent.
LEMMA DataSent ==
    ASSUME LinkInv, NEW e \in Ends, NEW h \in Nat, NEW numbers, NEW first,
           \A n \in numbers : n \in Nat /\ n < h,
           SendData(e, numbers, first)
    PROVE  NacksSent(e, h) /\ scheduled_ack' \in [Ends -> BOOLEAN]
<1>1. recv_tail[e] \in Nat BY LinkTypes DEF LinkInv
<1>2. \A n \in numbers : /\ Data(e, n) \in Datagram /\ Data(e, n).ack = recv_tail[e]
                         /\ Data(e, n).seq < h
  BY <1>1 DEF Data, Datagram
<1>3. \A m \in {Data(e, n) : n \in numbers} :
        m \in Datagram /\ m.ack = recv_tail[e] /\ (m.type = "data" => m.seq < h)
  BY <1>2
<1>4. SendWithNacks(e, {Data(e, n) : n \in numbers}, Data(e, first)) BY DEF SendData
<1>5. NacksSent(e, h) BY <1>3, <1>4, BurstSent
<1>6. scheduled_ack' \in [Ends -> BOOLEAN] BY DEF SendData, LinkInv, TypeOK
<1>7. QED BY <1>5, <1>6

\* Sending keeps what is said of receiving and of what is under way.
LEMMA SendingKeeps ==
    ASSUME LinkInv, NEW e \in Ends, NacksSent(e, head'[e]),
           UNCHANGED <<recvVars, tail>>,
           head' \in [Ends -> Nat], head'[e] >= head[e], head'[Peer(e)] = head[Peer(e)]
    PROVE  \A d \in Ends : RecvSide(d)' /\ Between(d)'
<1> DEFINE p == Peer(e)
<1>0. /\ p \in Ends /\ p # e /\ Peer(p) = e /\ \A d \in Ends : d = e \/ d = p
      /\ p = Peer(e)
  BY TwoEnds
<1> HIDE DEF p
<1>1. TypeOK /\ RecvSide(e) /\ RecvSide(p) /\ Between(e) /\ Between(p)
  BY <1>0 DEF LinkInv
<1>2. /\ head[e] \in Nat /\ head'[e] \in Nat /\ head[p] \in Nat
      /\ recv_head[e] \in Nat /\ recv_head[p] \in Nat /\ recv_tail[e] \in Nat
      /\ \A m \in net[e] : m.seq \in Nat /\ m.nacks \subseteq Nat
      /\ \A m \in net[p] : m.seq \in Nat /\ m.nacks \subseteq Nat
  BY <1>0, <1>1, LinkTypes
<1>3. UNCHANGED <<recv_tail, recv_head, delivered>> /\ UNCHANGED tail BY DEF recvVars
<1>4. net'[p] \subseteq Datagram BY <1>0 DEF NacksSent
<1>5. RecvSide(p)' BY <1>0, <1>1, <1>3 DEF RecvSide, NacksSent
<1>6. RecvSide(e)'
  <2>1. ASSUME NEW n \in Numbers(Peer(e))
        PROVE  recv_window'[e][Slot(n)] = "received" <=> recv_window[e][Slot(n)] = "received"
    <3>1. n \in Int BY DEF Numbers
    <3>2. QED BY <3>1, SlotInSlots DEF NacksSent
  <2>2. \A s \in Slots : recv_window'[e][s] # "empty" =>
            \E n \in recv_tail[e]..(recv_head[e] - 1) : Slot(n) = s
    BY DEF NacksSent
  <2>3. QED BY <1>1, <1>3, <2>1, <2>2 DEF RecvSide
<1>7. Between(e)'
  <2>1. ASSUME NEW m \in net[e]
        PROVE  /\ m.ack <= recv_tail[p] /\ \A n \in m.nacks : n < head'[e]
               /\ m.type = "data" => m.seq < head[p]
    <3>1. /\ m.ack <= recv_tail[p] /\ \A n \in m.nacks : n < head[e]
          /\ m.type = "data" => m.seq < head[p]
      BY <1>0, <1>1 DEF Between
    <3>2. QED BY <1>2, <3>1
  <2>2. tail[e] <= recv_tail[p] /\ recv_head[p] <= head'[e] BY <1>0, <1>1, <1>2 DEF Between
  <2>3. net'[e] = net[e] BY DEF NacksSent
  <2>4. QED BY <1>0, <1>3, <2>1, <2>2, <2>3 DEF Between
<1>8. Between(p)'
  <2>1. ASSUME NEW m \in net'[p]
        PROVE  /\ m.ack <= recv_tail[e] /\ \A n \in m.nacks : n < head[p]
               /\ m.type = "data" => m.seq < head'[e]
    <3>1. CASE m \in net[p]
      <4>1. /\ m.ack <= recv_tail[e] /\ \A n \in m.nacks : n < head[p]
            /\ m.type = "data" => m.seq < head[e]
        BY <1>0, <1>1, <3>1 DEF Between
      <4>2. QED BY <1>2, <3>1, <4>1
    <3>2. CASE /\ m.ack <= recv_tail[e] /\ \A n \in m.nacks : n < recv_head[e]
               /\ m.type = "data" => m.seq < head'[e]
      <4>1. recv_head[e] <= head[p] BY <1>0, <1>1 DEF Between
      <4>2. m.nacks \subseteq Nat BY <1>4 DEF Datagram
      <4>3. QED BY <1>2, <3>2, <4>1, <4>2
    <3>3. QED BY <1>0, <3>1, <3>2 DEF NacksSent
  <2>2. tail[p] <= recv_tail[e] /\ recv_head[e] <= head[p] BY <1>0, <1>1 DEF Between
  <2>3. QED BY <1>0, <1>3, <2>1, <2>2 DEF Between
<1>9. QED BY <1>0, <1>5, <1>6, <1>7, <1>8

-----------------------------------------------------------------------------
(* Steps that send *)

\* The window has room for what is admitted.
LEMMA RoomForAdmitted ==
    ASSUME TypeOK, NEW e \in Ends, head[e] - tail[e] <= MAX_WINDOW, NEW k \in Nat
    PROVE  /\ Admitted(e, k) \in 0..k
           /\ head[e] + Admitted(e, k) - tail[e] <= MAX_WINDOW
<1>1. head[e] \in Nat /\ tail[e] \in Nat /\ window_size[e] \in 1..MAX_WINDOW BY LinkTypes
<1>2. MAX_WINDOW \in Nat BY Constants
<1>3. QED BY <1>1, <1>2 DEF Admitted

\* A queue of packets from number h on, cut behind the first k.
LEMMA QueueCut ==
    ASSUME NEW q \in Seq(Nat), NEW h \in Nat, NEW k \in 0..Len(q),
           \A i \in 1..Len(q) : q[i] = h + i - 1
    PROVE  /\ {q[i] : i \in 1..k} = h..(h + k - 1)
           /\ SubSeq(q, k + 1, Len(q)) \in Seq(Nat)
           /\ Len(SubSeq(q, k + 1, Len(q))) = Len(q) - k
           /\ \A i \in 1..(Len(q) - k) : SubSeq(q, k + 1, Len(q))[i] = (h + k) + i - 1
<1>1. Len(q) \in Nat /\ k \in Nat /\ k <= Len(q) OBVIOUS
<1>2. {q[i] : i \in 1..k} = h..(h + k - 1)
  <2>1. ASSUME NEW i \in 1..k PROVE q[i] \in h..(h + k - 1)
    <3>1. i \in 1..Len(q) BY <1>1
    <3>2. q[i] = h + i - 1 BY <3>1
    <3>3. QED BY <1>1, <3>2
  <2>2. ASSUME NEW n \in h..(h + k - 1) PROVE n \in {q[i] : i \in 1..k}
    <3>1. n - h + 1 \in 1..k BY <1>1
    <3>2. n - h + 1 \in 1..Len(q) BY <1>1, <3>1
    <3>3. q[n - h + 1] = h + (n - h + 1) - 1 BY <3>2
    <3>4. q[n - h + 1] = n BY <3>3
    <3>5. QED BY <3>1, <3>4
  <2>3. QED BY <2>1, <2>2
<1>3. \A i \in (k + 1)..Len(q) : q[i] \in Nat BY <1>1
<1>4. /\ SubSeq(q, k + 1, Len(q)) \in Seq(Nat)
      /\ Len(SubSeq(q, k + 1, Len(q))) =
            IF k + 1 <= Len(q) THEN Len(q) - (k + 1) + 1 ELSE 0
      /\ \A i \in 1..(Len(q) - (k + 1) + 1) : SubSeq(q, k + 1, Len(q))[i] = q[(k + 1) + i - 1]
  <2>1. k + 1 \in Int /\ Len(q) \in Int BY <1>1
  <2>2. QED BY <1>3, <2>1, SubSeqProperties
<1>5. ASSUME NEW i \in 1..(Len(q) - k)
      PROVE  SubSeq(q, k + 1, Len(q))[i] = (h + k) + i - 1
  <2>1. i \in 1..(Len(q) - (k + 1) + 1) /\ (k + 1) + i - 1 \in 1..Len(q) BY <1>1
  <2>2. SubSeq(q, k + 1, Len(q))[i] = q[(k + 1) + i - 1] BY <1>4, <2>1
  <2>3. q[(k + 1) + i - 1] = h + ((k + 1) + i - 1) - 1 BY <2>1
  <2>4. QED BY <1>1, <2>2, <2>3
<1>6. QED BY <1>1, <1>2, <1>4, <1>5

\* The slots w when the packets of numbers are put into them.
Filled(w, numbers) ==
    [s \in Slots |-> IF \E n \in numbers : Slot(n) = s
                     THEN CHOOSE n \in numbers : Slot(n) = s ELSE w[s]]

\* A window takes the packets that follow as far as it has room.
LEMMA WindowFilled ==
    ASSUME NEW w \in [Slots -> Nat \cup {NULL}], NEW t \in Nat, NEW h \in Nat, NEW k \in Nat,
           t <= h, h + k - t <= MAX_WINDOW, Holds(w, t, h)
    PROVE  /\ Filled(w, h..(h + k - 1)) \in [Slots -> Nat \cup {NULL}]
           /\ Holds(Filled(w, h..(h + k - 1)), t, h + k)
<1> DEFINE numbers == h..(h + k - 1)
           f == Filled(w, numbers)
<1>0. MAX_WINDOW \in Nat /\ MAX_WINDOW > 0 BY Constants
<1>1. \A s \in Slots : f[s] = IF \E n \in numbers : Slot(n) = s
                             THEN CHOOSE n \in numbers : Slot(n) = s ELSE w[s]
  BY DEF Filled
<1>2. \A s \in Slots : \/ f[s] \in numbers /\ Slot(f[s]) = s
                       \/ f[s] = w[s] /\ ~\E n \in numbers : Slot(n) = s
  <2> HIDE DEF f, numbers
  <2>1. ASSUME NEW s \in Slots, NEW n \in numbers, Slot(n) = s
        PROVE  f[s] \in numbers /\ Slot(f[s]) = s
    <3>1. f[s] = CHOOSE m \in numbers : Slot(m) = s BY <1>1, <2>1
    <3>2. QED BY <2>1, <3>1
  <2>2. ASSUME NEW s \in Slots, ~\E n \in numbers : Slot(n) = s PROVE f[s] = w[s]
    BY <1>1, <2>2
  <2>3. QED BY <2>1, <2>2
<1>3. f \in [Slots -> Nat \cup {NULL}]
  <2>1. \A s \in Slots : f[s] \in Nat \cup {NULL} BY <1>2
  <2>2. QED BY <2>1 DEF Filled
<1> HIDE DEF f
<1>4. ASSUME NEW n \in t..((h + k) - 1) PROVE f[Slot(n)] = n
  <2>1. n \in Int /\ Slot(n) \in Slots /\ n \in t..(t + MAX_WINDOW - 1) BY <1>0, SlotInSlots
  <2>2. ASSUME NEW m \in numbers, Slot(m) = Slot(n) PROVE m = n
    <3>1. m \in t..(t + MAX_WINDOW - 1) BY <1>0
    <3>2. QED BY <2>1, <2>2, <3>1, SlotsDiffer
  <2>3. CASE n < h
    <3>1. n \notin numbers /\ n \in t..(h - 1) BY <2>3
    <3>2. f[Slot(n)] = w[Slot(n)] BY <1>2, <2>1, <2>2, <3>1
    <3>3. QED BY <3>1, <3>2 DEF Holds
  <2>4. CASE n >= h
    <3>1. n \in numbers BY <2>4
    <3>2. QED BY <1>2, <2>1, <2>2, <3>1
  <2>5. QED BY <2>1, <2>3, <2>4
<1>5. ASSUME NEW s \in Slots, f[s] # NULL
      PROVE  f[s] \in t..((h + k) - 1) /\ Slot(f[s]) = s
  <2>1. CASE f[s] \in numbers /\ Slot(f[s]) = s BY <2>1
  <2>2. CASE f[s] = w[s]
    <3>1. w[s] \in t..(h - 1) /\ Slot(w[s]) = s BY <1>5, <2>2 DEF Holds
    <3>2. QED BY <2>2, <3>1
  <2>3. QED BY <1>2, <2>1, <2>2
<1>6. Holds(f, t, h + k) BY <1>4, <1>5 DEF Holds
<1>7. QED BY <1>3, <1>6 DEF f

\* A queue that continues the window is sent in part, and the window and the buffer take
\* its two parts.
LEMMA SendMuchKeeps ==
    ASSUME LinkInv, NEW e \in Ends, NEW queue \in Seq(Nat), SendMuch(e, queue),
           seq_no' \in [Ends -> Nat], seq_no'[Peer(e)] = seq_no[Peer(e)],
           seq_no'[e] <= Messages[e], Len(queue) = seq_no'[e] - head[e],
           \A i \in 1..Len(queue) : queue[i] = head[e] + i - 1,
           UNCHANGED <<flags, recvVars, congVars, tail, nack_buff, retransm>>,
           trySend' \in [Ends -> BOOLEAN]
    PROVE  LinkInv'
<1> DEFINE k == Admitted(e, Len(queue))
           numbers == {queue[i] : i \in 1..k}
           rest == SubSeq(queue, k + 1, Len(queue))
<1>0. /\ Peer(e) \in Ends /\ Peer(e) # e /\ \A d \in Ends : d = e \/ d = Peer(e)
  BY TwoEnds
<1>1. TypeOK /\ SendSide(e) /\ SendSide(Peer(e)) BY <1>0 DEF LinkInv
<1>2. /\ head[e] \in Nat /\ tail[e] \in Nat /\ seq_no'[e] \in Nat
      /\ MAX_WINDOW \in Nat /\ Len(queue) \in Nat
      /\ window[e] \in [Slots -> Nat \cup {NULL}]
  BY <1>1, LinkTypes, Constants
<1>3. k \in 0..Len(queue) /\ head[e] + k - tail[e] <= MAX_WINDOW
  <2>1. head[e] - tail[e] <= MAX_WINDOW BY <1>1 DEF SendSide
  <2>2. QED BY <1>1, <1>2, <2>1, RoomForAdmitted
<1>a. msg_buff' = [msg_buff EXCEPT ![e] = rest] BY DEF SendMuch
<1>b. Blocking(e, queue, k) BY DEF SendMuch
<1>c. head' = [head EXCEPT ![e] = @ + k] BY DEF SendMuch
<1>d. window' = [window EXCEPT ![e] = Filled(@, numbers)] BY DEF SendMuch, Filled
<1>e. k = 0 => UNCHANGED <<net, recv_window, scheduled_ack, timer>> BY DEF SendMuch
<1>f. k # 0 => SendData(e, numbers, queue[1]) /\ timer' = [timer EXCEPT ![e] = TRUE]
  BY DEF SendMuch
<1>4. k \in Nat /\ k <= Len(queue) BY <1>2, <1>3
<1> HIDE DEF k
<1>5. /\ numbers = head[e]..(head[e] + k - 1)
      /\ rest \in Seq(Nat) /\ Len(rest) = Len(queue) - k
      /\ \A i \in 1..(Len(queue) - k) : rest[i] = (head[e] + k) + i - 1
  BY <1>2, <1>3, QueueCut
<1> HIDE DEF numbers, rest
<1>6. /\ head' \in [Ends -> Nat] /\ head'[e] = head[e] + k /\ head'[Peer(e)] = head[Peer(e)]
      /\ head'[e] \in Nat /\ head'[e] >= head[e]
  <2>1. head \in [Ends -> Nat] BY <1>1 DEF TypeOK
  <2>2. head[e] + k \in Nat /\ head[e] + k >= head[e] BY <1>2, <1>4
  <2>3. QED BY <1>0, <1>c, <2>1, <2>2
<1>7. NacksSent(e, head'[e]) /\ scheduled_ack' \in [Ends -> BOOLEAN]
  <2>1. CASE k = 0 BY <1>1, <1>e, <2>1, NothingSent DEF TypeOK
  <2>2. CASE k # 0
    <3>1. \A n \in numbers : n \in Nat /\ n < head'[e] BY <1>2, <1>4, <1>5, <1>6
    <3>2. QED BY <1>6, <1>f, <2>2, <3>1, DataSent
  <2>3. QED BY <2>1, <2>2
<1>8. /\ timer' \in [Ends -> BOOLEAN] /\ timer'[Peer(e)] = timer[Peer(e)]
      /\ timer'[e] <=> head'[e] > tail[e]
  <2>0. timer \in [Ends -> BOOLEAN] BY <1>1 DEF TypeOK
  <2>1. CASE k = 0
    <3>1. timer' = timer /\ head'[e] = head[e] BY <1>2, <1>e, <1>6, <2>1
    <3>2. QED BY <1>1, <2>0, <3>1 DEF SendSide
  <2>2. CASE k # 0
    <3>1. /\ timer' \in [Ends -> BOOLEAN] /\ timer'[Peer(e)] = timer[Peer(e)] /\ timer'[e] = TRUE
      BY <1>0, <1>f, <2>0, <2>2
    <3>2. tail[e] <= head[e] BY <1>1 DEF SendSide
    <3>3. head'[e] > tail[e] BY <1>2, <1>4, <1>6, <2>2, <3>2
    <3>4. QED BY <3>1, <3>3
  <2>3. QED BY <2>1, <2>2
<1>9. /\ msg_buff' \in [Ends -> Seq(Nat)] /\ msg_buff'[Peer(e)] = msg_buff[Peer(e)]
      /\ Len(msg_buff'[e]) = seq_no'[e] - head'[e]
      /\ \A i \in 1..Len(msg_buff'[e]) : msg_buff'[e][i] = head'[e] + i - 1
  <2>0. msg_buff \in [Ends -> Seq(Nat)] BY <1>1 DEF TypeOK
  <2>1. /\ msg_buff' \in [Ends -> Seq(Nat)] /\ msg_buff'[Peer(e)] = msg_buff[Peer(e)]
        /\ msg_buff'[e] = rest
    BY <1>0, <1>5, <1>a, <2>0
  <2>2. Len(rest) = seq_no'[e] - head'[e] BY <1>2, <1>4, <1>5, <1>6
  <2>3. \A i \in 1..Len(rest) : rest[i] = head'[e] + i - 1 BY <1>5, <1>6
  <2>4. QED BY <2>1, <2>2, <2>3
<1>10. /\ window' \in [Ends -> [Slots -> Nat \cup {NULL}]] /\ window'[Peer(e)] = window[Peer(e)]
       /\ Holds(window'[e], tail[e], head'[e])
  <2>0. window \in [Ends -> [Slots -> Nat \cup {NULL}]] BY <1>1 DEF TypeOK
  <2>1. tail[e] <= head[e] /\ Holds(window[e], tail[e], head[e]) BY <1>1 DEF SendSide
  <2>2. /\ Filled(window[e], numbers) \in [Slots -> Nat \cup {NULL}]
        /\ Holds(Filled(window[e], numbers), tail[e], head[e] + k)
    BY <1>2, <1>3, <1>4, <1>5, <2>1, WindowFilled
  <2>3. /\ window' \in [Ends -> [Slots -> Nat \cup {NULL}]] /\ window'[Peer(e)] = window[Peer(e)]
        /\ window'[e] = Filled(window[e], numbers)
    BY <1>0, <1>d, <2>0, <2>2
  <2>4. QED BY <1>6, <2>2, <2>3
<1>11. tail[e] <= head'[e] /\ head'[e] - tail[e] <= MAX_WINDOW
  <2>1. tail[e] <= head[e] BY <1>1 DEF SendSide
  <2>2. QED BY <1>2, <1>3, <1>4, <1>6, <2>1
<1>12. SendSide(e)' BY <1>8, <1>9, <1>10, <1>11 DEF SendSide
<1>13. SendSide(Peer(e))' BY <1>0, <1>1, <1>6, <1>8, <1>9, <1>10 DEF SendSide
<1>14. \A d \in Ends : RecvSide(d)' /\ Between(d)'
  BY <1>6, <1>7, SendingKeeps
<1>15. TypeOK'
  <2>1. blocked' \in [Ends -> BOOLEAN] BY <1>1, <1>b DEF Blocking, TypeOK
  <2>2. QED
    BY <1>1, <1>6, <1>7, <1>8, <1>9, <1>10, <2>1 DEF TypeOK, NacksSent, recvVars, congVars
<1>16. QED BY <1>0, <1>12, <1>13, <1>14, <1>15 DEF LinkInv

\* Steps of which nothing but datagrams and marks of missing packets comes.
LEMMA OnlySendingKeeps ==
    ASSUME LinkInv, NEW e \in Ends, NacksSent(e, head[e]), TypeOK',
           UNCHANGED <<seq_no, head, tail, window, msg_buff, timer, recvVars>>
    PROVE  LinkInv'
<1>1. head' \in [Ends -> Nat] /\ head'[e] >= head[e] /\ head'[Peer(e)] = head[Peer(e)]
  <2>1. head[e] \in Nat BY LinkTypes DEF LinkInv
  <2>2. QED BY <2>1 DEF LinkInv, TypeOK
<1>2. \A d \in Ends : RecvSide(d)' /\ Between(d)' BY <1>1, SendingKeeps
<1>3. \A d \in Ends : SendSide(d)' BY DEF LinkInv, SendSide
<1>4. QED BY <1>2, <1>3 DEF LinkInv

\* Every step of an end that is not the reading of a datagram keeps the invariant.
LEMMA SendMsgKeeps ==
    ASSUME LinkInv, NEW e \in Ends, SendMsg(e)
    PROVE  LinkInv'
<1> DEFINE queue == Append(msg_buff[e], seq_no[e])
<1>1. TypeOK /\ SendSide(e) /\ Peer(e) \in Ends /\ Peer(e) # e BY TwoEnds DEF LinkInv
<1>2. /\ msg_buff[e] \in Seq(Nat) /\ seq_no[e] \in Nat /\ head[e] \in Nat
      /\ Messages[e] \in Nat /\ Len(msg_buff[e]) \in Nat
  BY <1>1, LinkTypes, Constants
<1>3. /\ seq_no[e] < Messages[e] /\ seq_no' = [seq_no EXCEPT ![e] = @ + 1]
      /\ SendMuch(e, queue) /\ trySend' = trySend
      /\ UNCHANGED <<flags, recvVars, congVars, tail, nack_buff, retransm>>
  BY DEF SendMsg
<1>4. queue \in Seq(Nat) /\ Len(queue) = Len(msg_buff[e]) + 1 BY <1>2
<1>5. \A i \in 1..(Len(msg_buff[e]) + 1) :
        queue[i] = IF i = Len(msg_buff[e]) + 1 THEN seq_no[e] ELSE msg_buff[e][i]
  BY <1>2
<1> HIDE DEF queue
<1>6. /\ seq_no' \in [Ends -> Nat] /\ seq_no'[e] = seq_no[e] + 1
      /\ seq_no'[Peer(e)] = seq_no[Peer(e)]
  BY <1>1, <1>2, <1>3 DEF TypeOK
<1>7. /\ Len(msg_buff[e]) = seq_no[e] - head[e]
      /\ \A i \in 1..Len(msg_buff[e]) : msg_buff[e][i] = head[e] + i - 1
  BY <1>1 DEF SendSide
<1>8. ASSUME NEW i \in 1..Len(queue) PROVE queue[i] = head[e] + i - 1
  <2>1. i \in 1..(Len(msg_buff[e]) + 1) BY <1>4
  <2>2. CASE i = Len(msg_buff[e]) + 1 BY <1>2, <1>5, <1>7, <2>1, <2>2
  <2>3. CASE i # Len(msg_buff[e]) + 1
    <3>1. i \in 1..Len(msg_buff[e]) BY <1>2, <2>1, <2>3
    <3>2. QED BY <1>5, <1>7, <2>1, <2>3, <3>1
  <2>4. QED BY <2>2, <2>3
<1>9. Len(queue) = seq_no'[e] - head[e] /\ seq_no'[e] <= Messages[e]
  BY <1>2, <1>3, <1>4, <1>6, <1>7
<1>10. trySend' \in [Ends -> BOOLEAN] BY <1>1, <1>3 DEF TypeOK
<1>11. QED BY <1>3, <1>4, <1>6, <1>8, <1>9, <1>10, SendMuchKeeps

\* So does trying again to send what waits.
LEMMA TryToSendKeeps ==
    ASSUME LinkInv, NEW e \in Ends, TryToSend(e)
    PROVE  LinkInv'
<1>1. TypeOK /\ SendSide(e) BY DEF LinkInv
<1>2. /\ SendMuch(e, msg_buff[e]) /\ seq_no' = seq_no
      /\ trySend' = [trySend EXCEPT ![e] = FALSE]
      /\ UNCHANGED <<flags, recvVars, congVars, tail, nack_buff, retransm>>
  BY DEF TryToSend
<1>3. /\ msg_buff[e] \in Seq(Nat) /\ seq_no' \in [Ends -> Nat] /\ seq_no'[e] <= Messages[e]
      /\ Len(msg_buff[e]) = seq_no'[e] - head[e]
      /\ \A i \in 1..Len(msg_buff[e]) : msg_buff[e][i] = head[e] + i - 1
      /\ trySend' \in [Ends -> BOOLEAN]
  BY <1>1, <1>2 DEF TypeOK, SendSide
<1>4. QED BY <1>2, <1>3, SendMuchKeeps

\* Connecting, and asking again for nothing, disturb nothing of it.
LEMMA QuietStepsKeep ==
    ASSUME LinkInv, NEW e \in Ends, Connect(e) \/ NackRetransmIdle(e)
    PROVE  LinkInv'
<1>1. UNCHANGED <<seq_no, head, tail, window, msg_buff, timer, recvVars, net, recv_window>>
  BY DEF Connect, NackRetransmIdle, sendVars
<1>2. NacksSent(e, head[e]) BY <1>1, NothingSent
<1>3. TypeOK'
  BY DEF LinkInv, TypeOK, Connect, NackRetransmIdle, sendVars, recvVars, congVars
<1>4. QED BY <1>1, <1>2, <1>3, OnlySendingKeeps

\* Nor does an acknowledgement sent on its own.
LEMMA SendAckKeeps ==
    ASSUME LinkInv, NEW e \in Ends, SendAck(e)
    PROVE  LinkInv'
<1> DEFINE m == [type |-> "ack", seq |-> 0, ack |-> recv_tail[e], nacks |-> {}]
<1>1. TypeOK /\ head[e] \in Nat /\ recv_tail[e] \in Nat BY LinkTypes DEF LinkInv
<1>2. /\ SendWithNacks(e, {m}, m) /\ scheduled_ack' = [scheduled_ack EXCEPT ![e] = FALSE]
      /\ UNCHANGED <<sendVars, recvVars, congVars, tail, nack_buff, timer, retransm, trySend>>
  BY DEF SendAck
<1>3. m \in Datagram /\ m.ack = recv_tail[e] /\ m.type = "ack" BY <1>1 DEF Datagram
<1> HIDE DEF m
<1>4. NacksSent(e, head[e]) BY <1>1, <1>2, <1>3, BurstSent
<1>5. TypeOK' BY <1>1, <1>2, <1>4 DEF TypeOK, NacksSent, sendVars, recvVars, congVars
<1>6. QED BY <1>2, <1>4, <1>5, OnlySendingKeeps DEF sendVars

\* Half a window is a window size, and so is any size above the least one.
LEMMA HalvedType ==
    ASSUME NEW w \in 1..MAX_WINDOW
    PROVE  /\ Halved(w) \subseteq Minimum_Window..MAX_WINDOW
           /\ AtLeast((w + 1) \div 2, Minimum_Window) \in Minimum_Window..MAX_WINDOW
BY Constants DEF Halved, AtLeast

\* Nor a timeout, which sends one packet again.
LEMMA TimeoutKeeps ==
    ASSUME LinkInv, NEW e \in Ends, Timeout(e)
    PROVE  LinkInv'
<1> DEFINE numbers == {window[e][Slot(n)] : n \in tail[e]..(head[e] - 1)}
<1>1. TypeOK /\ SendSide(e) BY DEF LinkInv
<1>2. /\ head[e] \in Nat /\ tail[e] \in Nat /\ window_size[e] \in 1..MAX_WINDOW
  BY <1>1, LinkTypes
<1>3. /\ SendData(e, numbers, window[e][Slot(tail[e])])
      /\ UNCHANGED <<sendVars, recvVars, tail, nack_buff, timer, retransm, trySend>>
  BY DEF Timeout
<1>4. /\ window_size' \in [Ends -> Minimum_Window..MAX_WINDOW]
      /\ ssthresh' \in [Ends -> Minimum_Window..MAX_WINDOW]
  <2>1. CASE TCP_Fairness
    <3>1. PICK h \in Halved(window_size[e]) : ssthresh' = [ssthresh EXCEPT ![e] = h]
      BY <2>1 DEF Timeout
    <3>2. window_size' = [window_size EXCEPT ![e] = Minimum_Window] BY <2>1 DEF Timeout
    <3>3. h \in Minimum_Window..MAX_WINDOW BY <1>2, <3>1, HalvedType
    <3>4. Minimum_Window \in Minimum_Window..MAX_WINDOW BY Constants
    <3>5. QED BY <1>1, <3>1, <3>2, <3>3, <3>4 DEF TypeOK
  <2>2. CASE ~TCP_Fairness BY <1>1, <2>2 DEF Timeout, TypeOK
  <2>3. QED BY <2>1, <2>2
<1>5. \A n \in numbers : n \in Nat /\ n < head[e] BY <1>1, <1>2 DEF SendSide, Holds
<1> HIDE DEF numbers
<1>6. NacksSent(e, head[e]) /\ scheduled_ack' \in [Ends -> BOOLEAN]
  BY <1>2, <1>3, <1>5, DataSent
<1>7. TypeOK' BY <1>1, <1>3, <1>4, <1>6 DEF TypeOK, NacksSent, sendVars, recvVars
<1>8. QED BY <1>3, <1>6, <1>7, OnlySendingKeeps DEF sendVars

\* Nor what is sent again because it was asked for.
LEMMA NackRetransmKeeps ==
    ASSUME LinkInv, NEW e \in Ends, NackRetransm(e)
    PROVE  LinkInv'
<1> DEFINE held == {window[e][Slot(n)] : n \in nack_buff[e]} \ {NULL}
<1>1. TypeOK /\ SendSide(e) BY DEF LinkInv
<1>2. /\ head[e] \in Nat /\ tail[e] \in Nat /\ window_size[e] \in 1..MAX_WINDOW
      /\ nack_buff[e] \subseteq Nat
  BY <1>1, LinkTypes DEF TypeOK
<1>3. /\ retransm' = [retransm EXCEPT ![e] = FALSE]
      /\ nack_buff' = [nack_buff EXCEPT ![e] = {}]
      /\ UNCHANGED <<sendVars, recvVars, tail, timer, trySend>>
      /\ held = {} => /\ scheduled_ack' = [scheduled_ack EXCEPT ![e] = FALSE]
                      /\ UNCHANGED <<net, recv_window>>
      /\ held # {} => \E first \in held : SendData(e, held, first)
  BY DEF NackRetransm
<1>4. /\ window_size' \in [Ends -> Minimum_Window..MAX_WINDOW]
      /\ ssthresh' \in [Ends -> Minimum_Window..MAX_WINDOW]
  <2>1. CASE TCP_Fairness
    <3>1. PICK h \in Halved(window_size[e]) : ssthresh' = [ssthresh EXCEPT ![e] = h]
      BY <2>1 DEF NackRetransm
    <3>2. window_size' =
            [window_size EXCEPT ![e] = AtLeast((window_size[e] + 1) \div 2, Minimum_Window)]
      BY <2>1 DEF NackRetransm
    <3>3. h \in Minimum_Window..MAX_WINDOW BY <1>2, <3>1, HalvedType
    <3>4. AtLeast((window_size[e] + 1) \div 2, Minimum_Window) \in Minimum_Window..MAX_WINDOW
      BY <1>2, HalvedType
    <3>5. QED BY <1>1, <3>1, <3>2, <3>3, <3>4 DEF TypeOK
  <2>2. CASE ~TCP_Fairness BY <1>1, <2>2 DEF NackRetransm, TypeOK
  <2>3. QED BY <2>1, <2>2
<1>5. \A n \in held : n \in Nat /\ n < head[e]
  <2>1. \A n \in nack_buff[e] : Slot(n) \in Slots BY <1>2, SlotInSlots
  <2>2. QED BY <1>1, <1>2, <2>1 DEF SendSide, Holds
<1> HIDE DEF held
<1>6. NacksSent(e, head[e]) /\ scheduled_ack' \in [Ends -> BOOLEAN]
  <2>1. CASE held = {} BY <1>1, <1>3, <2>1, NothingSent DEF TypeOK
  <2>2. CASE held # {} BY <1>2, <1>3, <1>5, <2>2, DataSent
  <2>3. QED BY <2>1, <2>2
<1>7. TypeOK' BY <1>1, <1>3, <1>4, <1>6 DEF TypeOK, NacksSent, sendVars, recvVars
<1>8. QED BY <1>3, <1>6, <1>7, OnlySendingKeeps DEF sendVars

-----------------------------------------------------------------------------
(* Steps that receive *)

\* A datagram is read: none is new.
LEMMA ReadLeaves ==
    ASSUME TypeOK, NEW e \in Ends, NEW m, ReadFrom(e, m)
    PROVE  /\ net' \in [Ends -> SUBSET Datagram]
           /\ net'[e] \subseteq net[e] /\ net'[Peer(e)] = net[Peer(e)]
<1>1. Peer(e) \in Ends /\ Peer(e) # e BY TwoEnds
<1>2. PICK n \in {net[e] \ {m}} \cup (IF MayDuplicate THEN {net[e]} ELSE {}) :
        net' = [net EXCEPT ![e] = n]
  BY DEF ReadFrom
<1>3. n \subseteq net[e] BY <1>2
<1>4. net \in [Ends -> SUBSET Datagram] BY DEF TypeOK
<1>5. QED BY <1>1, <1>2, <1>3, <1>4

\* The slots w when the packets t..a-1 are taken out of them.
Freed(w, t, a) == [s \in Slots |-> IF \E n \in t..(a - 1) : Slot(n) = s THEN NULL ELSE w[s]]

\* A window whose first packets are taken out holds the others.
LEMMA WindowFreed ==
    ASSUME NEW w \in [Slots -> Nat \cup {NULL}], NEW t \in Nat, NEW h \in Nat, NEW a \in Nat,
           t <= a, a <= h, h - t <= MAX_WINDOW, Holds(w, t, h)
    PROVE  /\ Freed(w, t, a) \in [Slots -> Nat \cup {NULL}]
           /\ Holds(Freed(w, t, a), a, h)
<1> DEFINE f == Freed(w, t, a)
<1>0. MAX_WINDOW \in Nat /\ MAX_WINDOW > 0 BY Constants
<1>1. f \in [Slots -> Nat \cup {NULL}] BY DEF Freed
<1>2. \A s \in Slots : f[s] = IF \E n \in t..(a - 1) : Slot(n) = s THEN NULL ELSE w[s]
  BY DEF Freed
<1> HIDE DEF f
<1>3. ASSUME NEW n \in a..(h - 1) PROVE f[Slot(n)] = n
  <2>1. n \in Int /\ Slot(n) \in Slots /\ n \in t..(h - 1) BY SlotInSlots
  <2>2. ASSUME NEW m \in t..(a - 1), Slot(m) = Slot(n) PROVE FALSE
    <3>1. m \in t..(t + MAX_WINDOW - 1) /\ n \in t..(t + MAX_WINDOW - 1) BY <1>0
    <3>2. m = n BY <2>2, <3>1, SlotsDiffer
    <3>3. QED BY <3>2
  <2>3. QED BY <1>2, <2>1, <2>2 DEF Holds
<1>4. ASSUME NEW s \in Slots, f[s] # NULL PROVE f[s] \in a..(h - 1) /\ Slot(f[s]) = s
  <2>1. f[s] = w[s] /\ ~\E n \in t..(a - 1) : Slot(n) = s BY <1>2, <1>4
  <2>2. w[s] \in t..(h - 1) /\ Slot(w[s]) = s BY <1>4, <2>1 DEF Holds
  <2>3. w[s] \notin t..(a - 1) BY <2>1, <2>2
  <2>4. QED BY <2>1, <2>2, <2>3
<1>5. QED BY <1>1, <1>3, <1>4 DEF f, Holds

\* Acknowledgements keep the send windows, and an end never goes past what the other has.
LEMMA TakeAckKeeps ==
    ASSUME LinkInv, NEW e \in Ends, NEW m \in net[e], TakeAck(e, m)
    PROVE  /\ SendSide(e)' /\ SendSide(Peer(e))'
           /\ tail'[e] <= recv_tail[Peer(e)] /\ tail'[Peer(e)] = tail[Peer(e)]
           /\ tail' \in [Ends -> Nat] /\ window' \in [Ends -> [Slots -> Nat \cup {NULL}]]
           /\ timer' \in [Ends -> BOOLEAN] /\ trySend' \in [Ends -> BOOLEAN]
           /\ nack_buff' \in [Ends -> SUBSET Nat] /\ retransm' \in [Ends -> BOOLEAN]
           /\ window_size' \in [Ends -> Minimum_Window..MAX_WINDOW]
           /\ UNCHANGED <<flags, seq_no, head, msg_buff, blocked, ssthresh>>
<1>0. Peer(e) \in Ends /\ Peer(e) # e BY TwoEnds
<1>1. TypeOK /\ SendSide(e) /\ SendSide(Peer(e)) /\ Between(e) BY <1>0 DEF LinkInv
<1>2. /\ head[e] \in Nat /\ tail[e] \in Nat /\ m.ack \in Nat /\ m.nacks \subseteq Nat
      /\ window[e] \in [Slots -> Nat \cup {NULL}] /\ window_size[e] \in Nat
      /\ MAX_WINDOW \in Nat
  BY <1>1, LinkTypes, Constants
<1>3. UNCHANGED <<flags, seq_no, head, msg_buff, blocked, ssthresh>> BY DEF TakeAck
<1>4. nack_buff' \in [Ends -> SUBSET Nat] /\ retransm' \in [Ends -> BOOLEAN]
  BY <1>1, <1>2 DEF TakeAck, TypeOK
<1>5. CASE ~(tail[e] < m.ack /\ m.ack <= head[e])
  <2>1. UNCHANGED <<tail, window, timer, window_size, trySend>> BY <1>5 DEF TakeAck
  <2>2. SendSide(e)' /\ SendSide(Peer(e))' BY <1>1, <1>3, <2>1 DEF SendSide
  <2>3. tail'[e] <= recv_tail[Peer(e)] BY <1>1, <2>1 DEF Between
  <2>4. QED BY <1>1, <1>3, <1>4, <2>1, <2>2, <2>3 DEF TypeOK
<1>6. CASE tail[e] < m.ack /\ m.ack <= head[e]
  <2>0. Acknowledged(e, m.ack) BY <1>6 DEF TakeAck
  <2>1. /\ tail' = [tail EXCEPT ![e] = m.ack]
        /\ window' = [window EXCEPT ![e] = Freed(@, tail[e], m.ack)]
        /\ timer' = [timer EXCEPT ![e] = head[e] > m.ack]
    BY <2>0 DEF Acknowledged, Freed
  <2>a. tail \in [Ends -> Nat] /\ timer \in [Ends -> BOOLEAN] BY <1>1 DEF TypeOK
  <2>b. tail' \in [Ends -> Nat] /\ tail'[e] = m.ack /\ tail'[Peer(e)] = tail[Peer(e)]
    BY <1>0, <1>2, <2>1, <2>a
  <2>c. /\ timer' \in [Ends -> BOOLEAN] /\ timer'[Peer(e)] = timer[Peer(e)]
        /\ timer'[e] = (head[e] > m.ack)
    <3> DEFINE more == head[e] > m.ack
    <3>1. more \in BOOLEAN BY <1>2
    <3>2. timer' = [timer EXCEPT ![e] = more] BY <2>1
    <3> HIDE DEF more
    <3>3. /\ timer' \in [Ends -> BOOLEAN] /\ timer'[Peer(e)] = timer[Peer(e)]
          /\ timer'[e] = more
      BY <1>0, <2>a, <3>1, <3>2
    <3>4. QED BY <3>3 DEF more
  <2>2. /\ tail' \in [Ends -> Nat] /\ tail'[e] = m.ack /\ tail'[Peer(e)] = tail[Peer(e)]
        /\ timer' \in [Ends -> BOOLEAN] /\ timer'[Peer(e)] = timer[Peer(e)]
        /\ timer'[e] <=> head[e] > m.ack
    BY <2>b, <2>c
  <2>3. tail[e] <= head[e] /\ head[e] - tail[e] <= MAX_WINDOW /\ Holds(window[e], tail[e], head[e])
    BY <1>1 DEF SendSide
  <2>4. /\ Freed(window[e], tail[e], m.ack) \in [Slots -> Nat \cup {NULL}]
        /\ Holds(Freed(window[e], tail[e], m.ack), m.ack, head[e])
    BY <1>2, <1>6, <2>3, WindowFreed
  <2>5. /\ window' \in [Ends -> [Slots -> Nat \cup {NULL}]] /\ window'[Peer(e)] = window[Peer(e)]
        /\ Holds(window'[e], tail'[e], head[e])
    BY <1>0, <1>1, <2>1, <2>2, <2>4 DEF TypeOK
  <2>6. tail'[e] <= head[e] /\ head[e] - tail'[e] <= MAX_WINDOW
    BY <1>2, <1>6, <2>2, <2>3
  <2>7. SendSide(e)' BY <1>1, <1>3, <2>2, <2>5, <2>6 DEF SendSide
  <2>8. SendSide(Peer(e))' BY <1>1, <1>3, <2>2, <2>5 DEF SendSide
  <2>9. tail'[e] <= recv_tail[Peer(e)] BY <1>1, <2>2 DEF Between
  <2>10. /\ trySend' \in [Ends -> BOOLEAN]
         /\ window_size' \in [Ends -> Minimum_Window..MAX_WINDOW]
    <3>1. trySend' \in [Ends -> BOOLEAN] BY <1>1, <2>0 DEF Acknowledged, TypeOK
    <3>2. CASE UNCHANGED window_size BY <1>1, <3>1, <3>2 DEF TypeOK
    <3>3. ASSUME NEW w \in Grown(e, m.ack - tail[e]),
                 window_size' = [window_size EXCEPT ![e] = w]
          PROVE  window_size' \in [Ends -> Minimum_Window..MAX_WINDOW]
      <4>1. window_size[e] \in Minimum_Window..MAX_WINDOW
            /\ ssthresh[e] \in Minimum_Window..MAX_WINDOW
        BY <1>1 DEF TypeOK
      <4>2. m.ack - tail[e] \in Nat BY <1>2, <1>6
      <4>3. AtMost(m.ack - tail[e], AtLeast(ssthresh[e] - window_size[e], 0)) \in Nat
        BY <4>1, <4>2, Constants DEF AtMost, AtLeast
      <4>4. w \in Minimum_Window..MAX_WINDOW
        BY <3>3, <4>1, <4>2, <4>3, Constants DEF Grown, AtMost
      <4>5. QED BY <1>1, <3>3, <4>4 DEF TypeOK
    <3>4. QED BY <2>0, <3>1, <3>2, <3>3 DEF Acknowledged
  <2>11. QED BY <1>3, <1>4, <2>2, <2>5, <2>7, <2>8, <2>9, <2>10
<1>7. QED BY <1>5, <1>6

\* A new packet goes into the receive window: it has room for it, its slots say what was
\* delivered, and this packet was not.
LEMMA TakeDataKeeps ==
    ASSUME LinkInv, NEW e \in Ends, NEW n \in Nat, n < head[Peer(e)], Fresh(e, n), TakeData(e, n)
    PROVE  /\ RecvSide(e)' /\ RecvSide(Peer(e))'
           /\ recv_tail[e] <= recv_tail'[e] /\ recv_head'[e] <= head[Peer(e)]
           /\ recv_tail'[Peer(e)] = recv_tail[Peer(e)] /\ recv_head'[Peer(e)] = recv_head[Peer(e)]
           /\ recv_tail' \in [Ends -> Nat] /\ recv_head' \in [Ends -> Nat]
           /\ recv_window' \in [Ends -> [Slots -> {"empty", "received", "nack"}]]
           /\ DOMAIN delivered' = Ends
           /\ \A d \in Ends : delivered'[d] \in [Numbers(Peer(d)) -> Nat]
           /\ n \in Numbers(Peer(e)) /\ delivered[e][n] = 0
           /\ delivered' = [delivered EXCEPT ![e][n] = 1]
<1> DEFINE p == Peer(e)
           low == recv_tail[e]
           newHead == AtLeast(recv_head[e], n + 1)
<1>0. p \in Ends /\ p # e /\ p = Peer(e) /\ e = Peer(p) /\ \A d \in Ends : d = e \/ d = p
  BY TwoEnds
<1> HIDE DEF p
<1>1. TypeOK /\ SendSide(p) /\ RecvSide(e) /\ RecvSide(p) /\ Between(p) /\ Between(e)
  BY <1>0 DEF LinkInv
<1>2. /\ recv_head[e] \in Nat /\ low \in Nat /\ MAX_WINDOW \in Nat
      /\ head[p] \in Nat /\ tail[p] \in Nat /\ seq_no[p] \in Nat /\ Messages[p] \in Nat
      /\ Len(msg_buff[p]) \in Nat
      /\ recv_window[e] \in [Slots -> {"empty", "received", "nack"}]
  BY <1>0, <1>1, LinkTypes, Constants
<1>a. recv_head' = [recv_head EXCEPT ![e] = newHead] BY DEF TakeData
<1>b. PICK newTail \in low..newHead :
        /\ \A k \in low..(newTail - 1) : HasReceived(e, n, k)
        /\ newTail < newHead => ~HasReceived(e, n, newTail)
        /\ recv_tail' = [recv_tail EXCEPT ![e] = newTail]
        /\ recv_window' = [recv_window EXCEPT ![e] =
              [s \in Slots |->
                  IF \E k \in low..(newTail - 1) : Slot(k) = s THEN "empty"
                  ELSE IF s = Slot(n) THEN "received" ELSE @[s]]]
  BY DEF TakeData
<1>c. delivered' = [delivered EXCEPT ![e][n] = @ + 1] BY DEF TakeData
<1>3. low <= recv_head[e] /\ recv_head[e] <= low + MAX_WINDOW BY <1>1 DEF RecvSide
<1>4. n < low + MAX_WINDOW /\ low <= n
  <2>1. tail[p] <= low BY <1>0, <1>1 DEF Between
  <2>2. head[p] - tail[p] <= MAX_WINDOW BY <1>1 DEF SendSide
  <2>3. n < head[p] /\ n >= low BY <1>0 DEF Fresh
  <2>4. QED BY <1>2, <2>1, <2>2, <2>3
<1>5. /\ newHead \in Nat /\ recv_head[e] <= newHead /\ n < newHead /\ newHead <= low + MAX_WINDOW
      /\ newHead = recv_head[e] \/ newHead = n + 1
  BY <1>2, <1>3, <1>4 DEF AtLeast
<1>6. newHead <= head[p]
  <2>1. recv_head[e] <= head[p] BY <1>0, <1>1 DEF Between
  <2>2. QED BY <1>0, <1>2, <1>5, <2>1
<1>7. n \in Numbers(p)
  <2>1. Len(msg_buff[p]) = seq_no[p] - head[p] /\ seq_no[p] <= Messages[p] BY <1>1 DEF SendSide
  <2>2. n < Messages[p] BY <1>0, <1>2, <2>1
  <2>3. QED BY <1>2, <2>2 DEF Numbers
<1> HIDE DEF newHead
<1>8. newTail \in Nat /\ low <= newTail /\ newTail <= newHead BY <1>2, <1>5
<1>9. /\ recv_tail' \in [Ends -> Nat] /\ recv_head' \in [Ends -> Nat]
      /\ recv_tail'[e] = newTail /\ recv_head'[e] = newHead
      /\ recv_tail'[p] = recv_tail[p] /\ recv_head'[p] = recv_head[p]
  <2>1. recv_tail \in [Ends -> Nat] /\ recv_head \in [Ends -> Nat] BY <1>1 DEF TypeOK
  <2>2. QED BY <1>0, <1>5, <1>8, <1>a, <1>b, <2>1
<1> DEFINE marks == [s \in Slots |-> IF \E k \in low..(newTail - 1) : Slot(k) = s THEN "empty"
                                    ELSE IF s = Slot(n) THEN "received" ELSE recv_window[e][s]]
<1>10. marks \in [Slots -> {"empty", "received", "nack"}] BY <1>2
<1>11. /\ recv_window' \in [Ends -> [Slots -> {"empty", "received", "nack"}]]
       /\ recv_window'[e] = marks /\ recv_window'[p] = recv_window[p]
  <2>1. recv_window' = [recv_window EXCEPT ![e] = marks] BY <1>b
  <2>2. recv_window \in [Ends -> [Slots -> {"empty", "received", "nack"}]] BY <1>1 DEF TypeOK
  <2> HIDE DEF marks
  <2>3. QED BY <1>0, <1>10, <2>1, <2>2
<1>12. \A s \in Slots : marks[s] = IF \E k \in low..(newTail - 1) : Slot(k) = s THEN "empty"
                                  ELSE IF s = Slot(n) THEN "received" ELSE recv_window[e][s]
  OBVIOUS
<1> HIDE DEF marks, low
<1>13. Slot(n) \in Slots BY SlotInSlots
<1>14. ASSUME NEW a \in low..(low + MAX_WINDOW - 1), NEW b \in low..(low + MAX_WINDOW - 1),
              Slot(a) = Slot(b)
       PROVE  a = b
  BY <1>2, <1>14, SlotsDiffer
<1>15. n \in low..(low + MAX_WINDOW - 1) BY <1>2, <1>4
\* Marks are in the window only.
<1>16. ASSUME NEW j \in low..(low + MAX_WINDOW - 1), recv_window[e][Slot(j)] # "empty"
       PROVE  j < recv_head[e]
  <2>1. Slot(j) \in Slots BY <1>2, SlotInSlots
  <2>2. PICK k \in low..(recv_head[e] - 1) : Slot(k) = Slot(j)
    BY <1>1, <1>16, <2>1 DEF RecvSide, low
  <2>3. k \in low..(low + MAX_WINDOW - 1) BY <1>2, <1>3
  <2>4. k = j BY <1>14, <2>2, <2>3
  <2>5. QED BY <1>2, <2>4
<1>17. delivered[e][n] = 0
  <2>1. recv_window[e][Slot(n)] # "received" BY DEF Fresh
  <2>2. ~(n < low) BY <1>2, <1>4
  <2>3. QED BY <1>0, <1>1, <1>7, <2>1, <2>2 DEF RecvSide, low
<1>18. delivered' = [delivered EXCEPT ![e][n] = 1] BY <1>c, <1>17
<1>19. DOMAIN delivered = Ends /\ \A d \in Ends : delivered[d] \in [Numbers(Peer(d)) -> Nat]
  BY <1>1 DEF TypeOK
<1>20. /\ DOMAIN delivered' = Ends /\ delivered'[p] = delivered[p]
       /\ delivered'[e] = [delivered[e] EXCEPT ![n] = 1]
  BY <1>0, <1>18, <1>19
<1>21. delivered'[e][n] = 1 /\ \A j \in Numbers(p) : j # n => delivered'[e][j] = delivered[e][j]
  BY <1>0, <1>7, <1>19, <1>20
<1>22. \A d \in Ends : delivered'[d] \in [Numbers(Peer(d)) -> Nat]
  <2>1. delivered'[e] \in [Numbers(Peer(e)) -> Nat]
    <3> DEFINE f == delivered[e]
               D == Numbers(Peer(e))
    <3>1. f \in [D -> Nat] BY <1>19
    <3> HIDE DEF f, D
    <3>2. [f EXCEPT ![n] = 1] \in [D -> Nat] BY <3>1
    <3>3. QED BY <1>20, <3>2 DEF f, D
  <2>2. delivered'[p] \in [Numbers(Peer(p)) -> Nat] BY <1>0, <1>19, <1>20
  <2>3. QED BY <1>0, <2>1, <2>2
\* What the new marks say of each packet.
<1>23. ASSUME NEW j \in Numbers(p)
       PROVE  delivered'[e][j] = IF j < newTail \/ (j < newHead /\ marks[Slot(j)] = "received")
                                 THEN 1 ELSE 0
  <2>0. j \in Nat /\ Slot(j) \in Slots BY <1>2, SlotInSlots DEF Numbers
  <2>1. CASE j = n
    <3>1. CASE n < newTail BY <1>21, <2>1, <3>1
    <3>2. CASE newTail <= n
      <4>1. ~\E k \in low..(newTail - 1) : Slot(k) = Slot(n)
        <5>1. ASSUME NEW k \in low..(newTail - 1), Slot(k) = Slot(n) PROVE FALSE
          <6>1. k \in low..(low + MAX_WINDOW - 1) BY <1>2, <1>5, <1>8
          <6>2. k = n BY <1>14, <1>15, <5>1, <6>1
          <6>3. QED BY <1>2, <1>8, <3>2, <6>2
        <5>2. QED BY <5>1
      <4>2. marks[Slot(n)] = "received" BY <1>12, <1>13, <4>1
      <4>3. QED BY <1>5, <1>21, <2>1, <4>2
    <3>3. QED BY <1>8, <3>1, <3>2
  <2>2. CASE j # n
    <3>1. delivered'[e][j] = delivered[e][j] BY <1>21, <2>2
    <3>2. delivered[e][j] = IF j < low \/ (j < recv_head[e] /\ recv_window[e][Slot(j)] = "received")
                            THEN 1 ELSE 0
      BY <1>0, <1>1 DEF RecvSide, low
    <3>3. CASE j < low BY <1>2, <1>8, <2>0, <3>1, <3>2, <3>3
    <3>4. CASE low <= j /\ j < newHead
      <4>0. j \in low..(low + MAX_WINDOW - 1) BY <1>2, <1>5, <2>0, <3>4
      <4>1. Slot(j) # Slot(n) BY <1>14, <1>15, <2>2, <4>0
      <4>2. recv_window[e][Slot(j)] = "received" => j < recv_head[e] BY <1>16, <4>0
      <4>3. CASE j < newTail
        <5>1. j \in low..(newTail - 1) BY <1>2, <1>8, <2>0, <3>4, <4>3
        <5>2. recv_window[e][Slot(j)] = "received" BY <1>b, <4>1, <5>1 DEF HasReceived
        <5>3. QED BY <3>1, <3>2, <4>2, <4>3, <5>2
      <4>4. CASE newTail <= j
        <5>1. ASSUME NEW k \in low..(newTail - 1), Slot(k) = Slot(j) PROVE FALSE
          <6>1. k \in low..(low + MAX_WINDOW - 1) BY <1>2, <1>5, <1>8
          <6>2. k = j BY <1>14, <4>0, <5>1, <6>1
          <6>3. QED BY <1>2, <1>8, <4>4, <6>2
        <5>2. marks[Slot(j)] = recv_window[e][Slot(j)] BY <1>12, <2>0, <4>1, <5>1
        <5>3. ~(j < low) /\ ~(j < newTail) BY <1>2, <1>8, <2>0, <3>4, <4>4
        <5>4. QED BY <3>1, <3>2, <3>4, <4>2, <5>2, <5>3
      <4>5. QED BY <1>8, <2>0, <4>3, <4>4
    <3>5. CASE newHead <= j
      <4>1. ~(j < low) /\ ~(j < recv_head[e]) /\ ~(j < newTail) /\ ~(j < newHead)
        BY <1>2, <1>3, <1>5, <1>8, <2>0, <3>5
      <4>2. QED BY <3>1, <3>2, <4>1
    <3>6. QED BY <1>2, <1>5, <2>0, <3>3, <3>4, <3>5
  <2>3. QED BY <2>1, <2>2
<1>24. ASSUME NEW s \in Slots, marks[s] # "empty"
       PROVE  \E k \in newTail..(newHead - 1) : Slot(k) = s
  <2>1. /\ ~\E k \in low..(newTail - 1) : Slot(k) = s
        /\ s = Slot(n) \/ recv_window[e][s] # "empty"
    BY <1>12, <1>24
  <2>2. PICK k \in low..(newHead - 1) : Slot(k) = s
    <3>1. CASE s = Slot(n)
      <4>1. n \in low..(newHead - 1) BY <1>2, <1>4, <1>5
      <4>2. QED BY <3>1, <4>1
    <3>2. CASE recv_window[e][s] # "empty"
      <4>1. PICK k \in low..(recv_head[e] - 1) : Slot(k) = s BY <1>1, <3>2 DEF RecvSide, low
      <4>2. k \in low..(newHead - 1) BY <1>2, <1>5, <4>1
      <4>3. QED BY <4>1, <4>2
    <3>3. QED BY <2>1, <3>1, <3>2
  <2>3. k \notin low..(newTail - 1) BY <2>1, <2>2
  <2>4. k \in newTail..(newHead - 1) BY <1>2, <1>5, <1>8, <2>2, <2>3
  <2>5. QED BY <2>2, <2>4
<1>25. RecvSide(e)'
  <2>1. newTail <= newHead /\ newHead <= newTail + MAX_WINDOW BY <1>2, <1>5, <1>8
  <2>2. Numbers(Peer(e)) = Numbers(p) BY <1>0
  <2>3. QED BY <1>9, <1>11, <1>23, <1>24, <2>1, <2>2 DEF RecvSide
<1>26. RecvSide(p)' BY <1>1, <1>9, <1>11, <1>20 DEF RecvSide
<1>27. recv_tail[e] <= recv_tail'[e] BY <1>8, <1>9 DEF low
<1>28. QED BY <1>0, <1>6, <1>7, <1>9, <1>11, <1>17, <1>18, <1>20, <1>22, <1>25, <1>26, <1>27

\* A step that reads a datagram: what is under way, and what the ends take for delivered,
\* is right after it if the receive windows only went on.
LEMMA ReadingKeeps ==
    ASSUME LinkInv, NEW e \in Ends, NEW m \in net[e], ReadFrom(e, m),
           tail'[e] <= recv_tail[Peer(e)], tail'[Peer(e)] = tail[Peer(e)],
           tail' \in [Ends -> Nat], recv_tail' \in [Ends -> Nat], recv_head' \in [Ends -> Nat],
           recv_tail[e] <= recv_tail'[e], recv_head'[e] <= head[Peer(e)],
           recv_tail'[Peer(e)] = recv_tail[Peer(e)], recv_head'[Peer(e)] = recv_head[Peer(e)],
           UNCHANGED head
    PROVE  \A d \in Ends : Between(d)'
<1> DEFINE p == Peer(e)
<1>0. p \in Ends /\ p # e /\ p = Peer(e) /\ e = Peer(p) /\ \A d \in Ends : d = e \/ d = p
  BY TwoEnds
<1> HIDE DEF p
<1>1. TypeOK /\ Between(e) /\ Between(p) BY <1>0 DEF LinkInv
<1>2. /\ head[e] \in Nat /\ head[p] \in Nat /\ tail[e] \in Nat /\ tail[p] \in Nat
      /\ recv_tail[e] \in Nat /\ recv_tail[p] \in Nat /\ recv_tail'[e] \in Nat
      /\ \A x \in net[p] : x.ack \in Nat
  BY <1>0, <1>1, LinkTypes
<1>3. net'[e] \subseteq net[e] /\ net'[p] = net[p] BY <1>0, <1>1, ReadLeaves
<1>4. Between(e)'
  <2>1. tail'[e] <= recv_tail'[p] /\ recv_head'[p] <= head'[e] BY <1>0, <1>1 DEF Between
  <2>2. \A x \in net[e] : /\ x.ack <= recv_tail[p] /\ \A n \in x.nacks : n < head[e]
                          /\ x.type = "data" => x.seq < head[p]
    BY <1>0, <1>1 DEF Between
  <2>3. recv_tail'[p] = recv_tail[p] BY <1>0
  <2>4. QED BY <1>0, <1>3, <2>1, <2>2, <2>3 DEF Between
<1>5. Between(p)'
  <2>1. tail'[p] <= recv_tail'[e] /\ recv_head'[e] <= head'[p]
    <3>1. tail[p] <= recv_tail[e] BY <1>0, <1>1 DEF Between
    <3>2. QED BY <1>0, <1>2, <3>1
  <2>2. ASSUME NEW x \in net[p]
        PROVE  /\ x.ack <= recv_tail'[e] /\ \A n \in x.nacks : n < head[p]
               /\ x.type = "data" => x.seq < head[e]
    <3>1. /\ x.ack <= recv_tail[e] /\ \A n \in x.nacks : n < head[p]
          /\ x.type = "data" => x.seq < head[e]
      BY <1>0, <1>1 DEF Between
    <3>2. QED BY <1>2, <3>1
  <2>3. QED BY <1>0, <1>3, <2>1, <2>2 DEF Between
<1>6. QED BY <1>0, <1>4, <1>5

\* A data packet is delivered or passed over, and its tail may open the window.
LEMMA ReceiveDataKeeps ==
    ASSUME LinkInv, NEW e \in Ends, NEW m \in net[e], ReceiveData(e, m)
    PROVE  LinkInv'
<1>0. /\ Peer(e) \in Ends /\ Peer(e) # e /\ \A d \in Ends : d = e \/ d = Peer(e) BY TwoEnds
<1>1. TypeOK /\ \A d \in Ends : RecvSide(d) /\ Between(d) BY DEF LinkInv
<1>2. /\ ReadFrom(e, m) /\ TakeAck(e, m) /\ m.type = "data"
      /\ scheduled_ack' = [scheduled_ack EXCEPT ![e] = TRUE]
  BY DEF ReceiveData
<1>3. m.seq \in Nat /\ m.seq < head[Peer(e)] BY <1>1, <1>2, LinkTypes DEF Between
<1>4. /\ SendSide(e)' /\ SendSide(Peer(e))'
      /\ tail'[e] <= recv_tail[Peer(e)] /\ tail'[Peer(e)] = tail[Peer(e)]
      /\ tail' \in [Ends -> Nat] /\ window' \in [Ends -> [Slots -> Nat \cup {NULL}]]
      /\ timer' \in [Ends -> BOOLEAN] /\ trySend' \in [Ends -> BOOLEAN]
      /\ nack_buff' \in [Ends -> SUBSET Nat] /\ retransm' \in [Ends -> BOOLEAN]
      /\ window_size' \in [Ends -> Minimum_Window..MAX_WINDOW]
      /\ UNCHANGED <<flags, seq_no, head, msg_buff, blocked, ssthresh>>
  BY <1>2, TakeAckKeeps
<1>5. /\ \A d \in Ends : RecvSide(d)'
      /\ recv_tail[e] <= recv_tail'[e] /\ recv_head'[e] <= head[Peer(e)]
      /\ recv_tail'[Peer(e)] = recv_tail[Peer(e)] /\ recv_head'[Peer(e)] = recv_head[Peer(e)]
      /\ recv_tail' \in [Ends -> Nat] /\ recv_head' \in [Ends -> Nat]
      /\ recv_window' \in [Ends -> [Slots -> {"empty", "received", "nack"}]]
      /\ DOMAIN delivered' = Ends
      /\ \A d \in Ends : delivered'[d] \in [Numbers(Peer(d)) -> Nat]
  <2>1. CASE m.ack <= head[e] /\ Fresh(e, m.seq)
    <3>1. TakeData(e, m.seq) BY <2>1 DEF ReceiveData
    <3>2. QED BY <1>0, <1>3, <2>1, <3>1, TakeDataKeeps
  <2>2. CASE ~(m.ack <= head[e] /\ Fresh(e, m.seq))
    <3>1. UNCHANGED <<recv_tail, recv_head, delivered, recv_window>>
      BY <2>2 DEF ReceiveData, recvVars
    <3>2. \A d \in Ends : RecvSide(d)' BY <1>1, <3>1 DEF RecvSide
    <3>3. recv_tail[e] \in Nat /\ recv_head[e] <= head[Peer(e)]
      <4>1. Peer(Peer(e)) = e BY TwoEnds
      <4>2. QED BY <1>0, <1>1, <4>1, LinkTypes DEF Between
    <3>4. QED BY <1>0, <1>1, <3>1, <3>2, <3>3 DEF TypeOK
  <2>3. QED BY <2>1, <2>2
<1>6. \A d \in Ends : Between(d)' BY <1>2, <1>4, <1>5, ReadingKeeps
<1>7. TypeOK'
  <2>1. net' \in [Ends -> SUBSET Datagram] BY <1>1, <1>2, ReadLeaves
  <2>2. scheduled_ack' \in [Ends -> BOOLEAN] BY <1>1, <1>2 DEF TypeOK
  <2>3. QED BY <1>1, <1>4, <1>5, <2>1, <2>2 DEF TypeOK
<1>8. QED BY <1>0, <1>4, <1>5, <1>6, <1>7 DEF LinkInv

\* So may an acknowledgement on its own.
LEMMA ReceiveAckKeeps ==
    ASSUME LinkInv, NEW e \in Ends, NEW m \in net[e], ReceiveAck(e, m) \/ Drop(e, m)
    PROVE  LinkInv'
<1>0. /\ Peer(e) \in Ends /\ Peer(e) # e /\ \A d \in Ends : d = e \/ d = Peer(e) BY TwoEnds
<1>1. TypeOK /\ \A d \in Ends : SendSide(d) /\ RecvSide(d) /\ Between(d) BY DEF LinkInv
<1>2. ReadFrom(e, m) /\ UNCHANGED <<recv_tail, recv_head, delivered, recv_window, scheduled_ack>>
  BY DEF ReceiveAck, Drop, recvVars
<1>3. /\ SendSide(e)' /\ SendSide(Peer(e))'
      /\ tail'[e] <= recv_tail[Peer(e)] /\ tail'[Peer(e)] = tail[Peer(e)]
      /\ tail' \in [Ends -> Nat] /\ window' \in [Ends -> [Slots -> Nat \cup {NULL}]]
      /\ timer' \in [Ends -> BOOLEAN] /\ trySend' \in [Ends -> BOOLEAN]
      /\ nack_buff' \in [Ends -> SUBSET Nat] /\ retransm' \in [Ends -> BOOLEAN]
      /\ window_size' \in [Ends -> Minimum_Window..MAX_WINDOW]
      /\ UNCHANGED <<flags, seq_no, head, msg_buff, blocked, ssthresh>>
  <2>1. CASE ReceiveAck(e, m) BY <2>1, TakeAckKeeps DEF ReceiveAck
  <2>2. CASE Drop(e, m)
    <3>1. UNCHANGED <<flags, seq_no, head, tail, window, msg_buff, blocked, window_size, ssthresh,
                      nack_buff, timer, retransm, trySend>>
      BY <2>2 DEF Drop, sendVars, congVars
    <3>2. SendSide(e)' /\ SendSide(Peer(e))' BY <1>0, <1>1, <3>1 DEF SendSide
    <3>3. tail'[e] <= recv_tail[Peer(e)] BY <1>1, <3>1 DEF Between
    <3>4. QED BY <1>1, <3>1, <3>2, <3>3 DEF TypeOK
  <2>3. QED BY <2>1, <2>2
<1>4. \A d \in Ends : RecvSide(d)' BY <1>1, <1>2 DEF RecvSide
<1>5. /\ recv_tail' \in [Ends -> Nat] /\ recv_head' \in [Ends -> Nat]
      /\ recv_tail[e] <= recv_tail'[e] /\ recv_head'[e] <= head[Peer(e)]
  <2>1. Peer(Peer(e)) = e BY TwoEnds
  <2>2. recv_tail[e] \in Nat /\ recv_head[e] <= head[Peer(e)]
    BY <1>0, <1>1, <2>1, LinkTypes DEF Between
  <2>3. QED BY <1>1, <1>2, <2>2 DEF TypeOK
<1>6. \A d \in Ends : Between(d)' BY <1>2, <1>3, <1>5, ReadingKeeps
<1>7. TypeOK'
  <2>1. net' \in [Ends -> SUBSET Datagram] BY <1>1, <1>2, ReadLeaves
  <2>2. QED BY <1>1, <1>2, <1>3, <2>1 DEF TypeOK
<1>8. QED BY <1>0, <1>3, <1>4, <1>6, <1>7 DEF LinkInv

-----------------------------------------------------------------------------
(* Theorems *)

\* Initially both windows are empty.
LEMMA LinkInvInit == Init => LinkInv
<1> SUFFICES ASSUME Init PROVE LinkInv OBVIOUS
<1>1. TypeOK
  <2>1. \A e \in Ends : [n \in Numbers(Peer(e)) |-> 0] \in [Numbers(Peer(e)) -> Nat] OBVIOUS
  <2>2. /\ DOMAIN delivered = Ends
        /\ \A e \in Ends : delivered[e] \in [Numbers(Peer(e)) -> Nat]
    BY <2>1 DEF Init
  <2>3. window_size \in [Ends -> Minimum_Window..MAX_WINDOW]
        /\ ssthresh \in [Ends -> Minimum_Window..MAX_WINDOW]
    BY Constants DEF Init
  <2>4. msg_buff \in [Ends -> Seq(Nat)] BY DEF Init
  <2>5. window \in [Ends -> [Slots -> Nat \cup {NULL}]] BY DEF Init
  <2>6. recv_window \in [Ends -> [Slots -> {"empty", "received", "nack"}]] BY DEF Init
  <2>7. net \in [Ends -> SUBSET Datagram] /\ nack_buff \in [Ends -> SUBSET Nat] BY DEF Init
  <2>8. QED BY <2>2, <2>3, <2>4, <2>5, <2>6, <2>7 DEF Init, TypeOK
<1>2. ASSUME NEW e \in Ends PROVE SendSide(e) /\ RecvSide(e) /\ Between(e)
  <2>1. MAX_WINDOW \in Nat /\ Messages[e] \in Nat /\ Peer(e) \in Ends BY Constants, TwoEnds
  <2>2. /\ seq_no[e] = 0 /\ tail[e] = 0 /\ head[e] = 0 /\ recv_tail[e] = 0 /\ recv_head[e] = 0
        /\ msg_buff[e] = <<>> /\ timer[e] = FALSE /\ net[e] = {}
        /\ recv_tail[Peer(e)] = 0 /\ recv_head[Peer(e)] = 0
        /\ \A s \in Slots : window[e][s] = NULL /\ recv_window[e][s] = "empty"
        /\ \A n \in Numbers(Peer(e)) : delivered[e][n] = 0
    BY <2>1 DEF Init
  <2>3. Holds(window[e], tail[e], head[e]) BY <2>2 DEF Holds
  <2>4. SendSide(e) BY <2>1, <2>2, <2>3 DEF SendSide
  <2>5. \A n \in Numbers(Peer(e)) : n \in Nat BY <2>1, Constants DEF Numbers
  <2>6. RecvSide(e) BY <2>1, <2>2, <2>5 DEF RecvSide
  <2>7. Between(e) BY <2>2 DEF Between
  <2>8. QED BY <2>4, <2>6, <2>7
<1>3. QED BY <1>1, <1>2 DEF LinkInv

\* Every step keeps the invariant.
LEMMA LinkInvStep == LinkInv /\ [Next]_vars => LinkInv'
<1> SUFFICES ASSUME LinkInv, [Next]_vars PROVE LinkInv' OBVIOUS
<1>1. CASE UNCHANGED vars
  BY <1>1 DEF LinkInv, TypeOK, SendSide, RecvSide, Between, vars, sendVars, recvVars, congVars
<1>2. ASSUME NEW e \in Ends, EndNext(e) PROVE LinkInv'
  <2>1. CASE Connect(e) \/ NackRetransmIdle(e) BY <2>1, QuietStepsKeep
  <2>2. CASE SendMsg(e) BY <2>2, SendMsgKeeps
  <2>3. CASE TryToSend(e) BY <2>3, TryToSendKeeps
  <2>4. CASE SendAck(e) BY <2>4, SendAckKeeps
  <2>5. CASE Timeout(e) BY <2>5, TimeoutKeeps
  <2>6. CASE NackRetransm(e) BY <2>6, NackRetransmKeeps
  <2>7. ASSUME NEW m \in net[e], Receive(e, m) PROVE LinkInv'
    BY <2>7, ReceiveDataKeeps, ReceiveAckKeeps DEF Receive
  <2>8. QED BY <1>2, <2>1, <2>2, <2>3, <2>4, <2>5, <2>6, <2>7 DEF EndNext
<1>3. QED BY <1>1, <1>2 DEF Next

\* The invariant holds of every behaviour of the link.
THEOREM LinkCorrect == Spec => []LinkInv
<1>1. Init => LinkInv BY LinkInvInit
<1>2. LinkInv /\ [Next]_vars => LinkInv' BY LinkInvStep
<1>3. QED BY <1>1, <1>2, PTL DEF Spec

\* The variables of the link keep their types.
THEOREM LinkTypeCorrect == Spec => []TypeOK
<1>1. LinkInv => TypeOK BY DEF LinkInv
<1>2. QED BY <1>1, LinkCorrect, PTL

\* The send window holds the packets under way and the buffer the ones that follow, so
\* that a retransmission sends what it should (reliable_datagram.c).
THEOREM SendWindowAlwaysHolds == Spec => []SendWindowHolds
<1>1. LinkInv => SendWindowHolds BY DEF LinkInv, SendSide, Holds, SendWindowHolds
<1>2. QED BY <1>1, LinkCorrect, PTL

\* The receive window tells what was delivered, each packet once.
THEOREM ReceiveWindowAlwaysHolds == Spec => []ReceiveWindowHolds
<1>1. LinkInv => ReceiveWindowHolds BY DEF LinkInv, RecvSide, ReceiveWindowHolds
<1>2. QED BY <1>1, LinkCorrect, PTL

\* An end never takes for delivered what is not.
THEOREM EndsAlwaysInStep == Spec => []EndsInStep
<1>1. LinkInv => EndsInStep BY DEF LinkInv, Between, EndsInStep
<1>2. QED BY <1>1, LinkCorrect, PTL

\* Packets under way always have a timer, as the action Timeout takes for granted.
THEOREM TimerAlwaysRuns == Spec => []TimerWhileUnderWay
<1>1. LinkInv => TimerWhileUnderWay BY DEF LinkInv, SendSide, TimerWhileUnderWay
<1>2. QED BY <1>1, LinkCorrect, PTL

-----------------------------------------------------------------------------
(* Blocked sessions *)

\* Sessions stay blocked only while the buffer still has to drain: whatever way it gets
\* short, they are resumed in the same step.
THEOREM BlockedAlwaysMeansFull == Spec => []BlockedMeansFull
<1>1. Init => BlockedMeansFull BY DEF Init, BlockedMeansFull
<1>2. LinkInv /\ BlockedMeansFull /\ [Next]_vars => BlockedMeansFull'
  <2> SUFFICES ASSUME LinkInv, BlockedMeansFull, [Next]_vars PROVE BlockedMeansFull' OBVIOUS
  <2>0. /\ RESUME_BUFF_LINK \in Nat /\ RESUME_BUFF_LINK >= 1 /\ MAX_BUFF_LINK \in Nat
        /\ RESUME_BUFF_LINK <= MAX_BUFF_LINK
    BY LinkAssumption
  <2>1. CASE UNCHANGED <<msg_buff, blocked>> BY <2>1 DEF BlockedMeansFull
  <2>2. ASSUME NEW e \in Ends, NEW queue \in Seq(Nat), SendMuch(e, queue),
               Len(queue) >= Len(msg_buff[e])
        PROVE  BlockedMeansFull'
    <3> DEFINE k == Admitted(e, Len(queue))
               old == Len(msg_buff[e])
               rest == SubSeq(queue, k + 1, Len(queue))
               stays == \/ Len(queue) > old /\ k < Len(queue) /\ Len(queue) - k > MAX_BUFF_LINK
                        \/ blocked[e] /\ ~(old > 0 /\ k > 0 /\ old - k < RESUME_BUFF_LINK)
    <3>1. TypeOK /\ head[e] - tail[e] <= MAX_WINDOW BY DEF LinkInv, SendSide
    <3>2. k \in 0..Len(queue) /\ Len(queue) \in Nat /\ old \in Nat
      BY <3>1, RoomForAdmitted, LinkTypes
    <3>3. msg_buff' = [msg_buff EXCEPT ![e] = rest] /\ blocked' = [blocked EXCEPT ![e] = stays]
      <4>1. msg_buff' = [msg_buff EXCEPT ![e] = rest] BY <2>2 DEF SendMuch
      <4>2. Blocking(e, queue, k) BY <2>2 DEF SendMuch
      <4> HIDE DEF k, rest
      <4>3. blocked' = [blocked EXCEPT ![e] = stays] BY <4>2, Zenon DEF Blocking
      <4>4. QED BY <4>1, <4>3
    <3>4. Len(rest) = Len(queue) - k
      <4>1. k + 1 \in Int /\ \A i \in (k + 1)..Len(queue) : queue[i] \in Nat BY <3>2
      <4>2. Len(rest) = IF k + 1 <= Len(queue) THEN Len(queue) - (k + 1) + 1 ELSE 0
        BY <3>2, <4>1, SubSeqProperties
      <4> HIDE DEF k, rest
      <4>3. QED BY <3>2, <4>2
    <3> HIDE DEF k, rest
    <3>5. stays => Len(rest) >= RESUME_BUFF_LINK
      <4>1. blocked[e] => old >= RESUME_BUFF_LINK BY DEF BlockedMeansFull
      <4> HIDE DEF old
      <4>2. QED BY <2>0, <2>2, <3>2, <3>4, <4>1 DEF old
    <3> HIDE DEF stays
    <3>6. msg_buff'[e] = rest /\ blocked'[e] = stays BY <3>1, <3>3 DEF TypeOK
    <3>7. \A d \in Ends : d # e => msg_buff'[d] = msg_buff[d] /\ blocked'[d] = blocked[d]
      BY <3>1, <3>3 DEF TypeOK
    <3>8. QED BY <3>5, <3>6, <3>7 DEF BlockedMeansFull
  <2>3. ASSUME NEW e \in Ends, EndNext(e) PROVE BlockedMeansFull'
    <3>1. msg_buff[e] \in Seq(Nat) /\ seq_no[e] \in Nat /\ Len(msg_buff[e]) \in Nat
      BY LinkTypes DEF LinkInv
    <3>2. CASE SendMsg(e)
      <4>1. Append(msg_buff[e], seq_no[e]) \in Seq(Nat) BY <3>1
      <4>2. Len(Append(msg_buff[e], seq_no[e])) >= Len(msg_buff[e]) BY <3>1
      <4>3. QED BY <2>2, <3>2, <4>1, <4>2 DEF SendMsg
    <3>3. CASE TryToSend(e) BY <2>2, <3>1, <3>3 DEF TryToSend
    <3>4. CASE Connect(e) \/ SendAck(e) \/ Timeout(e) \/ NackRetransmIdle(e) \/ NackRetransm(e)
      BY <2>1, <3>4 DEF Connect, SendAck, Timeout, NackRetransmIdle, NackRetransm, sendVars
    <3>5. CASE \E m \in net[e] : Receive(e, m)
      BY <2>1, <3>5 DEF Receive, ReceiveData, ReceiveAck, Drop, TakeAck, sendVars
    <3>6. QED BY <2>3, <3>2, <3>3, <3>4, <3>5 DEF EndNext
  <2>4. QED BY <2>1, <2>3 DEF Next, vars, sendVars
<1>3. QED BY <1>1, <1>2, LinkCorrect, PTL DEF Spec

-----------------------------------------------------------------------------
(* The channel *)

\* A step of which the channel sees nothing.
LEMMA ChannelStutters ==
    ASSUME UNCHANGED <<seq_no, delivered, tail>>
    PROVE  [Channel!Next]_Channel!chVars
BY DEF Channel!chVars

\* What an acknowledgement tells an end has been delivered.
LEMMA AckLearns ==
    ASSUME LinkInv, NEW e \in Ends, NEW m \in net[e], TakeAck(e, m)
    PROVE  Channel!Learn(e) \/ UNCHANGED tail
<1>1. CASE ~(tail[e] < m.ack /\ m.ack <= head[e]) BY <1>1 DEF TakeAck
<1>2. CASE tail[e] < m.ack /\ m.ack <= head[e]
  <2>0. Peer(e) \in Ends /\ Peer(Peer(e)) = e BY TwoEnds
  <2>1. TypeOK /\ SendSide(e) /\ RecvSide(Peer(e)) /\ Between(e) BY <2>0 DEF LinkInv
  <2>2. /\ tail[e] \in Nat /\ head[e] \in Nat /\ seq_no[e] \in Nat /\ m.ack \in Nat
        /\ Len(msg_buff[e]) \in Nat /\ Messages[e] \in Nat /\ recv_tail[Peer(e)] \in Nat
    BY <2>0, <2>1, LinkTypes, Constants
  <2>3. m.ack <= recv_tail[Peer(e)] BY <2>1 DEF Between
  <2>4. m.ack <= Messages[e]
    <3>1. Len(msg_buff[e]) = seq_no[e] - head[e] /\ seq_no[e] <= Messages[e]
      BY <2>1 DEF SendSide
    <3>2. QED BY <1>2, <2>2, <3>1
  <2> DEFINE k == m.ack - 1
  <2>5. k \in Numbers(e) /\ tail[e] <= k BY <1>2, <2>2, <2>4 DEF Numbers
  <2>6. ASSUME NEW n \in 0..k PROVE delivered[Peer(e)][n] = 1
    <3>1. n \in Numbers(e) /\ n < recv_tail[Peer(e)] BY <2>2, <2>3, <2>4 DEF Numbers
    <3>2. QED BY <2>0, <2>1, <3>1 DEF RecvSide
  <2>7. tail' = [tail EXCEPT ![e] = k + 1]
    <3>1. tail' = [tail EXCEPT ![e] = m.ack] BY <1>2 DEF TakeAck, Acknowledged
    <3>2. k + 1 = m.ack BY <2>2
    <3>3. QED BY <3>1, <3>2
  <2> HIDE DEF k
  <2>8. k \in Channel!Numbers(e) BY <2>5 DEF Channel!Numbers, Numbers
  <2>9. \A n \in 0..k : delivered[Channel!Peer(e)][n] = 1
    BY <2>6 DEF Channel!Peer, Peer
  <2>10. QED BY <2>5, <2>7, <2>8, <2>9 DEF Channel!Learn
<1>3. QED BY <1>1, <1>2

\* A data packet is delivered or has no effect that the channel sees.
LEMMA DataDelivers ==
    ASSUME LinkInv, NEW e \in Ends, NEW m \in net[e], ReceiveData(e, m)
    PROVE  Channel!Deliver(e) \/ UNCHANGED delivered
<1>1. CASE ~(m.ack <= head[e] /\ Fresh(e, m.seq)) BY <1>1 DEF ReceiveData, recvVars
<1>2. CASE m.ack <= head[e] /\ Fresh(e, m.seq)
  <2> DEFINE n == m.seq
             p == Peer(e)
  <2>0. p \in Ends BY TwoEnds
  <2>1. TypeOK /\ SendSide(p) /\ Between(e) BY <2>0 DEF LinkInv
  <2>2. n \in Nat /\ n < head[p] /\ TakeData(e, n)
    BY <1>2, <2>1, LinkTypes DEF ReceiveData, Between
  <2>3. n \in Numbers(p) /\ delivered[e][n] = 0 /\ delivered' = [delivered EXCEPT ![e][n] = 1]
    BY <1>2, <2>2, TakeDataKeeps
  <2>4. n < seq_no[p]
    <3>1. head[p] \in Nat /\ seq_no[p] \in Nat /\ Len(msg_buff[p]) \in Nat
      BY <2>0, <2>1, LinkTypes
    <3>2. Len(msg_buff[p]) = seq_no[p] - head[p] BY <2>1 DEF SendSide
    <3>3. QED BY <2>2, <3>1, <3>2
  <2> HIDE DEF n
  <2>5. p = Channel!Peer(e) /\ Numbers(p) = Channel!Numbers(Channel!Peer(e))
    BY DEF Channel!Peer, Peer, Channel!Numbers, Numbers
  <2> HIDE DEF p
  <2>6. QED BY <2>3, <2>4, <2>5 DEF Channel!Deliver
<1>3. QED BY <1>1, <1>2

\* The link implements the reliable channel: whatever the network loses, duplicates or
\* overtakes, each message is delivered once, and an end takes for delivered only what is.
THEOREM LinkImplementsChannel == Spec => ImplementsChannel
<1>1. Init => Channel!Init
  BY DEF Init, Channel!Init, Channel!Ends, Ends, Channel!Numbers, Numbers, Channel!Peer, Peer
<1>2. LinkInv /\ [Next]_vars => [Channel!Next]_Channel!chVars
  <2> SUFFICES ASSUME LinkInv, [Next]_vars PROVE [Channel!Next]_Channel!chVars OBVIOUS
  <2>1. CASE UNCHANGED vars
    BY <2>1, ChannelStutters DEF vars, sendVars, recvVars
  <2>2. ASSUME NEW e \in Ends, EndNext(e) PROVE [Channel!Next]_Channel!chVars
    <3>0. e \in Channel!Ends BY DEF Channel!Ends, Ends
    <3>1. CASE SendMsg(e)
      <4>1. Channel!Accept(e) BY <3>1 DEF SendMsg, recvVars, Channel!Accept
      <4>2. QED BY <3>0, <4>1 DEF Channel!Next
    <3>2. CASE \/ Connect(e) \/ TryToSend(e) \/ SendAck(e) \/ Timeout(e)
               \/ NackRetransmIdle(e) \/ NackRetransm(e)
      <4>1. UNCHANGED <<seq_no, delivered, tail>>
        BY <3>2 DEF Connect, TryToSend, SendAck, Timeout, NackRetransmIdle, NackRetransm,
                    sendVars, recvVars
      <4>2. QED BY <4>1, ChannelStutters
    <3>3. ASSUME NEW m \in net[e], Receive(e, m) PROVE [Channel!Next]_Channel!chVars
      <4>1. CASE ReceiveData(e, m)
        <5>1. TakeAck(e, m) /\ UNCHANGED seq_no BY <4>1 DEF ReceiveData, TakeAck
        <5>2. Channel!Hear(e) BY <4>1, <5>1, AckLearns, DataDelivers DEF Channel!Hear
        <5>3. QED BY <3>0, <5>2 DEF Channel!Next
      <4>2. CASE ReceiveAck(e, m)
        <5>1. TakeAck(e, m) /\ UNCHANGED <<seq_no, delivered>>
          BY <4>2 DEF ReceiveAck, TakeAck, recvVars
        <5>2. Channel!Hear(e) BY <5>1, AckLearns DEF Channel!Hear
        <5>3. QED BY <3>0, <5>2 DEF Channel!Next
      <4>3. CASE Drop(e, m)
        <5>1. UNCHANGED <<seq_no, delivered, tail>> BY <4>3 DEF Drop, sendVars, recvVars
        <5>2. QED BY <5>1, ChannelStutters
      <4>4. QED BY <3>3, <4>1, <4>2, <4>3 DEF Receive
    <3>4. QED BY <2>2, <3>1, <3>2, <3>3 DEF EndNext
  <2>3. QED BY <2>1, <2>2 DEF Next
<1>3. QED BY <1>1, <1>2, LinkCorrect, PTL DEF Spec, ImplementsChannel, Channel!Spec
=============================================================================
