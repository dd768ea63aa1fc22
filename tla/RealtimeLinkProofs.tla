------------------------- MODULE RealtimeLinkProofs -------------------------
(***************************************************************************)
(* The real-time link of Spines, whatever the length of its histories, its   *)
(* tokens, the packets sent and the datagrams under way: the history of the  *)
(* sending end has what it is asked for, and the marks of the receiving end  *)
(* tell what was delivered.                                                 *)
(***************************************************************************)
EXTENDS RealtimeLink, SequenceTheorems, FiniteSetTheorems, TLAPS

-----------------------------------------------------------------------------
(* The inductive invariant *)

\* No packet is under way or taken that was not sent.
OnlySent ==
    /\ rt_head <= RtPackets /\ rt_recv_head <= rt_head
    /\ \A n \in rt_data_net : n < rt_head

\* Behind the head nothing has been delivered, so that a slot may be cleared for it.
NothingAhead == \A n \in RtNumbers : n >= rt_recv_head => rt_delivered[n] = 0

RtInv == RtLinkTypeOK /\ HistoryHolds /\ MarksTell /\ OnlySent /\ NothingAhead

-----------------------------------------------------------------------------
(* Slots *)

\* The constants that the proofs below use, with their types.
LEMMA RtConstants ==
    /\ MAX_HISTORY \in Nat /\ MAX_HISTORY > 0 /\ MAX_BUCKET \in Nat
    /\ RT_RETRANSM_TOK \in Nat /\ RtPackets \in Nat
BY RtLinkAssumption

\* Division by the length of the history.
LEMMA RtDivision ==
    ASSUME NEW n \in Nat, n > 0, NEW a \in Int
    PROVE  a = n * (a \div n) + (a % n)
OBVIOUS

\* A packet has a slot.
LEMMA RtSlotInSlots ==
    ASSUME NEW n \in Int
    PROVE  RtSlot(n) \in RtSlots /\ RtSlot(n) \in Int
BY RtConstants DEF RtSlot, RtSlots

\* Two packets less than a history apart have different slots.
LEMMA RtSlotApart ==
    ASSUME NEW a \in Int, NEW b \in Int, a <= b, b < a + MAX_HISTORY, RtSlot(a) = RtSlot(b)
    PROVE  a = b
<1> DEFINE Histories(k) == MAX_HISTORY * k
           q == a \div MAX_HISTORY
           r == b \div MAX_HISTORY
<1>1. MAX_HISTORY \in Nat /\ MAX_HISTORY > 0 BY RtConstants
<1>2. q \in Int /\ r \in Int /\ RtSlot(a) \in Int BY <1>1 DEF RtSlot
<1>3. a = Histories(q) + RtSlot(a) BY <1>1, RtDivision DEF RtSlot
<1>4. b = Histories(r) + RtSlot(b) BY <1>1, RtDivision DEF RtSlot
<1> HIDE DEF q, r
<1>5. /\ Histories(r) \in Int /\ Histories(q) \in Int
      /\ r - q >= 1 => Histories(r) - Histories(q) >= MAX_HISTORY
      /\ r - q <= -1 => Histories(q) - Histories(r) >= MAX_HISTORY
  <2>1. \A k \in Int : k >= 1 => MAX_HISTORY * k >= MAX_HISTORY BY <1>1
  <2>2. /\ MAX_HISTORY * (r - q) = Histories(r) - Histories(q)
        /\ MAX_HISTORY * (q - r) = Histories(q) - Histories(r)
    BY <1>1, <1>2
  <2>3. Histories(r) \in Int /\ Histories(q) \in Int BY <1>1, <1>2
  <2> HIDE DEF Histories
  <2>4. QED BY <1>2, <2>1, <2>2, <2>3
<1> HIDE DEF Histories
<1>6. ~(r - q >= 1) /\ ~(r - q <= -1) BY <1>1, <1>2, <1>3, <1>4, <1>5
<1>7. r = q BY <1>2, <1>6
<1>8. QED BY <1>3, <1>4, <1>7

\* The same, whichever of the two comes first.
LEMMA RtSlotsDiffer ==
    ASSUME NEW a \in Int, NEW b \in Int, a # b, a < b + MAX_HISTORY, b < a + MAX_HISTORY
    PROVE  RtSlot(a) # RtSlot(b)
<1>1. CASE a <= b BY <1>1, RtSlotApart
<1>2. CASE b <= a BY <1>2, RtSlotApart
<1>3. QED BY <1>1, <1>2

\* The types the arithmetic of the link needs.
LEMMA RtTypes ==
    ASSUME RtLinkTypeOK
    PROVE  /\ rt_head \in Nat /\ rt_tail \in Nat /\ rt_recv_head \in Nat /\ rt_recv_tail \in Nat
           /\ rt_window \in [RtSlots -> RtNumbers \cup {RtNull}]
           /\ \A n \in rt_data_net : n \in RtNumbers
           /\ \A n \in RtNumbers : n \in Nat /\ rt_delivered[n] \in Nat
           /\ RtNull = -1
BY RtConstants DEF RtLinkTypeOK, RtNumbers, RtNull

\* What is sent is in the network or was before.
LEMMA RtSentOnly ==
    ASSUME NEW net, NEW burst, NEW after \in RtSent(net, burst)
    PROVE  \A m \in after : m \in net \/ m \in burst
BY DEF RtSent

\* Reading a datagram puts none into the network.
LEMMA RtReadLeaves ==
    ASSUME NEW net, NEW m, NEW after \in RtRead(net, m)
    PROVE  after \subseteq net
BY DEF RtRead

\* The receiving end and what it knows rest.
LEMMA ReceiverRests ==
    ASSUME RtInv, UNCHANGED rtRecvVars, rt_head' \in Nat, rt_head' >= rt_head,
           rt_head' <= RtPackets, \A n \in rt_data_net' : n < rt_head'
    PROVE  MarksTell' /\ OnlySent' /\ NothingAhead'
<1>1. MarksTell'
  BY DEF RtInv, MarksTell, Marked, rtRecvVars
<1>2. NothingAhead' BY DEF RtInv, NothingAhead, rtRecvVars
<1>3. rt_recv_head <= rt_head /\ rt_head \in Nat /\ rt_recv_head \in Nat
  BY RtTypes DEF RtInv, OnlySent
<1>4. OnlySent' BY <1>3 DEF OnlySent, rtRecvVars
<1>5. QED BY <1>1, <1>2, <1>4

-----------------------------------------------------------------------------
(* The sending end *)

\* Cleaning forgets the packets that are too old, and no other.
LEMMA CleanedHolds ==
    ASSUME RtLinkTypeOK, HistoryHolds, NEW t \in rt_tail..rt_head
    PROVE  /\ Cleaned(t) \in [RtSlots -> RtNumbers \cup {RtNull}]
           /\ \A n \in t..(rt_head - 1) : Cleaned(t)[RtSlot(n)] = n
           /\ \A s \in RtSlots : Cleaned(t)[s] # RtNull => Cleaned(t)[s] \in t..(rt_head - 1)
<1>1. /\ rt_head \in Nat /\ rt_tail \in Nat /\ RtNull = -1 /\ t \in Nat
      /\ rt_window \in [RtSlots -> RtNumbers \cup {RtNull}]
  BY RtTypes
<1>2. \A s \in RtSlots : Cleaned(t)[s] = IF rt_window[s] < t THEN RtNull ELSE rt_window[s]
  BY DEF Cleaned
<1>3. Cleaned(t) \in [RtSlots -> RtNumbers \cup {RtNull}] BY <1>1 DEF Cleaned
<1>4. ASSUME NEW n \in t..(rt_head - 1) PROVE Cleaned(t)[RtSlot(n)] = n
  <2>1. n \in rt_tail..(rt_head - 1) /\ n \in Int BY <1>1
  <2>2. rt_window[RtSlot(n)] = n /\ RtSlot(n) \in RtSlots
    BY <2>1, RtSlotInSlots DEF HistoryHolds
  <2>3. QED BY <1>1, <1>2, <2>2
<1>5. ASSUME NEW s \in RtSlots, Cleaned(t)[s] # RtNull
      PROVE  Cleaned(t)[s] \in t..(rt_head - 1)
  <2>1. Cleaned(t)[s] = rt_window[s] /\ ~(rt_window[s] < t) BY <1>2, <1>5
  <2>2. rt_window[s] \in rt_tail..(rt_head - 1) BY <1>5, <2>1 DEF HistoryHolds
  <2>3. QED BY <1>1, <2>1, <2>2
<1>6. QED BY <1>3, <1>4, <1>5

\* A new packet takes the slot of one that is forgotten in the same step.
LEMMA ForwardRTKeeps ==
    ASSUME RtInv, ForwardRT
    PROVE  RtInv'
<1>1. RtLinkTypeOK /\ HistoryHolds BY DEF RtInv
<1>2. /\ rt_head \in Nat /\ rt_tail \in Nat /\ RtNull = -1 /\ rt_tail <= rt_head
      /\ MAX_HISTORY \in Nat /\ MAX_HISTORY > 0 /\ RtPackets \in Nat
      /\ rt_head - rt_tail <= MAX_HISTORY
  BY <1>1, RtTypes, RtConstants DEF HistoryHolds
<1>3. rt_head < RtPackets /\ rt_head' = rt_head + 1 BY DEF ForwardRT
<1>4. PICK t \in rt_tail..rt_head :
        /\ rt_tail' = IF rt_head - t >= MAX_HISTORY THEN t + 1 ELSE t
        /\ rt_window' = [Cleaned(rt_tail') EXCEPT ![RtSlot(rt_head)] = rt_head]
  BY DEF ForwardRT
<1> DEFINE T == rt_tail'
<1>5. T \in rt_tail..rt_head /\ T \in Nat /\ rt_head - T < MAX_HISTORY
  BY <1>2, <1>4
<1>6. rt_window' = [Cleaned(T) EXCEPT ![RtSlot(rt_head)] = rt_head] BY <1>4
<1> HIDE DEF T
<1>7. /\ Cleaned(T) \in [RtSlots -> RtNumbers \cup {RtNull}]
      /\ \A n \in T..(rt_head - 1) : Cleaned(T)[RtSlot(n)] = n
      /\ \A s \in RtSlots : Cleaned(T)[s] # RtNull => Cleaned(T)[s] \in T..(rt_head - 1)
  BY <1>1, <1>5, CleanedHolds
<1>8. RtSlot(rt_head) \in RtSlots BY <1>2, RtSlotInSlots
<1>9. /\ rt_window'[RtSlot(rt_head)] = rt_head
      /\ \A s \in RtSlots : s # RtSlot(rt_head) => rt_window'[s] = Cleaned(T)[s]
  BY <1>6, <1>7, <1>8
<1>10. rt_head \in RtNumbers BY <1>2, <1>3 DEF RtNumbers
<1>11. rt_window' \in [RtSlots -> RtNumbers \cup {RtNull}] BY <1>6, <1>7, <1>10
<1>12. \A n \in T..rt_head : rt_window'[RtSlot(n)] = n
  <2>1. ASSUME NEW n \in T..(rt_head - 1) PROVE rt_window'[RtSlot(n)] = n
    <3>1. n \in Int /\ n # rt_head /\ n < rt_head + MAX_HISTORY /\ rt_head < n + MAX_HISTORY
      BY <1>2, <1>5
    <3>2. RtSlot(n) # RtSlot(rt_head) /\ RtSlot(n) \in RtSlots
      BY <1>2, <3>1, RtSlotsDiffer, RtSlotInSlots
    <3>3. QED BY <1>7, <1>9, <3>2
  <2>2. QED BY <1>2, <1>5, <1>9, <2>1
<1>13. \A s \in RtSlots : rt_window'[s] # RtNull => rt_window'[s] \in T..rt_head
  <2>1. ASSUME NEW s \in RtSlots, rt_window'[s] # RtNull PROVE rt_window'[s] \in T..rt_head
    <3>1. CASE s = RtSlot(rt_head) BY <1>2, <1>5, <1>9, <3>1
    <3>2. CASE s # RtSlot(rt_head)
      <4>1. rt_window'[s] = Cleaned(T)[s] BY <1>9, <3>2
      <4>2. rt_window'[s] \in T..(rt_head - 1) BY <1>7, <2>1, <4>1
      <4>3. QED BY <1>2, <1>5, <4>2
    <3>3. QED BY <3>1, <3>2
  <2>2. QED BY <2>1
<1>14. HistoryHolds'
  <2>1. T <= rt_head + 1 /\ (rt_head + 1) - T <= MAX_HISTORY /\ (rt_head + 1) - 1 = rt_head
    BY <1>2, <1>5
  <2>2. QED BY <1>3, <1>12, <1>13, <2>1 DEF HistoryHolds, T
<1>15. \A n \in rt_data_net' : n \in RtNumbers /\ n < rt_head'
  <2>1. \A n \in rt_data_net' : n \in rt_data_net \/ n = rt_head
    BY RtSentOnly DEF ForwardRT
  <2>2. \A n \in rt_data_net : n \in RtNumbers /\ n < rt_head /\ n \in Nat
    BY <1>1, RtTypes DEF RtInv, OnlySent
  <2>3. QED BY <1>2, <1>3, <1>10, <2>1, <2>2
<1>16. UNCHANGED rtRecvVars BY DEF ForwardRT
<1>17. MarksTell' /\ OnlySent' /\ NothingAhead'
  BY <1>2, <1>3, <1>15, <1>16, ReceiverRests
<1>18. RtLinkTypeOK'
  <2>1. bucket' \in 0..MAX_BUCKET
    <3>1. bucket \in 0..MAX_BUCKET /\ MAX_BUCKET \in Nat
      BY <1>1, RtConstants DEF RtLinkTypeOK
    <3>2. bucket' = IF bucket < MAX_BUCKET THEN bucket + 1 ELSE bucket BY DEF ForwardRT
    <3>3. QED BY <3>1, <3>2
  <2>2. UNCHANGED <<retransm_buff, rt_retransm, rt_nack_net>> BY DEF ForwardRT
  <2>3. rt_head' \in Nat /\ rt_tail' \in Nat BY <1>2, <1>3, <1>5 DEF T
  <2>4. rt_data_net' \subseteq RtNumbers BY <1>15
  <2>5. QED BY <1>1, <1>11, <1>16, <2>1, <2>2, <2>3, <2>4 DEF RtLinkTypeOK, rtRecvVars
<1>19. QED BY <1>14, <1>17, <1>18 DEF RtInv

\* What is resent are packets of the history, because their slots still hold them.
LEMMA SendRetransmKeeps ==
    ASSUME RtInv, SendRetransm
    PROVE  RtInv'
<1>1. RtLinkTypeOK /\ HistoryHolds BY DEF RtInv
<1>2. /\ rt_head \in Nat /\ rt_tail \in Nat /\ rt_tail <= rt_head
      /\ rt_head - rt_tail <= MAX_HISTORY /\ MAX_HISTORY \in Nat /\ rt_head <= RtPackets
      /\ RtPackets \in Nat
  BY <1>1, RtTypes, RtConstants DEF HistoryHolds, RtInv, OnlySent
<1>3. PICK t \in rt_tail..rt_head, last \in 0..Len(retransm_buff) :
        LET sent == {i \in 1..last : t <= retransm_buff[i] /\ retransm_buff[i] < rt_head}
            cost == Cardinality(sent) * RT_RETRANSM_TOK
        IN  /\ cost <= bucket
            /\ bucket' = bucket - cost
            /\ rt_tail' = t
            /\ rt_window' = Cleaned(t)
            /\ rt_data_net' \in
                  RtSent(rt_data_net, {Cleaned(t)[RtSlot(retransm_buff[i])] : i \in sent})
  BY DEF SendRetransm
<1> DEFINE sent == {i \in 1..last : t <= retransm_buff[i] /\ retransm_buff[i] < rt_head}
           cost == Cardinality(sent) * RT_RETRANSM_TOK
<1>4. rt_tail' = t /\ rt_window' = Cleaned(t) BY <1>3
<1>5. cost <= bucket /\ bucket' = bucket - cost BY <1>3
<1>6. rt_data_net' \in RtSent(rt_data_net, {Cleaned(t)[RtSlot(retransm_buff[i])] : i \in sent})
  BY <1>3
<1>7. /\ rt_retransm' = FALSE /\ retransm_buff' = <<>>
      /\ UNCHANGED <<rt_head, rtRecvVars, rt_nack_net>>
  BY DEF SendRetransm
<1>8. /\ Cleaned(t) \in [RtSlots -> RtNumbers \cup {RtNull}]
      /\ \A n \in t..(rt_head - 1) : Cleaned(t)[RtSlot(n)] = n
      /\ \A s \in RtSlots : Cleaned(t)[s] # RtNull => Cleaned(t)[s] \in t..(rt_head - 1)
  BY <1>1, CleanedHolds
<1>9. HistoryHolds'
  <2>1. t <= rt_head /\ rt_head - t <= MAX_HISTORY BY <1>2
  <2>2. QED BY <1>4, <1>7, <1>8, <2>1 DEF HistoryHolds
<1>10. \A n \in rt_data_net' : n \in RtNumbers /\ n < rt_head
  <2>1. \A i \in sent : Cleaned(t)[RtSlot(retransm_buff[i])] \in t..(rt_head - 1)
    <3>1. ASSUME NEW i \in sent
          PROVE  Cleaned(t)[RtSlot(retransm_buff[i])] \in t..(rt_head - 1)
      <4>1. retransm_buff \in Seq(RtNumbers) BY <1>1 DEF RtLinkTypeOK
      <4>2. i \in 1..Len(retransm_buff) /\ t <= retransm_buff[i] /\ retransm_buff[i] < rt_head
        BY <4>1
      <4>3. retransm_buff[i] \in RtNumbers BY <4>1, <4>2
      <4> HIDE DEF sent
      <4>4. retransm_buff[i] \in t..(rt_head - 1) BY <1>2, <4>2, <4>3 DEF RtNumbers
      <4>5. QED BY <1>8, <4>4
    <3>2. QED BY <3>1
  <2>2. \A n \in rt_data_net' :
          n \in rt_data_net \/ \E i \in sent : n = Cleaned(t)[RtSlot(retransm_buff[i])]
    BY <1>6, RtSentOnly
  <2> HIDE DEF sent
  <2>3. \A n \in t..(rt_head - 1) : n \in RtNumbers /\ n < rt_head BY <1>2 DEF RtNumbers
  <2>4. \A n \in rt_data_net : n \in RtNumbers /\ n < rt_head
    BY <1>1, RtTypes DEF RtInv, OnlySent
  <2>5. QED BY <2>1, <2>2, <2>3, <2>4
<1>11. MarksTell' /\ OnlySent' /\ NothingAhead'
  BY <1>2, <1>7, <1>10, ReceiverRests
<1>12. bucket' \in 0..MAX_BUCKET
  <2>1. bucket \in 0..MAX_BUCKET /\ MAX_BUCKET \in Nat /\ RT_RETRANSM_TOK \in Nat
    BY <1>1, RtConstants DEF RtLinkTypeOK
  <2>2. Cardinality(sent) \in Nat
    <3>1. Len(retransm_buff) \in Nat BY <1>1, LenProperties DEF RtLinkTypeOK
    <3>2. last \in Int /\ IsFiniteSet(1..last) BY <3>1, FS_Interval
    <3>3. IsFiniteSet(sent) BY <3>2, FS_Subset
    <3>4. QED BY <3>3, FS_CardinalityType
  <2> HIDE DEF sent
  <2>3. cost \in Nat BY <2>1, <2>2
  <2> HIDE DEF cost
  <2>4. QED BY <1>5, <2>1, <2>3
<1> HIDE DEF sent, cost
<1>13. RtLinkTypeOK'
  <2>1. retransm_buff' \in Seq(RtNumbers) BY <1>7
  <2>2. rt_tail' \in Nat /\ rt_window' \in [RtSlots -> RtNumbers \cup {RtNull}]
    BY <1>2, <1>4, <1>8
  <2>3. rt_data_net' \subseteq RtNumbers BY <1>10
  <2>4. QED BY <1>1, <1>7, <1>12, <2>1, <2>2, <2>3 DEF RtLinkTypeOK, rtRecvVars
<1>14. QED BY <1>9, <1>11, <1>13 DEF RtInv

\* NACKs change nothing that is promised.
LEMMA TakeNacksKeeps ==
    ASSUME RtInv, NEW m \in rt_nack_net, TakeNacks(m)
    PROVE  RtInv'
<1>1. RtLinkTypeOK /\ HistoryHolds BY DEF RtInv
<1>2. UNCHANGED <<rt_head, rt_tail, rt_window, bucket, rtRecvVars, rt_data_net>>
  BY DEF TakeNacks
<1>3. HistoryHolds' BY <1>1, <1>2 DEF HistoryHolds
<1>4. rt_nack_net' \subseteq rt_nack_net BY RtReadLeaves DEF TakeNacks
<1>5. retransm_buff' = m /\ rt_retransm' = TRUE BY DEF TakeNacks
<1>6. RtLinkTypeOK' BY <1>1, <1>2, <1>4, <1>5 DEF RtLinkTypeOK, rtRecvVars
<1>7. MarksTell' BY <1>2 DEF RtInv, MarksTell, Marked, rtRecvVars
<1>8. OnlySent' /\ NothingAhead' BY <1>2 DEF RtInv, OnlySent, NothingAhead, rtRecvVars
<1>9. QED BY <1>3, <1>6, <1>7, <1>8 DEF RtInv

-----------------------------------------------------------------------------
(* The receiving end *)

\* The same of sending NACKs.
LEMMA SendNackKeeps ==
    ASSUME RtInv, SendNack
    PROVE  RtInv'
<1>1. RtLinkTypeOK BY DEF RtInv
<1>2. /\ UNCHANGED rtSendVars
      /\ UNCHANGED <<rt_recv_head, rt_recv_tail, rt_recv_window>>
      /\ UNCHANGED <<arrivals, expired, rt_delivered, rt_data_net>>
  BY DEF SendNack
<1>3. HistoryHolds' BY <1>2 DEF RtInv, HistoryHolds, rtSendVars
<1>4. \A l \in rt_nack_net' : l \in rt_nack_net \/ l = rt_nack_buff
  BY RtSentOnly DEF SendNack
<1>5. rt_nack_net' \subseteq Seq(RtNumbers) BY <1>1, <1>4 DEF RtLinkTypeOK
<1>6. rt_nack_buff' = <<>> /\ rt_nack' = FALSE BY DEF SendNack
<1>7. RtLinkTypeOK'
  <2>1. UNCHANGED <<rt_head, rt_tail, rt_window, retransm_buff>> BY <1>2 DEF rtSendVars
  <2>2. UNCHANGED <<rt_retransm, bucket>> BY <1>2 DEF rtSendVars
  <2>3. rt_nack_buff' \in Seq(RtNumbers) BY <1>6
  <2>4. rt_nack' \in BOOLEAN BY <1>6
  <2>5. QED BY <1>1, <1>2, <1>5, <2>1, <2>2, <2>3, <2>4 DEF RtLinkTypeOK
<1>8. MarksTell' BY <1>2 DEF RtInv, MarksTell, Marked
<1>9. OnlySent' /\ NothingAhead'
  BY <1>2 DEF RtInv, OnlySent, NothingAhead, rtSendVars
<1>10. QED BY <1>3, <1>7, <1>8, <1>9 DEF RtInv

\* A packet that is ignored leaves no trace.
LEMMA IgnoreRTKeeps ==
    ASSUME RtInv, NEW n \in rt_data_net, IgnoreRT(n)
    PROVE  RtInv'
<1>1. RtLinkTypeOK BY DEF RtInv
<1>2. UNCHANGED rtSendVars /\ UNCHANGED rtRecvVars /\ UNCHANGED rt_nack_net BY DEF IgnoreRT
<1>3. rt_data_net' \subseteq rt_data_net BY RtReadLeaves DEF IgnoreRT
<1>4. HistoryHolds' BY <1>2 DEF RtInv, HistoryHolds, rtSendVars
<1>5. RtLinkTypeOK' BY <1>1, <1>2, <1>3 DEF RtLinkTypeOK, rtSendVars, rtRecvVars
<1>6. MarksTell' BY <1>2 DEF RtInv, MarksTell, Marked, rtRecvVars
<1>7. OnlySent' /\ NothingAhead'
  BY <1>2, <1>3 DEF RtInv, OnlySent, NothingAhead, rtSendVars, rtRecvVars
<1>8. QED BY <1>4, <1>5, <1>6, <1>7 DEF RtInv

\* A function on the first n numbers is a sequence.
LEMMA AFunctionIsASeq ==
    ASSUME NEW S, NEW n \in Nat, NEW f \in [1..n -> S]
    PROVE  f \in Seq(S)
OBVIOUS

\* What is asked for has been skipped.
LEMMA NacksUpToType ==
    ASSUME RtLinkTypeOK, NEW n \in RtNumbers
    PROVE  NacksUpTo(n) \in Seq(RtNumbers)
<1> DEFINE room == MaxNacks - Len(rt_nack_buff)
           asked == IF n - rt_recv_head < room THEN n - rt_recv_head ELSE room
           skipped == [i \in 1..asked |-> rt_recv_head + i - 1]
<1>1. rt_nack_buff \in Seq(RtNumbers) BY DEF RtLinkTypeOK
<1>2. rt_recv_head \in Nat /\ n \in Nat /\ RtPackets \in Nat /\ n < RtPackets
  BY RtTypes, RtConstants DEF RtNumbers
<1>3. room \in Int BY <1>1, LenProperties, RtLinkAssumption
<1> HIDE DEF room
<1>4. asked \in Int /\ asked <= n - rt_recv_head BY <1>2, <1>3
<1> HIDE DEF asked
<1>5. \A i \in 1..asked : rt_recv_head + i - 1 \in RtNumbers BY <1>2, <1>4 DEF RtNumbers
<1>6. skipped \in Seq(RtNumbers)
  <2>1. CASE asked >= 0
    <3>1. asked \in Nat BY <1>4, <2>1
    <3>2. skipped \in [1..asked -> RtNumbers] BY <1>5
    <3>3. QED BY <3>1, <3>2, AFunctionIsASeq
  <2>2. CASE asked < 0
    <3>1. 1..asked = 1..0 BY <1>4, <2>2
    <3>2. skipped \in [1..0 -> RtNumbers] BY <1>5, <3>1
    <3>3. QED BY <3>2, AFunctionIsASeq
  <2> HIDE DEF skipped
  <2>3. QED BY <1>4, <2>1, <2>2
<1> HIDE DEF skipped
<1>7. rt_nack_buff \o skipped \in Seq(RtNumbers) BY <1>1, <1>6, ConcatProperties
<1>8. QED BY <1>7 DEF NacksUpTo, skipped, asked, room

\* What a packet changes at the receiving end: the tail, the head, and the marks.
LEMMA TakeRTWindow ==
    ASSUME RtInv, NEW n \in rt_data_net, TakeRT(n)
    PROVE  /\ rt_recv_tail' \in Nat /\ rt_recv_tail <= rt_recv_tail'
           /\ rt_recv_head' = IF n >= rt_recv_head THEN n + 1 ELSE rt_recv_head
           /\ rt_recv_tail' <= rt_recv_head' /\ rt_recv_head' <= rt_recv_tail' + MAX_HISTORY
<1>1. /\ rt_recv_tail \in Nat /\ rt_recv_head \in Nat /\ n \in Nat
      /\ MAX_HISTORY \in Nat /\ MAX_HISTORY > 0
      /\ rt_recv_tail <= rt_recv_head /\ rt_recv_head <= rt_recv_tail + MAX_HISTORY
  BY RtTypes, RtConstants DEF RtInv, MarksTell
<1>2. PICK aged \in rt_recv_tail..rt_recv_head : rt_recv_tail' = TailFor(n, aged)
  BY DEF TakeRT
<1>3. rt_recv_tail' =
        IF n >= rt_recv_head /\ n - aged >= MAX_HISTORY THEN n - MAX_HISTORY + 1 ELSE aged
  BY <1>2 DEF TailFor
<1>4. rt_recv_head' = IF n >= rt_recv_head THEN n + 1 ELSE rt_recv_head BY DEF TakeRT
<1>5. n >= rt_recv_tail BY DEF TakeRT
<1>6. CASE n >= rt_recv_head
  <2>1. CASE n - aged >= MAX_HISTORY BY <1>1, <1>2, <1>3, <1>4, <1>6, <2>1
  <2>2. CASE ~(n - aged >= MAX_HISTORY) BY <1>1, <1>2, <1>3, <1>4, <1>6, <2>2
  <2>3. QED BY <2>1, <2>2
<1>7. CASE ~(n >= rt_recv_head) BY <1>1, <1>2, <1>3, <1>4, <1>7
<1>8. QED BY <1>6, <1>7

\* The slot of the packet is marked; the slots of skipped packets and of those the tail
\* has passed are not; the others stay as they are.
LEMMA TakeRTMarks ==
    ASSUME RtInv, NEW n \in rt_data_net, TakeRT(n)
    PROVE  /\ rt_recv_window' \in [RtSlots -> [flag : BOOLEAN, time : Nat]]
           /\ Marked(n)'
           /\ \A k \in Int : RtSlot(k) # RtSlot(n) =>
                /\ rt_recv_head <= k /\ k < n => ~Marked(k)'
                /\ \/ \E j \in rt_recv_head..(n - 1) : RtSlot(j) = RtSlot(k)
                   \/ \E j \in rt_recv_tail..(rt_recv_tail' - 1) : RtSlot(j) = RtSlot(k)
                   \/ Marked(k)' = Marked(k)
<1> DEFINE skipped == IF n >= rt_recv_head THEN {RtSlot(k) : k \in rt_recv_head..(n - 1)} ELSE {}
           cleared == [s \in RtSlots |-> IF s \in skipped THEN Unmarked
                                         ELSE Emptied(rt_recv_tail, rt_recv_tail')[s]]
           mark == [flag |-> TRUE, time |-> arrivals + 1]
<1>1. /\ rt_recv_window \in [RtSlots -> [flag : BOOLEAN, time : Nat]] /\ arrivals \in Nat
      /\ rt_recv_head \in Nat /\ rt_recv_tail \in Nat /\ n \in Nat
  BY RtTypes DEF RtInv, RtLinkTypeOK
<1>2. rt_recv_window' = [cleared EXCEPT ![RtSlot(n)] = mark] BY DEF TakeRT
<1>3. RtSlot(n) \in RtSlots BY <1>1, RtSlotInSlots
<1>4. \A s \in RtSlots : cleared[s] =
        IF s \in skipped \/ \E j \in rt_recv_tail..(rt_recv_tail' - 1) : RtSlot(j) = s
        THEN Unmarked ELSE rt_recv_window[s]
  BY DEF Emptied
<1>5. Unmarked \in [flag : BOOLEAN, time : Nat] /\ ~Unmarked.flag BY DEF Unmarked
<1>6. DOMAIN cleared = RtSlots OBVIOUS
<1>7. mark \in [flag : BOOLEAN, time : Nat] /\ mark.flag = TRUE BY <1>1
<1>8. cleared \in [RtSlots -> [flag : BOOLEAN, time : Nat]]
  <2>1. cleared = [s \in RtSlots |-> cleared[s]] OBVIOUS
  <2> HIDE DEF cleared
  <2>2. \A s \in RtSlots : cleared[s] \in [flag : BOOLEAN, time : Nat] BY <1>1, <1>4, <1>5
  <2>3. QED BY <2>1, <2>2
<1>9. \A k \in rt_recv_head..(n - 1) : RtSlot(k) \in skipped BY <1>1
<1>10. \A s \in skipped : \E j \in rt_recv_head..(n - 1) : RtSlot(j) = s OBVIOUS
<1> HIDE DEF cleared, mark, skipped
<1>11. rt_recv_window' \in [RtSlots -> [flag : BOOLEAN, time : Nat]] BY <1>2, <1>3, <1>7, <1>8
<1>12. /\ rt_recv_window'[RtSlot(n)] = mark
       /\ \A s \in RtSlots : s # RtSlot(n) => rt_recv_window'[s] = cleared[s]
  BY <1>2, <1>3, <1>6
<1>13. ASSUME NEW k \in Int, RtSlot(k) # RtSlot(n)
       PROVE  /\ rt_recv_head <= k /\ k < n => ~Marked(k)'
              /\ \/ \E j \in rt_recv_head..(n - 1) : RtSlot(j) = RtSlot(k)
                 \/ \E j \in rt_recv_tail..(rt_recv_tail' - 1) : RtSlot(j) = RtSlot(k)
                 \/ Marked(k)' = Marked(k)
  <2>1. RtSlot(k) \in RtSlots BY RtSlotInSlots
  <2>2. rt_recv_window'[RtSlot(k)] = cleared[RtSlot(k)] BY <1>12, <1>13, <2>1
  <2>3. Marked(k)' = cleared[RtSlot(k)].flag BY <2>2 DEF Marked
  <2>4. rt_recv_head <= k /\ k < n => ~Marked(k)'
    <3>1. SUFFICES ASSUME rt_recv_head <= k, k < n PROVE ~Marked(k)' OBVIOUS
    <3>2. k \in rt_recv_head..(n - 1) BY <1>1, <3>1
    <3>3. cleared[RtSlot(k)] = Unmarked BY <1>4, <1>9, <2>1, <3>2
    <3>4. QED BY <1>5, <2>3, <3>3
  <2>5. CASE RtSlot(k) \in skipped BY <1>10, <2>4, <2>5
  <2>6. CASE \E j \in rt_recv_tail..(rt_recv_tail' - 1) : RtSlot(j) = RtSlot(k) BY <2>4, <2>6
  <2>7. CASE /\ RtSlot(k) \notin skipped
             /\ ~\E j \in rt_recv_tail..(rt_recv_tail' - 1) : RtSlot(j) = RtSlot(k)
    <3>1. cleared[RtSlot(k)] = rt_recv_window[RtSlot(k)] BY <1>4, <2>1, <2>7
    <3>2. Marked(k)' = Marked(k) BY <2>3, <3>1 DEF Marked
    <3>3. QED BY <2>4, <3>2
  <2>8. QED BY <2>5, <2>6, <2>7
<1>14. Marked(n)' BY <1>7, <1>12 DEF Marked
<1>15. QED BY <1>11, <1>13, <1>14

\* A packet is taken for the first time, and the marks go on telling what was delivered.
LEMMA TakeRTKeepsMarks ==
    ASSUME RtInv, NEW n \in rt_data_net, TakeRT(n)
    PROVE  MarksTell' /\ NothingAhead'
<1> DEFINE T == rt_recv_tail'
           H == rt_recv_head'
<1>1. /\ rt_recv_tail \in Nat /\ rt_recv_head \in Nat /\ n \in Nat /\ n \in RtNumbers
      /\ MAX_HISTORY \in Nat /\ MAX_HISTORY > 0
      /\ rt_recv_tail <= rt_recv_head /\ rt_recv_head <= rt_recv_tail + MAX_HISTORY
  BY RtTypes, RtConstants DEF RtInv, MarksTell
<1>2. /\ T \in Nat /\ rt_recv_tail <= T
      /\ H = IF n >= rt_recv_head THEN n + 1 ELSE rt_recv_head
      /\ T <= H /\ H <= T + MAX_HISTORY
  BY TakeRTWindow
<1>3. /\ n >= rt_recv_tail /\ n < rt_recv_head => ~Marked(n)
      /\ n >= rt_recv_tail
      /\ rt_delivered' = [rt_delivered EXCEPT ![n] = @ + 1]
  BY DEF TakeRT
<1>4. rt_delivered \in [RtNumbers -> Nat] BY DEF RtInv, RtLinkTypeOK
<1>5. rt_delivered[n] = 0
  <2>1. CASE n >= rt_recv_head BY <1>1, <2>1 DEF RtInv, NothingAhead
  <2>2. CASE ~(n >= rt_recv_head)
    <3>1. n \in rt_recv_tail..(rt_recv_head - 1) /\ n < rt_recv_head BY <1>1, <1>3, <2>2
    <3>2. ~(rt_delivered[n] = 1) /\ rt_delivered[n] <= 1
      BY <1>1, <1>3, <3>1 DEF RtInv, MarksTell
    <3>3. QED BY <1>1, <1>4, <3>2
  <2>3. QED BY <2>1, <2>2
<1>6. rt_delivered'[n] = 1 /\ \A k \in RtNumbers : k # n => rt_delivered'[k] = rt_delivered[k]
  BY <1>1, <1>3, <1>4, <1>5
<1>7. Marked(n)' BY TakeRTMarks
<1>8. \A k \in Int : RtSlot(k) # RtSlot(n) =>
        /\ rt_recv_head <= k /\ k < n => ~Marked(k)'
        /\ \/ \E j \in rt_recv_head..(n - 1) : RtSlot(j) = RtSlot(k)
           \/ \E j \in rt_recv_tail..(T - 1) : RtSlot(j) = RtSlot(k)
           \/ Marked(k)' = Marked(k)
  BY TakeRTMarks
<1>9. n < RtPackets /\ rt_recv_head <= RtPackets /\ RtPackets \in Nat /\ rt_head \in Nat
  BY <1>1, RtTypes, RtConstants DEF RtInv, OnlySent, RtNumbers
<1> HIDE DEF T, H
<1>10. ASSUME NEW k \in T..(H - 1) PROVE Marked(k)' <=> rt_delivered'[k] = 1
  <2>1. k \in Int /\ k \in RtNumbers BY <1>1, <1>2, <1>9 DEF RtNumbers
  <2>2. CASE k = n BY <1>6, <1>7, <2>2
  <2>3. CASE k # n
    <3>1. k < n + MAX_HISTORY /\ n < k + MAX_HISTORY BY <1>1, <1>2, <1>3, <2>1
    <3>2. RtSlot(k) # RtSlot(n) BY <1>1, <2>1, <2>3, <3>1, RtSlotsDiffer
    <3>3. rt_delivered'[k] = rt_delivered[k] BY <1>6, <2>1, <2>3
    <3>4. CASE k >= rt_recv_head
      <4>1. rt_recv_head <= k /\ k < n BY <1>1, <1>2, <2>1, <2>3, <3>4
      <4>2. ~Marked(k)' BY <1>8, <2>1, <3>2, <4>1
      <4>3. rt_delivered[k] = 0 BY <2>1, <3>4 DEF RtInv, NothingAhead
      <4>4. QED BY <3>3, <4>2, <4>3
    <3>5. CASE ~(k >= rt_recv_head)
      <4>1. k \in rt_recv_tail..(rt_recv_head - 1) BY <1>1, <1>2, <2>1, <3>5
      <4>2. Marked(k) <=> rt_delivered[k] = 1 BY <4>1 DEF RtInv, MarksTell
      <4>3. ASSUME NEW j \in rt_recv_head..(n - 1) PROVE RtSlot(j) # RtSlot(k)
        <5>1. j \in Int /\ j # k /\ j < k + MAX_HISTORY /\ k < j + MAX_HISTORY
          BY <1>1, <1>2, <2>1, <3>5, <4>3
        <5>2. QED BY <2>1, <5>1, RtSlotsDiffer
      <4>4. ASSUME NEW j \in rt_recv_tail..(T - 1) PROVE RtSlot(j) # RtSlot(k)
        <5>1. j \in Int /\ j # k /\ j < k + MAX_HISTORY /\ k < j + MAX_HISTORY
          BY <1>1, <1>2, <2>1, <3>5, <4>4
        <5>2. QED BY <2>1, <5>1, RtSlotsDiffer
      <4>5. Marked(k)' = Marked(k) BY <1>8, <2>1, <3>2, <4>3, <4>4
      <4>6. QED BY <3>3, <4>2, <4>5
    <3>6. QED BY <3>4, <3>5
  <2>4. QED BY <2>2, <2>3
<1>11. \A k \in RtNumbers : rt_delivered'[k] <= 1 BY <1>6 DEF RtInv, MarksTell
<1>12. MarksTell' BY <1>2, <1>10, <1>11 DEF MarksTell, T, H
<1>13. NothingAhead'
  <2>1. ASSUME NEW k \in RtNumbers, k >= H PROVE rt_delivered'[k] = 0
    <3>1. k \in Int BY DEF RtNumbers
    <3>2. k # n /\ k >= rt_recv_head BY <1>1, <1>2, <2>1, <3>1
    <3>3. QED BY <1>6, <3>2 DEF RtInv, NothingAhead
  <2>2. QED BY <2>1 DEF NothingAhead, H
<1>14. QED BY <1>12, <1>13

\* So a packet that is taken keeps the invariant.
LEMMA TakeRTKeeps ==
    ASSUME RtInv, NEW n \in rt_data_net, TakeRT(n)
    PROVE  RtInv'
<1>1. RtLinkTypeOK BY DEF RtInv
<1>2. MarksTell' /\ NothingAhead' BY TakeRTKeepsMarks
<1>3. UNCHANGED rtSendVars /\ UNCHANGED rt_nack_net BY DEF TakeRT
<1>4. HistoryHolds' BY <1>3 DEF RtInv, HistoryHolds, rtSendVars
<1>5. rt_data_net' \subseteq rt_data_net BY RtReadLeaves DEF TakeRT
<1>6. /\ rt_head \in Nat /\ rt_recv_head \in Nat /\ n \in Nat /\ n < rt_head /\ n \in RtNumbers
      /\ rt_recv_head <= rt_head /\ rt_head <= RtPackets
  BY <1>1, RtTypes DEF RtInv, OnlySent
<1>7. /\ rt_recv_tail' \in Nat
      /\ rt_recv_head' = IF n >= rt_recv_head THEN n + 1 ELSE rt_recv_head
  BY TakeRTWindow
<1>8. OnlySent'
  <2>1. rt_recv_head' <= rt_head BY <1>6, <1>7
  <2>2. \A k \in rt_data_net' : k < rt_head BY <1>5 DEF RtInv, OnlySent
  <2>3. QED BY <1>3, <1>6, <2>1, <2>2 DEF OnlySent, rtSendVars
<1>9. RtLinkTypeOK'
  <2>1. rt_recv_head' \in Nat BY <1>6, <1>7
  <2>2. rt_recv_window' \in [RtSlots -> [flag : BOOLEAN, time : Nat]] BY TakeRTMarks
  <2>3. rt_nack_buff' \in Seq(RtNumbers)
    <3>1. rt_nack_buff' = IF n >= rt_recv_head THEN NacksUpTo(n) ELSE rt_nack_buff
      BY DEF TakeRT
    <3>2. NacksUpTo(n) \in Seq(RtNumbers) BY <1>1, <1>6, NacksUpToType
    <3>3. rt_nack_buff \in Seq(RtNumbers) BY <1>1 DEF RtLinkTypeOK
    <3>4. QED BY <3>1, <3>2, <3>3
  <2>4. rt_nack' \in BOOLEAN
    <3>1. rt_nack' = (rt_nack \/ (n >= rt_recv_head /\ rt_nack_buff' # <<>>)) BY DEF TakeRT
    <3>2. QED BY <3>1
  <2>5. arrivals' \in Nat /\ expired' \in 0..arrivals'
    <3>1. arrivals \in Nat /\ expired \in 0..arrivals BY <1>1 DEF RtLinkTypeOK
    <3>2. arrivals' = arrivals + 1 /\ expired' \in expired..arrivals BY DEF TakeRT
    <3>3. QED BY <3>1, <3>2
  <2>6. rt_delivered' \in [RtNumbers -> Nat]
    <3>1. rt_delivered \in [RtNumbers -> Nat] BY <1>1 DEF RtLinkTypeOK
    <3>2. rt_delivered' = [rt_delivered EXCEPT ![n] = @ + 1] BY DEF TakeRT
    <3>3. rt_delivered[n] + 1 \in Nat BY <1>6, <3>1
    <3>4. QED BY <3>1, <3>2, <3>3
  <2>7. UNCHANGED <<rt_head, rt_tail, rt_window, retransm_buff>> BY <1>3 DEF rtSendVars
  <2>8. UNCHANGED <<rt_retransm, bucket, rt_nack_net>> BY <1>3 DEF rtSendVars
  <2>9. rt_data_net' \subseteq RtNumbers BY <1>1, <1>5 DEF RtLinkTypeOK
  <2>10. QED
    BY <1>1, <1>7, <2>1, <2>2, <2>3, <2>4, <2>5, <2>6, <2>7, <2>8, <2>9 DEF RtLinkTypeOK
<1>10. QED BY <1>2, <1>4, <1>8, <1>9 DEF RtInv

-----------------------------------------------------------------------------
(* The theorems *)

\* The link starts with nothing sent and nothing marked.
LEMMA RtInvInit == RtInit => RtInv
<1> SUFFICES ASSUME RtInit PROVE RtInv OBVIOUS
<1>1. RtLinkTypeOK
  <2>1. rt_window \in [RtSlots -> RtNumbers \cup {RtNull}] BY DEF RtInit
  <2>2. rt_recv_window \in [RtSlots -> [flag : BOOLEAN, time : Nat]] BY DEF RtInit, Unmarked
  <2>3. rt_delivered \in [RtNumbers -> Nat] BY DEF RtInit
  <2>4. bucket \in 0..MAX_BUCKET BY RtConstants DEF RtInit
  <2>5. arrivals \in Nat /\ expired \in 0..arrivals BY DEF RtInit
  <2>6. retransm_buff \in Seq(RtNumbers) /\ rt_nack_buff \in Seq(RtNumbers) BY DEF RtInit
  <2>7. rt_retransm \in BOOLEAN /\ rt_nack \in BOOLEAN BY DEF RtInit
  <2>8. rt_data_net \subseteq RtNumbers /\ rt_nack_net \subseteq Seq(RtNumbers) BY DEF RtInit
  <2>9. rt_head \in Nat /\ rt_tail \in Nat /\ rt_recv_head \in Nat /\ rt_recv_tail \in Nat
    BY DEF RtInit
  <2>10. QED BY <2>1, <2>2, <2>3, <2>4, <2>5, <2>6, <2>7, <2>8, <2>9 DEF RtLinkTypeOK
<1>2. MAX_HISTORY \in Nat /\ RtPackets \in Nat BY RtConstants
<1>3. HistoryHolds BY <1>2 DEF RtInit, HistoryHolds
<1>4. MarksTell BY <1>2 DEF RtInit, MarksTell
<1>5. OnlySent /\ NothingAhead BY <1>2 DEF RtInit, OnlySent, NothingAhead
<1>6. QED BY <1>1, <1>3, <1>4, <1>5 DEF RtInv

\* Every step keeps the invariant.
LEMMA RtInvStep == RtInv /\ [RtNext]_rtVars => RtInv'
<1> SUFFICES ASSUME RtInv, [RtNext]_rtVars PROVE RtInv' OBVIOUS
<1>1. CASE ForwardRT BY <1>1, ForwardRTKeeps
<1>2. CASE SendRetransm BY <1>2, SendRetransmKeeps
<1>3. CASE SendNack BY <1>3, SendNackKeeps
<1>4. CASE \E m \in rt_nack_net : TakeNacks(m) BY <1>4, TakeNacksKeeps
<1>5. CASE \E n \in rt_data_net : IgnoreRT(n) \/ TakeRT(n)
  BY <1>5, IgnoreRTKeeps, TakeRTKeeps
<1>6. CASE UNCHANGED rtVars
  <2>1. UNCHANGED <<rtSendVars, rtRecvVars, rt_data_net, rt_nack_net>> BY <1>6 DEF rtVars
  <2>2. RtLinkTypeOK' BY <2>1 DEF RtInv, RtLinkTypeOK, rtSendVars, rtRecvVars
  <2>3. HistoryHolds' BY <2>1 DEF RtInv, HistoryHolds, rtSendVars
  <2>4. MarksTell' BY <2>1 DEF RtInv, MarksTell, Marked, rtRecvVars
  <2>5. OnlySent' /\ NothingAhead'
    BY <2>1 DEF RtInv, OnlySent, NothingAhead, rtSendVars, rtRecvVars
  <2>6. QED BY <2>2, <2>3, <2>4, <2>5 DEF RtInv
<1>7. QED BY <1>1, <1>2, <1>3, <1>4, <1>5, <1>6 DEF RtNext

\* The invariant that the others follow from.
THEOREM RtLinkCorrect == RtSpec => []RtInv
<1>1. RtInit => RtInv BY RtInvInit
<1>2. RtInv /\ [RtNext]_rtVars => RtInv' BY RtInvStep
<1>3. QED BY <1>1, <1>2, PTL DEF RtSpec

\* Send_RT_Retransm finds each packet it may resend in its slot (realtime_udp.c).
THEOREM HistoryAlwaysHolds == RtSpec => []HistoryHolds
<1>1. RtInv => HistoryHolds BY DEF RtInv
<1>2. QED BY <1>1, RtLinkCorrect, PTL

\* Process_RT_UDP_data_packet delivers each packet once, and marks what it delivered.
THEOREM MarksAlwaysTell == RtSpec => []MarksTell
<1>1. RtInv => MarksTell BY DEF RtInv
<1>2. QED BY <1>1, RtLinkCorrect, PTL

=============================================================================
