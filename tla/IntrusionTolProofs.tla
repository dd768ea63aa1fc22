------------------------- MODULE IntrusionTolProofs -------------------------
(***************************************************************************)
(* The intrusion-tolerant link of Spines, whatever its window, messages,     *)
(* configuration, loss, duplication, and however often its ends start again: *)
(* the windows stay windows, an acknowledgement between two incarnations     *)
(* that are current proves receipt, and what an end delivers is what the      *)
(* other end has sent, in its order.                                        *)
(***************************************************************************)
EXTENDS IntrusionTolLink, SequenceTheorems, FiniteSetTheorems, WellFoundedInduction, TLAPS

-----------------------------------------------------------------------------
(* Constants, ends and slots *)

\* A packet: a fragment (message and index) and a nonce.
Pkt == Nat \X Nat \X Nat

\* The constants that the proofs below use, with their types.
LEMMA ItConstants ==
    /\ MAX_SEND_ON_LINK \in Nat /\ MAX_SEND_ON_LINK > 0
    /\ FragmentsOf \in [Configurations -> [ItEnds -> Seq(1..MAX_SEND_ON_LINK)]]
    /\ Configurations \subseteq [Crypto : BOOLEAN, Reintroduce : BOOLEAN, TCP_Fairness : BOOLEAN]
BY IntrusionTolAssumption

\* There are two ends.
LEMMA TwoEnds ==
    \A e \in ItEnds :
        /\ Other(e) \in ItEnds /\ Other(e) # e /\ Other(Other(e)) = e
        /\ \A d \in ItEnds : d = e \/ d = Other(e)
BY DEF ItEnds, Other

\* The messages of an end are made of fragments.
LEMMA FragmentsHave ==
    ASSUME it_conf \in Configurations, NEW e \in ItEnds
    PROVE  /\ Fragments[e] \in Seq(1..MAX_SEND_ON_LINK) /\ Len(Fragments[e]) \in Nat
           /\ \A m \in 1..Len(Fragments[e]) : Fragments[e][m] \in Nat /\ Fragments[e][m] >= 1
<1>1. Fragments[e] \in Seq(1..MAX_SEND_ON_LINK) BY ItConstants DEF Fragments
<1>2. MAX_SEND_ON_LINK \in Nat BY ItConstants
<1>3. QED BY <1>1, <1>2

\* A non-empty set of naturals has a least element.
LEMMA LeastNat ==
    ASSUME NEW T, T \subseteq Nat, T # {}
    PROVE  \E x \in T : \A y \in T : x <= y
<1>1. PICK x \in T : \A y \in T : ~(<<y, x>> \in OpToRel(<, Nat))
  BY WFMin, NatLessThanWellFounded
<1>2. ASSUME NEW y \in T PROVE ~(y < x)
  <2>1. <<y, x>> \in Nat \X Nat /\ <<y, x>>[1] = y /\ <<y, x>>[2] = x OBVIOUS
  <2>2. <<y, x>> \notin OpToRel(<, Nat) BY <1>1
  <2>3. QED BY <2>1, <2>2 DEF OpToRel
<1>3. QED BY <1>2

\* Division by the size of a window.
LEMMA ItDivision ==
    ASSUME NEW n \in Nat, n > 0, NEW a \in Int
    PROVE  a = n * (a \div n) + (a % n)
OBVIOUS

\* The remainder, from a quotient.
LEMMA ItRemainder ==
    ASSUME NEW n \in Nat, n > 0, NEW q \in Int, NEW r \in 0..(n - 1)
    PROVE  (n * q + r) % n = r
OBVIOUS

\* A packet has a slot, and packet 0 the first one.
LEMMA ItSlotInSlots ==
    ASSUME NEW n \in Int
    PROVE  ItSlot(n) \in ItSlots /\ ItSlot(n) \in Int /\ ItSlot(0) = 0
BY ItConstants DEF ItSlot, ItSlots

\* Two packets less than a window apart have different slots.
LEMMA ItSlotApart ==
    ASSUME NEW a \in Int, NEW b \in Int, a <= b, b < a + MAX_SEND_ON_LINK, ItSlot(a) = ItSlot(b)
    PROVE  a = b
<1> DEFINE Windows(k) == MAX_SEND_ON_LINK * k
           q == a \div MAX_SEND_ON_LINK
           r == b \div MAX_SEND_ON_LINK
<1>1. MAX_SEND_ON_LINK \in Nat /\ MAX_SEND_ON_LINK > 0 BY ItConstants
<1>2. q \in Int /\ r \in Int /\ ItSlot(a) \in Int BY <1>1 DEF ItSlot
<1>3. a = Windows(q) + ItSlot(a) BY <1>1, ItDivision DEF ItSlot
<1>4. b = Windows(r) + ItSlot(b) BY <1>1, ItDivision DEF ItSlot
<1> HIDE DEF q, r
<1>5. /\ Windows(r) \in Int /\ Windows(q) \in Int
      /\ r - q >= 1 => Windows(r) - Windows(q) >= MAX_SEND_ON_LINK
      /\ r - q <= -1 => Windows(q) - Windows(r) >= MAX_SEND_ON_LINK
  <2>1. \A k \in Int : k >= 1 => MAX_SEND_ON_LINK * k >= MAX_SEND_ON_LINK BY <1>1
  <2>2. /\ MAX_SEND_ON_LINK * (r - q) = Windows(r) - Windows(q)
        /\ MAX_SEND_ON_LINK * (q - r) = Windows(q) - Windows(r)
    BY <1>1, <1>2
  <2>3. Windows(r) \in Int /\ Windows(q) \in Int BY <1>1, <1>2
  <2> HIDE DEF Windows
  <2>4. QED BY <1>2, <2>1, <2>2, <2>3
<1> HIDE DEF Windows
<1>6. ~(r - q >= 1) /\ ~(r - q <= -1) BY <1>1, <1>2, <1>3, <1>4, <1>5
<1>7. r = q BY <1>2, <1>6
<1>8. QED BY <1>3, <1>4, <1>7

\* The same, whichever of the two comes first.
LEMMA ItSlotsDiffer ==
    ASSUME NEW a \in Int, NEW b \in Int, a # b,
           a < b + MAX_SEND_ON_LINK, b < a + MAX_SEND_ON_LINK
    PROVE  ItSlot(a) # ItSlot(b)
<1>1. CASE a <= b BY <1>1, ItSlotApart
<1>2. CASE b <= a BY <1>2, ItSlotApart
<1>3. QED BY <1>1, <1>2

\* A window further on the slots are the same.
LEMMA ItSlotShift ==
    ASSUME NEW a \in Int
    PROVE  ItSlot(a + MAX_SEND_ON_LINK) = ItSlot(a)
<1> DEFINE Windows(k) == MAX_SEND_ON_LINK * k
           q == a \div MAX_SEND_ON_LINK
<1>1. MAX_SEND_ON_LINK \in Nat /\ MAX_SEND_ON_LINK > 0 BY ItConstants
<1>2. q \in Int /\ ItSlot(a) \in 0..(MAX_SEND_ON_LINK - 1) BY <1>1 DEF ItSlot
<1>3. a = Windows(q) + ItSlot(a) BY <1>1, ItDivision DEF ItSlot
<1> HIDE DEF q
<1>4. Windows(q + 1) = Windows(q) + MAX_SEND_ON_LINK /\ Windows(q) \in Int BY <1>1, <1>2
<1>5. (Windows(q + 1) + ItSlot(a)) % MAX_SEND_ON_LINK = ItSlot(a)
  BY <1>1, <1>2, ItRemainder DEF ItSlot
<1> HIDE DEF Windows
<1>6. a + MAX_SEND_ON_LINK = Windows(q + 1) + ItSlot(a) BY <1>1, <1>2, <1>3, <1>4
<1>7. (a + MAX_SEND_ON_LINK) % MAX_SEND_ON_LINK = ItSlot(a) BY <1>5, <1>6
<1>8. QED BY <1>7 DEF ItSlot

-----------------------------------------------------------------------------
(* Packets and digests *)

\* A sequence of packets has packets.
LEMMA PacketsAre ==
    ASSUME NEW w \in Seq(Pkt)
    PROVE  /\ Len(w) \in Nat /\ DOMAIN w = 1..Len(w)
           /\ \A i \in 1..Len(w) : w[i] \in Pkt
OBVIOUS

\* The digests after packets were put into the window from number head on: of each of
\* them and all before it, and the old ones in the slots that are not used.
LEMMA DigestsHave ==
    ASSUME NEW digest \in [ItSlots -> SUBSET Pkt], NEW head \in Nat \ {0},
           NEW packets \in Seq(Pkt), Len(packets) <= MAX_SEND_ON_LINK
    PROVE  /\ Digests(digest, head, packets) \in [ItSlots -> SUBSET Pkt]
           /\ \A i \in 1..Len(packets) :
                 Digests(digest, head, packets)[ItSlot(head + i - 1)]
                    = Xor(digest[ItSlot(head - 1)], {packets[j] : j \in 1..i})
           /\ \A s \in ItSlots :
                 (\A i \in 1..Len(packets) : ItSlot(head + i - 1) # s) =>
                    Digests(digest, head, packets)[s] = digest[s]
<1> DEFINE at(s) == {i \in DOMAIN packets : ItSlot(head + i - 1) = s}
           new(i) == Xor(digest[ItSlot(head - 1)], {packets[j] : j \in 1..i})
           d == Digests(digest, head, packets)
<1>1. /\ Len(packets) \in Nat /\ DOMAIN packets = 1..Len(packets)
      /\ \A i \in 1..Len(packets) : packets[i] \in Pkt
      /\ MAX_SEND_ON_LINK \in Nat
  BY PacketsAre, ItConstants
<1>2. d = [s \in ItSlots |-> IF at(s) = {} THEN digest[s] ELSE new(CHOOSE i \in at(s) : TRUE)]
  BY DEF Digests
<1>3. \A s \in ItSlots : d[s] = IF at(s) = {} THEN digest[s] ELSE new(CHOOSE i \in at(s) : TRUE)
  BY <1>2
<1>4. \A i \in 1..Len(packets) : head + i - 1 \in Int /\ ItSlot(head + i - 1) \in ItSlots
  BY <1>1, ItSlotInSlots
<1>5. ItSlot(head - 1) \in ItSlots BY ItSlotInSlots
<1>6. \A i \in 1..Len(packets) : new(i) \in SUBSET Pkt BY <1>1, <1>5 DEF Xor
<1> HIDE DEF new, d
<1>7. ASSUME NEW s \in ItSlots, at(s) # {} PROVE (CHOOSE i \in at(s) : TRUE) \in 1..Len(packets)
  BY <1>1, <1>7
<1>8. d \in [ItSlots -> SUBSET Pkt]
  <2>1. \A s \in ItSlots : d[s] \in SUBSET Pkt
    <3>1. ASSUME NEW s \in ItSlots PROVE d[s] \in SUBSET Pkt
      <4> HIDE DEF at
      <4>1. CASE at(s) = {} BY <1>3, <4>1
      <4>2. CASE at(s) # {} BY <1>3, <1>6, <1>7, <4>2
      <4>3. QED BY <4>1, <4>2
    <3>2. QED BY <3>1
  <2>2. QED BY <1>2, <2>1
<1>9. ASSUME NEW i \in 1..Len(packets) PROVE d[ItSlot(head + i - 1)] = new(i)
  <2>1. ASSUME NEW j \in 1..Len(packets), ItSlot(head + j - 1) = ItSlot(head + i - 1)
        PROVE  j = i
    <3>1. /\ head + i - 1 \in Int /\ head + j - 1 \in Int
          /\ head + i - 1 < head + j - 1 + MAX_SEND_ON_LINK
          /\ head + j - 1 < head + i - 1 + MAX_SEND_ON_LINK
          /\ j # i => head + i - 1 # head + j - 1
      BY <1>1
    <3>2. QED BY <2>1, <3>1, ItSlotsDiffer
  <2>2. at(ItSlot(head + i - 1)) = {i} BY <1>1, <2>1
  <2> HIDE DEF at
  <2>3. (CHOOSE k \in {i} : TRUE) = i OBVIOUS
  <2>4. QED BY <1>3, <1>4, <2>2, <2>3
<1>10. ASSUME NEW s \in ItSlots, \A i \in 1..Len(packets) : ItSlot(head + i - 1) # s
       PROVE  d[s] = digest[s]
  <2>1. at(s) = {} BY <1>1, <1>10
  <2> HIDE DEF at
  <2>2. QED BY <1>3, <2>1
<1>11. QED BY <1>8, <1>9, <1>10 DEF d, new

\* What is packed behind the window of a message that has so many fragments: new, as many
\* as there is room for, from the next one on; rest waits only when there is no room for it.
Packed(fragments, window, message, new, rest) ==
    /\ Len(window) + Len(new) <= MAX_SEND_ON_LINK
    /\ \A i \in 1..Len(new) :
          /\ message # NoMessage
          /\ new[i][1] = message[1] /\ new[i][2] = message[2] + i - 1
    /\ rest # NoMessage =>
          /\ message # NoMessage
          /\ Len(window) + Len(new) = MAX_SEND_ON_LINK
          /\ rest[1] = message[1] /\ rest[2] = message[2] + Len(new)
          /\ rest[2] \in 1..fragments[rest[1]]
    /\ rest = NoMessage /\ message # NoMessage =>
          Len(new) = fragments[message[1]] - message[2] + 1

\* What a step of packing does to the window, with the digests of its packets.
Adds(e, tail, window, digest, message, new, rest) ==
    /\ outgoing' = [outgoing EXCEPT ![e] = window \o new]
    /\ out_nonce_digest' = [out_nonce_digest EXCEPT ![e] = Digests(digest, tail + Len(window), new)]
    /\ out_message' = [out_message EXCEPT ![e] = rest]
    /\ Packed(Fragments[e], window, message, new, rest)

\* Packing adds something.
LEMMA PackHas ==
    ASSUME it_conf \in Configurations, NEW e \in ItEnds, NEW tail \in Nat \ {0},
           NEW window \in Seq(Pkt), Len(window) <= MAX_SEND_ON_LINK,
           NEW digest, NEW inc \in Nat, NEW message \in {NoMessage} \cup Nat \X Nat,
           message # NoMessage =>
              /\ message[1] \in 1..Len(Fragments[e])
              /\ message[2] \in 1..Fragments[e][message[1]],
           Pack(e, tail, window, digest, message, inc)
    PROVE  \E new \in Seq(Pkt), rest \in {NoMessage} \cup Nat \X Nat :
              Adds(e, tail, window, digest, message, new, rest)
<1> DEFINE left == IF message = NoMessage THEN 0
                   ELSE Fragments[e][message[1]] - message[2] + 1
           room == MAX_SEND_ON_LINK - Len(window)
           k == IF left < room THEN left ELSE room
           new == [i \in 1..k |-> <<message[1], message[2] + i - 1, inc>>]
           rest == IF k = left THEN NoMessage ELSE <<message[1], message[2] + k>>
<1>1. /\ outgoing' = [outgoing EXCEPT ![e] = window \o new]
      /\ out_nonce_digest' = [out_nonce_digest EXCEPT ![e] = Digests(digest, tail + Len(window), new)]
      /\ out_message' = [out_message EXCEPT ![e] = rest]
  BY DEF Pack
<1>2. message # NoMessage => message[1] \in Nat /\ message[2] \in Nat
  BY DEF NoMessage
<1>3. message # NoMessage => Fragments[e][message[1]] \in Nat BY FragmentsHave
<1>4. left \in Nat /\ (message # NoMessage => left = Fragments[e][message[1]] - message[2] + 1)
  BY <1>2, <1>3
<1>5. Len(window) \in Nat /\ MAX_SEND_ON_LINK \in Nat BY ItConstants
<1>6. room \in Nat /\ room = MAX_SEND_ON_LINK - Len(window) BY <1>5
<1>7. left = 0 \/ message # NoMessage OBVIOUS
<1> HIDE DEF left, room
<1>8. k \in Nat /\ k <= left /\ k <= room /\ (k # left => k = room /\ k < left) BY <1>4, <1>6
<1>9. \A i \in 1..k : message # NoMessage BY <1>7, <1>8
<1> HIDE DEF k
<1>10. \A i \in 1..k : <<message[1], message[2] + i - 1, inc>> \in Pkt
  <2>1. ASSUME NEW i \in 1..k PROVE <<message[1], message[2] + i - 1, inc>> \in Pkt
    <3>1. message[1] \in Nat /\ message[2] \in Nat BY <1>2, <1>9
    <3>2. message[2] + i - 1 \in Nat BY <1>8, <3>1
    <3>3. QED BY <3>1, <3>2 DEF Pkt
  <2>2. QED BY <2>1
<1>11. /\ new \in Seq(Pkt) /\ Len(new) = k
       /\ \A i \in 1..k : new[i] = <<message[1], message[2] + i - 1, inc>>
  BY <1>8, <1>10
<1>12. \A i \in 1..k : new[i][1] = message[1] /\ new[i][2] = message[2] + i - 1
  BY <1>11
<1>13. /\ rest # NoMessage => k # left /\ rest = <<message[1], message[2] + k>>
       /\ rest = NoMessage => k = left
  BY DEF NoMessage
<1>14. /\ rest \in {NoMessage} \cup Nat \X Nat
       /\ rest # NoMessage =>
             /\ message # NoMessage /\ k = room
             /\ rest[1] = message[1] /\ rest[2] = message[2] + k
             /\ rest[2] \in 1..Fragments[e][rest[1]]
  BY <1>2, <1>3, <1>4, <1>7, <1>8, <1>13
<1> HIDE DEF rest
<1>19. rest = NoMessage /\ message # NoMessage => k = Fragments[e][message[1]] - message[2] + 1
  BY <1>4, <1>13
<1> HIDE DEF new
<1>15. Len(window) + Len(new) <= MAX_SEND_ON_LINK /\ (k = room => Len(window) + Len(new) = MAX_SEND_ON_LINK)
  BY <1>5, <1>6, <1>8, <1>11
<1>16. Packed(Fragments[e], window, message, new, rest)
  BY <1>9, <1>11, <1>12, <1>14, <1>15, <1>19 DEF Packed
<1>17. Adds(e, tail, window, digest, message, new, rest) BY <1>1, <1>16 DEF Adds
<1>18. QED BY <1>11, <1>14, <1>17

-----------------------------------------------------------------------------
(* The window of the receiving end *)

\* The receiving part of ItWindowHolds, of one end.
InWindow(tail, head, cells) ==
    /\ tail <= head /\ head <= tail + MAX_SEND_ON_LINK
    /\ \A s \in ItSlots : cells[s] # Empty <=> \E n \in tail..(head - 1) : ItSlot(n) = s
    /\ cells[ItSlot(tail)] # Empty => cells[ItSlot(tail)] = Nack

\* What a slot may hold.
InCells == {Empty, Nack} \cup Pkt

\* A packet is not a mark.
LEMMA MarksAreNoPackets ==
    Empty \notin Pkt /\ Nack \notin Pkt /\ Empty # Nack
<1>1. ASSUME NEW p \in Pkt PROVE Len(p) = 3 BY DEF Pkt
<1>2. Len(Empty) = 1 /\ Len(Nack) = 1 BY DEF Empty, Nack
<1>3. Empty[1] = "empty" /\ Nack[1] = "nack" BY DEF Empty, Nack
<1>4. "empty" # "nack" OBVIOUS
<1>5. Empty # Nack BY <1>3, <1>4
<1>6. QED BY <1>1, <1>2, <1>5

\* Packets taken from the window: each of them was stored before or is the new one.
Stored(e, m, n) == IF n = m.seq THEN m.packet ELSE incoming[e][ItSlot(n)]

\* The cells with a new packet and with the marks of the gap before it.
Marked(head, old, seq, packet) ==
    [s \in ItSlots |->
        IF s = ItSlot(seq) THEN packet
        ELSE IF \E n \in head..(seq - 1) : ItSlot(n) = s THEN Nack
        ELSE old[s]]

\* What they hold.
LEMMA CellsHave ==
    ASSUME NEW tail \in Nat \ {0}, NEW head \in Nat \ {0}, NEW old \in [ItSlots -> InCells],
           InWindow(tail, head, old), NEW seq \in Nat, NEW packet \in Pkt,
           tail <= seq, seq < tail + MAX_SEND_ON_LINK
    PROVE  /\ Marked(head, old, seq, packet) \in [ItSlots -> InCells]
           /\ Marked(head, old, seq, packet)[ItSlot(seq)] = packet
           /\ \A n \in tail..(tail + MAX_SEND_ON_LINK - 1) :
                 n # seq =>
                    /\ n < head => Marked(head, old, seq, packet)[ItSlot(n)] = old[ItSlot(n)] /\ old[ItSlot(n)] # Empty
                    /\ head <= n /\ n < seq => Marked(head, old, seq, packet)[ItSlot(n)] = Nack
                    /\ head <= n /\ seq < n => Marked(head, old, seq, packet)[ItSlot(n)] = Empty
           /\ \A s \in ItSlots :
                 Marked(head, old, seq, packet)[s] # Empty => \E n \in tail..((IF seq < head THEN head ELSE seq + 1) - 1) :
                                        ItSlot(n) = s
<1> DEFINE cells == Marked(head, old, seq, packet)
<1>1. MAX_SEND_ON_LINK \in Nat /\ MAX_SEND_ON_LINK > 0 BY ItConstants
<1>2. \A n \in Int : ItSlot(n) \in ItSlots BY ItSlotInSlots
<1>3. tail <= head /\ head <= tail + MAX_SEND_ON_LINK BY DEF InWindow
<1>4. \A s \in ItSlots : old[s] # Empty <=> \E n \in tail..(head - 1) : ItSlot(n) = s
  BY DEF InWindow
<1>5. \A a, b \in tail..(tail + MAX_SEND_ON_LINK - 1) : a # b => ItSlot(a) # ItSlot(b)
  <2>1. ASSUME NEW a \in tail..(tail + MAX_SEND_ON_LINK - 1), a \in Int,
               NEW b \in tail..(tail + MAX_SEND_ON_LINK - 1), b \in Int, a # b
        PROVE  ItSlot(a) # ItSlot(b)
    <3>1. a < b + MAX_SEND_ON_LINK /\ b < a + MAX_SEND_ON_LINK BY <1>1
    <3>2. QED BY <2>1, <3>1, ItSlotsDiffer
  <2>2. QED BY <1>1, <2>1
<1>6. \A s \in ItSlots : /\ s = ItSlot(seq) => cells[s] = packet
                         /\ s # ItSlot(seq) /\ (\E n \in head..(seq - 1) : ItSlot(n) = s) => cells[s] = Nack
                         /\ s # ItSlot(seq) /\ ~(\E n \in head..(seq - 1) : ItSlot(n) = s) => cells[s] = old[s]
  BY DEF Marked
<1>7. Nack \in InCells /\ packet \in InCells BY DEF InCells
<1>8. cells \in [ItSlots -> InCells] BY <1>7 DEF Marked
<1> HIDE DEF cells
<1>9. cells[ItSlot(seq)] = packet BY <1>2, <1>6
<1>10. ASSUME NEW n \in tail..(tail + MAX_SEND_ON_LINK - 1), n # seq
       PROVE  /\ n < head => cells[ItSlot(n)] = old[ItSlot(n)] /\ old[ItSlot(n)] # Empty
              /\ head <= n /\ n < seq => cells[ItSlot(n)] = Nack
              /\ head <= n /\ seq < n => cells[ItSlot(n)] = Empty
  <2>1. n \in Int /\ ItSlot(n) \in ItSlots BY <1>1, <1>2
  <2>2. seq \in tail..(tail + MAX_SEND_ON_LINK - 1) BY <1>1
  <2>3. ItSlot(n) # ItSlot(seq) BY <1>5, <1>10, <2>2
  <2>4. ASSUME n < head \/ seq < n
        PROVE  ~ \E j \in head..(seq - 1) : ItSlot(j) = ItSlot(n)
    <3>1. SUFFICES ASSUME NEW j \in head..(seq - 1) PROVE ItSlot(j) # ItSlot(n) OBVIOUS
    <3>2. j \in tail..(tail + MAX_SEND_ON_LINK - 1) /\ j # n BY <1>1, <1>3, <2>1, <2>4
    <3>3. QED BY <1>5, <3>2
  <2>5. ASSUME n < head PROVE cells[ItSlot(n)] = old[ItSlot(n)] /\ old[ItSlot(n)] # Empty
    <3>1. n \in tail..(head - 1) BY <2>1, <2>5
    <3>2. old[ItSlot(n)] # Empty BY <1>4, <2>1, <3>1
    <3>3. QED BY <1>6, <2>1, <2>3, <2>4, <2>5, <3>2
  <2>6. ASSUME head <= n, n < seq PROVE cells[ItSlot(n)] = Nack
    <3>1. n \in head..(seq - 1) BY <2>1, <2>6
    <3>2. QED BY <1>6, <2>1, <2>3, <3>1
  <2>7. ASSUME head <= n, seq < n PROVE cells[ItSlot(n)] = Empty
    <3>1. cells[ItSlot(n)] = old[ItSlot(n)] BY <1>6, <2>1, <2>3, <2>4, <2>7
    <3>2. ASSUME NEW j \in tail..(head - 1) PROVE ItSlot(j) # ItSlot(n)
      <4>1. j \in tail..(tail + MAX_SEND_ON_LINK - 1) /\ j # n BY <1>1, <1>3, <2>1, <2>7
      <4>2. QED BY <1>5, <4>1
    <3>3. old[ItSlot(n)] = Empty BY <1>4, <2>1, <3>2
    <3>4. QED BY <3>1, <3>3
  <2>8. QED BY <2>5, <2>6, <2>7
<1> DEFINE top == IF seq < head THEN head ELSE seq + 1
<1>11. ASSUME NEW s \in ItSlots, cells[s] # Empty
       PROVE  \E n \in tail..(top - 1) : ItSlot(n) = s
  <2>1. \A n \in Int : tail <= n /\ (n = seq \/ n < seq \/ n < head) => n \in tail..(top - 1)
    OBVIOUS
  <2>2. CASE s = ItSlot(seq) BY <2>1, <2>2
  <2>3. CASE \E n \in head..(seq - 1) : ItSlot(n) = s
    <3>1. PICK n \in head..(seq - 1) : ItSlot(n) = s BY <2>3
    <3>2. n \in Int /\ n < seq /\ tail <= n BY <1>3
    <3>3. QED BY <2>1, <3>1, <3>2
  <2>4. CASE s # ItSlot(seq) /\ ~(\E n \in head..(seq - 1) : ItSlot(n) = s)
    <3>1. old[s] # Empty BY <1>6, <1>11, <2>4
    <3>2. PICK n \in tail..(head - 1) : ItSlot(n) = s BY <1>4, <3>1
    <3>3. n \in Int /\ n < head /\ tail <= n OBVIOUS
    <3>4. QED BY <2>1, <3>2, <3>3
  <2>5. QED BY <2>2, <2>3, <2>4
<1>12. QED BY <1>8, <1>9, <1>10, <1>11 DEF cells

\* Packet m was taken, and the packets up to tail were passed in order.
Passed(e, m, tail, head, cells) ==
    /\ in_tail' = [in_tail EXCEPT ![e] = tail]
    /\ in_head' = [in_head EXCEPT ![e] = head]
    /\ incoming' = [incoming EXCEPT ![e] = cells]
    /\ aru_nonce_digest' = [aru_nonce_digest EXCEPT
          ![e] = Xor(@, {Stored(e, m, n) : n \in in_tail[e]..(tail - 1)})]
    /\ InWindow(tail, head, cells)
    /\ in_tail[e] <= tail /\ in_tail[e] <= m.seq
    /\ head = IF m.seq < in_head[e] THEN in_head[e] ELSE m.seq + 1
    /\ \A n \in in_tail[e]..(tail - 1) :
          /\ Stored(e, m, n) \in Pkt
          /\ n = m.seq \/ n < in_head[e]
    /\ \A n \in tail..(head - 1) :
          \/ cells[ItSlot(n)] = Nack
          \/ cells[ItSlot(n)] = Stored(e, m, n) /\ (n = m.seq \/ n < in_head[e])

\* The packets up to tail were put together to messages.
Assembles(e, m, tail) ==
    \E packets \in Seq(Pkt) :
        /\ Len(packets) = tail - in_tail[e]
        /\ \A i \in 1..Len(packets) : packets[i] = Stored(e, m, in_tail[e] + i - 1)
        /\ in_message' = [in_message EXCEPT ![e] = Built(e, packets).parts]
        /\ it_got' = [it_got EXCEPT ![e] = Built(e, packets).got]
        /\ blacklisted' = [blacklisted EXCEPT ![e] = Built(e, packets).bad]

\* A packet that is taken: the packets in order are passed, what is behind them stays.
LEMMA TakePacketHas ==
    ASSUME NEW e \in ItEnds,
           in_tail[e] \in Nat \ {0}, in_head[e] \in Nat \ {0},
           incoming[e] \in [ItSlots -> InCells],
           InWindow(in_tail[e], in_head[e], incoming[e]),
           NEW m, m.seq \in Nat, m.packet \in Pkt, TakesPacket(e, m), TakePacket(e, m)
    PROVE  \E tail \in Nat \ {0}, head \in Nat \ {0}, cells \in [ItSlots -> InCells] :
              Passed(e, m, tail, head, cells) /\ Assembles(e, m, tail)
<1> DEFINE tail0 == in_tail[e]
           head0 == in_head[e]
           old == incoming[e]
           seq == m.seq
           packet == m.packet
           cells1 == Marked(in_head[e], incoming[e], m.seq, m.packet)
           has(n) == n < in_tail[e] + MAX_SEND_ON_LINK /\ cells1[ItSlot(n)] \notin {Empty, Nack}
           tail == CHOOSE t \in in_tail[e]..(in_tail[e] + MAX_SEND_ON_LINK) :
                       ~has(t) /\ \A n \in in_tail[e]..(t - 1) : has(n)
           passed == [i \in 1..(tail - in_tail[e]) |-> cells1[ItSlot(in_tail[e] + i - 1)]]
           head == IF m.seq < in_head[e] THEN in_head[e] ELSE m.seq + 1
           cells == [s \in ItSlots |-> IF \E n \in in_tail[e]..(tail - 1) : ItSlot(n) = s
                                       THEN Empty ELSE cells1[s]]
<1>1. /\ in_tail' = [in_tail EXCEPT ![e] = tail]
      /\ in_head' = [in_head EXCEPT ![e] = head]
      /\ incoming' = [incoming EXCEPT ![e] = cells]
      /\ aru_nonce_digest' = [aru_nonce_digest EXCEPT
            ![e] = Xor(@, {passed[i] : i \in DOMAIN passed})]
      /\ in_message' = [in_message EXCEPT ![e] = Built(e, passed).parts]
      /\ it_got' = [it_got EXCEPT ![e] = Built(e, passed).got]
      /\ blacklisted' = [blacklisted EXCEPT ![e] = Built(e, passed).bad]
  BY DEF TakePacket, Marked
<1>2. tail0 <= seq /\ seq < tail0 + MAX_SEND_ON_LINK BY DEF TakesPacket
<1>3. MAX_SEND_ON_LINK \in Nat /\ MAX_SEND_ON_LINK > 0 BY ItConstants
<1>4. tail0 <= head0 /\ head0 <= tail0 + MAX_SEND_ON_LINK BY DEF InWindow
<1>5. /\ cells1 \in [ItSlots -> InCells]
      /\ cells1[ItSlot(seq)] = packet
      /\ \A n \in tail0..(tail0 + MAX_SEND_ON_LINK - 1) :
            n # seq =>
               /\ n < head0 => cells1[ItSlot(n)] = old[ItSlot(n)] /\ old[ItSlot(n)] # Empty
               /\ head0 <= n /\ n < seq => cells1[ItSlot(n)] = Nack
               /\ head0 <= n /\ seq < n => cells1[ItSlot(n)] = Empty
      /\ \A s \in ItSlots : cells1[s] # Empty => \E n \in tail0..(head - 1) : ItSlot(n) = s
  BY <1>2, CellsHave
<1>6. ~has(tail0 + MAX_SEND_ON_LINK) BY <1>3
<1>7. /\ tail \in tail0..(tail0 + MAX_SEND_ON_LINK) /\ tail \in Nat \ {0}
      /\ ~has(tail) /\ \A n \in tail0..(tail - 1) : has(n)
  <2> DEFINE T == {x \in tail0..(tail0 + MAX_SEND_ON_LINK) : ~has(x)}
  <2>1. tail = CHOOSE t \in tail0..(tail0 + MAX_SEND_ON_LINK) :
                   ~has(t) /\ \A n \in tail0..(t - 1) : has(n)
    OBVIOUS
  <2>2. tail0 \in Nat \ {0} OBVIOUS
  <2> HIDE DEF has, tail, tail0
  <2>3. T \subseteq Nat /\ tail0 + MAX_SEND_ON_LINK \in T BY <1>3, <1>6, <2>2
  <2>4. PICK x \in T : \A y \in T : x <= y BY <2>3, LeastNat
  <2>5. x \in tail0..(tail0 + MAX_SEND_ON_LINK) /\ ~has(x) BY <2>4
  <2>6. ASSUME NEW n \in tail0..(x - 1) PROVE has(n)
    <3>1. n \in tail0..(tail0 + MAX_SEND_ON_LINK) /\ n < x BY <1>3, <2>2, <2>5
    <3>2. n \notin T BY <2>3, <2>4, <3>1
    <3>3. QED BY <3>1, <3>2
  <2>7. \E y \in tail0..(tail0 + MAX_SEND_ON_LINK) : ~has(y) /\ \A n \in tail0..(y - 1) : has(n)
    BY <2>5, <2>6
  <2>8. /\ tail \in tail0..(tail0 + MAX_SEND_ON_LINK)
        /\ ~has(tail) /\ \A n \in tail0..(tail - 1) : has(n)
    BY <2>1, <2>7
  <2>9. QED BY <1>3, <2>2, <2>8
<1>8. tail0 \in Nat \ {0} /\ head0 \in Nat \ {0} /\ seq \in Nat /\ packet \in Pkt
  OBVIOUS
<1>9. head = (IF seq < head0 THEN head0 ELSE seq + 1) OBVIOUS
<1>10. \A s \in ItSlots : cells[s] = IF \E n \in tail0..(tail - 1) : ItSlot(n) = s
                                     THEN Empty ELSE cells1[s]
  OBVIOUS
<1>11. \A i \in 1..(tail - tail0) : passed[i] = cells1[ItSlot(tail0 + i - 1)]
  OBVIOUS
<1>12. DOMAIN passed = 1..(tail - tail0) /\ passed = [i \in 1..(tail - tail0) |-> passed[i]] OBVIOUS
<1>13. \A n \in Int : has(n) <=> n < tail0 + MAX_SEND_ON_LINK /\ cells1[ItSlot(n)] \notin {Empty, Nack}
  OBVIOUS
<1>14. \A n \in Int : Stored(e, m, n) = IF n = seq THEN packet ELSE old[ItSlot(n)] BY DEF Stored
<1>15. cells \in [ItSlots -> InCells]
  <2> HIDE DEF cells1, tail
  <2>1. \A s \in ItSlots : cells1[s] \in InCells BY <1>5
  <2>2. Empty \in InCells BY DEF InCells
  <2>3. QED BY <2>1, <2>2
<1> HIDE DEF tail, passed, cells, cells1, has, head, tail0, head0, old, seq, packet
<1>16. head \in Nat \ {0} /\ head0 <= head /\ seq < head /\ head <= tail0 + MAX_SEND_ON_LINK
       /\ (head = head0 \/ head = seq + 1)
  BY <1>2, <1>3, <1>4, <1>8, <1>9
<1>17. \A n \in Int : ItSlot(n) \in ItSlots BY ItSlotInSlots
<1>18. \A a, b \in tail0..(tail0 + MAX_SEND_ON_LINK - 1) : a # b => ItSlot(a) # ItSlot(b)
  <2>1. ASSUME NEW a \in tail0..(tail0 + MAX_SEND_ON_LINK - 1), a \in Int,
               NEW b \in tail0..(tail0 + MAX_SEND_ON_LINK - 1), b \in Int, a # b
        PROVE  ItSlot(a) # ItSlot(b)
    <3>1. a < b + MAX_SEND_ON_LINK /\ b < a + MAX_SEND_ON_LINK BY <1>3, <1>8
    <3>2. QED BY <2>1, <3>1, ItSlotsDiffer
  <2>2. QED BY <1>3, <1>8, <2>1
<1>19. ASSUME NEW n \in tail0..(tail - 1)
       PROVE  /\ n \in Int /\ n \in tail0..(tail0 + MAX_SEND_ON_LINK - 1)
              /\ cells1[ItSlot(n)] = Stored(e, m, n) /\ Stored(e, m, n) \in Pkt
              /\ n = seq \/ n < head0
  <2>1. n \in Int /\ n \in tail0..(tail0 + MAX_SEND_ON_LINK - 1) BY <1>3, <1>7, <1>8
  <2>2. cells1[ItSlot(n)] \notin {Empty, Nack} BY <1>7, <1>13, <2>1
  <2>3. cells1[ItSlot(n)] \in Pkt BY <1>5, <1>17, <2>1, <2>2 DEF InCells
  <2>4. n = seq \/ n < head0 BY <1>5, <1>8, <2>1, <2>2
  <2>5. cells1[ItSlot(n)] = Stored(e, m, n) BY <1>5, <1>14, <2>1, <2>4
  <2>6. QED BY <2>1, <2>3, <2>4, <2>5
<1>20. tail <= head
  <2>1. SUFFICES ASSUME head < tail PROVE FALSE BY <1>7, <1>8, <1>16
  <2>2. head \in tail0..(tail - 1) BY <1>4, <1>7, <1>8, <1>16, <2>1
  <2>3. QED BY <1>8, <1>16, <1>19, <2>2
<1>21. ASSUME NEW n \in tail..(head - 1)
       PROVE  /\ n \in tail0..(tail0 + MAX_SEND_ON_LINK - 1) /\ n \in Int
              /\ cells[ItSlot(n)] = cells1[ItSlot(n)] /\ cells1[ItSlot(n)] # Empty
              /\ \/ cells[ItSlot(n)] = Nack
                 \/ cells[ItSlot(n)] = Stored(e, m, n) /\ (n = seq \/ n < head0)
  <2>1. n \in tail0..(tail0 + MAX_SEND_ON_LINK - 1) /\ n \in Int BY <1>3, <1>7, <1>8, <1>16
  <2>2. ASSUME NEW j \in tail0..(tail - 1) PROVE ItSlot(j) # ItSlot(n)
    <3>1. j \in tail0..(tail0 + MAX_SEND_ON_LINK - 1) /\ j # n BY <1>7, <1>8, <1>19, <2>1
    <3>2. QED BY <1>18, <2>1, <3>1
  <2>3. cells[ItSlot(n)] = cells1[ItSlot(n)] BY <1>10, <1>17, <2>1, <2>2
  <2>4. \/ n = seq /\ cells1[ItSlot(n)] = packet
        \/ n # seq /\ n < head0 /\ cells1[ItSlot(n)] = old[ItSlot(n)] /\ old[ItSlot(n)] # Empty
        \/ cells1[ItSlot(n)] = Nack
    BY <1>5, <1>8, <1>16, <2>1
  <2>5. QED BY <1>8, <1>14, <2>1, <2>3, <2>4, MarksAreNoPackets
<1>22. InWindow(tail, head, cells)
  <2>1. tail <= head /\ head <= tail + MAX_SEND_ON_LINK BY <1>3, <1>7, <1>8, <1>16, <1>20
  <2>2. ASSUME NEW s \in ItSlots, cells[s] # Empty
        PROVE  \E n \in tail..(head - 1) : ItSlot(n) = s
    <3>1. cells1[s] # Empty /\ \A n \in tail0..(tail - 1) : ItSlot(n) # s BY <1>10, <2>2
    <3>2. PICK n \in tail0..(head - 1) : ItSlot(n) = s BY <1>5, <3>1
    <3>3. n \in tail..(head - 1) BY <1>7, <1>8, <1>16, <3>1, <3>2
    <3>4. QED BY <3>2, <3>3
  <2>3. ASSUME NEW n \in tail..(head - 1) PROVE cells[ItSlot(n)] # Empty BY <1>21
  <2>4. cells[ItSlot(tail)] # Empty => cells[ItSlot(tail)] = Nack
    <3>1. CASE tail < tail0 + MAX_SEND_ON_LINK
      <4>1. cells1[ItSlot(tail)] \in {Empty, Nack} BY <1>7, <1>8, <1>13, <3>1
      <4>2. cells[ItSlot(tail)] \in {Empty, cells1[ItSlot(tail)]} BY <1>7, <1>10, <1>17
      <4>3. QED BY <4>1, <4>2
    <3>2. CASE tail = tail0 + MAX_SEND_ON_LINK
      <4>1. ItSlot(tail) = ItSlot(tail0) BY <1>8, <3>2, ItSlotShift
      <4>2. tail0 \in tail0..(tail - 1) BY <1>3, <1>8, <3>2
      <4>3. cells[ItSlot(tail)] = Empty BY <1>8, <1>10, <1>17, <4>1, <4>2
      <4>4. QED BY <4>3
    <3>3. QED BY <1>7, <1>8, <3>1, <3>2, <1>3
  <2>5. QED BY <2>1, <2>2, <2>3, <2>4 DEF InWindow
<1>23. {passed[i] : i \in DOMAIN passed} = {Stored(e, m, n) : n \in tail0..(tail - 1)}
  <2>1. ASSUME NEW i \in 1..(tail - tail0)
        PROVE  tail0 + i - 1 \in tail0..(tail - 1) /\ passed[i] = Stored(e, m, tail0 + i - 1)
    <3>1. tail0 + i - 1 \in tail0..(tail - 1) BY <1>7, <1>8
    <3>2. QED BY <1>11, <1>19, <3>1
  <2>2. ASSUME NEW n \in tail0..(tail - 1)
        PROVE  n - tail0 + 1 \in 1..(tail - tail0) /\ Stored(e, m, n) = passed[n - tail0 + 1]
    <3>1. n - tail0 + 1 \in 1..(tail - tail0) /\ tail0 + (n - tail0 + 1) - 1 = n BY <1>7, <1>8
    <3>2. QED BY <1>11, <1>19, <3>1
  <2>3. QED BY <1>12, <2>1, <2>2
<1>24. in_tail' = [in_tail EXCEPT ![e] = tail] /\ in_head' = [in_head EXCEPT ![e] = head]
       /\ incoming' = [incoming EXCEPT ![e] = cells]
       /\ aru_nonce_digest' = [aru_nonce_digest EXCEPT
             ![e] = Xor(@, {Stored(e, m, n) : n \in tail0..(tail - 1)})]
  BY <1>1, <1>23
<1>25. /\ \A n \in tail0..(tail - 1) : Stored(e, m, n) \in Pkt /\ (n = seq \/ n < head0)
       /\ \A n \in tail..(head - 1) :
             \/ cells[ItSlot(n)] = Nack
             \/ cells[ItSlot(n)] = Stored(e, m, n) /\ (n = seq \/ n < head0)
       /\ tail0 <= tail /\ tail0 <= seq
  BY <1>2, <1>7, <1>8, <1>19, <1>21
<1>26. tail \in Nat \ {0} /\ head \in Nat \ {0} BY <1>7, <1>16
<1>27. Passed(e, m, tail, head, cells)
  BY <1>9, <1>22, <1>24, <1>25 DEF Passed, tail0, head0, seq
<1>28. Assembles(e, m, tail)
  <2>1. \A i \in 1..(tail - tail0) : passed[i] = Stored(e, m, tail0 + i - 1) /\ passed[i] \in Pkt
    <3>1. ASSUME NEW i \in 1..(tail - tail0)
          PROVE  passed[i] = Stored(e, m, tail0 + i - 1) /\ passed[i] \in Pkt
      <4>1. tail0 + i - 1 \in tail0..(tail - 1) BY <1>7, <1>8
      <4>2. QED BY <1>11, <1>19, <4>1
    <3>2. QED BY <3>1
  <2>2. tail - tail0 \in Nat BY <1>7, <1>8
  <2>3. passed \in Seq(Pkt) /\ Len(passed) = tail - tail0 BY <1>12, <2>1, <2>2
  <2>4. /\ in_message' = [in_message EXCEPT ![e] = Built(e, passed).parts]
        /\ it_got' = [it_got EXCEPT ![e] = Built(e, passed).got]
        /\ blacklisted' = [blacklisted EXCEPT ![e] = Built(e, passed).bad]
    BY <1>1
  <2>5. QED BY <2>1, <2>3, <2>4 DEF Assembles, tail0
<1>29. QED BY <1>15, <1>26, <1>27, <1>28

-----------------------------------------------------------------------------
(* The window of the sending end *)

\* A fragment is packed before another: of an earlier message, or earlier in the message.
Before(p, q) == p[1] < q[1] \/ (p[1] = q[1] /\ p[2] < q[2])

Ordered(w) == \A i, j \in 1..Len(w) : i < j => Before(w[i], w[j])

\* The packets with numbers i to j, when the first of w has number tail.
PacketsIn(w, tail, i, j) == {w[n - tail + 1] : n \in i..j}

\* Packet number n of the window, the digest of it and all before, and the packets i to j.
PacketNo(e, n) == outgoing[e][n - out_tail[e] + 1]
DigestAt(e, n) == out_nonce_digest[e][ItSlot(n)]
PacketsOf(e, i, j) == PacketsIn(outgoing[e], out_tail[e], i, j)

\* The slot of packet n has its digest: for packets of the window, and for the last one
\* before it while the window is not full.
Kept(e, n) ==
    /\ n \in (out_tail[e] - 1)..(OutHead(e) - 1)
    /\ OutHead(e) <= n + MAX_SEND_ON_LINK

\* Whoever has digest A of all packets before number a finds the later digests right.
Digested(e, a, A) ==
    \A n \in (a - 1)..(OutHead(e) - 1) :
        Kept(e, n) => DigestAt(e, n) = Xor(A, PacketsOf(e, a, n))

\* A message, or what is left of it, comes behind the window.
Behind(w, message) == message # NoMessage => \A i \in 1..Len(w) : Before(w[i], message)

\* The window has packets of the first messages only.
UpTo(w, last) == \A i \in 1..Len(w) : w[i][1] <= last

\* What waits outside the window is a part of one of the messages, behind the window.
MessageWaits(e) ==
    /\ next_message[e] <= Len(Fragments[e])
    /\ UpTo(outgoing[e], next_message[e]) /\ Behind(outgoing[e], out_message[e])
    /\ out_message[e] # NoMessage =>
          /\ Len(outgoing[e]) = MAX_SEND_ON_LINK
          /\ out_message[e][1] \in 1..next_message[e]
          /\ out_message[e][2] \in 1..Fragments[e][out_message[e][1]]

OutWindow(e) ==
    /\ out_tail[e] <= tcp_head[e] /\ tcp_head[e] <= OutHead(e)
    /\ Len(outgoing[e]) <= MAX_SEND_ON_LINK
    /\ Ordered(outgoing[e])
    /\ MessageWaits(e)
    /\ out_tail[e] = 1 => Digested(e, 1, {})

\* The types of what an end sends.
OutTypes ==
    /\ it_conf \in Configurations
    /\ out_tail \in [ItEnds -> Nat \ {0}] /\ tcp_head \in [ItEnds -> Nat \ {0}]
    /\ outgoing \in [ItEnds -> Seq(Pkt)]
    /\ out_nonce_digest \in [ItEnds -> [ItSlots -> SUBSET Pkt]]
    /\ nacked \in [ItEnds -> SUBSET Nat]
    /\ out_message \in [ItEnds -> {NoMessage} \cup Nat \X Nat]
    /\ cwnd \in [ItEnds -> Nat] /\ next_message \in [ItEnds -> Nat]

\* A step in which the window of end e only loses what is acknowledged and gets new
\* packets behind the others, with their digests.
OutGrows(e) ==
    /\ out_tail[e] <= out_tail'[e] /\ out_tail'[e] <= tcp_head[e]
    /\ tcp_head[e] <= tcp_head'[e] /\ OutHead(e) <= OutHead(e)'
    /\ \A n \in out_tail'[e]..(OutHead(e) - 1) : PacketNo(e, n)' = PacketNo(e, n)
    /\ \A n \in Int : Kept(e, n)' /\ n < OutHead(e) => DigestAt(e, n)' = DigestAt(e, n)
    /\ \A n \in OutHead(e)..(OutHead(e)' - 1) :
          DigestAt(e, n)' = Xor(DigestAt(e, OutHead(e) - 1),
                                PacketsIn(outgoing'[e], out_tail'[e], OutHead(e), n))

\* What end e has to send, with types.
LEMMA OutHas ==
    ASSUME OutTypes, NEW e \in ItEnds
    PROVE  /\ out_tail[e] \in Nat \ {0} /\ tcp_head[e] \in Nat \ {0}
           /\ outgoing[e] \in Seq(Pkt) /\ Len(outgoing[e]) \in Nat
           /\ \A i \in 1..Len(outgoing[e]) : outgoing[e][i] \in Pkt
           /\ OutHead(e) = out_tail[e] + Len(outgoing[e]) /\ OutHead(e) \in Nat \ {0}
           /\ out_nonce_digest[e] \in [ItSlots -> SUBSET Pkt]
           /\ out_message[e] \in {NoMessage} \cup Nat \X Nat
           /\ cwnd[e] \in Nat /\ next_message[e] \in Nat /\ nacked[e] \in SUBSET Nat
<1>1. outgoing[e] \in Seq(Pkt) BY DEF OutTypes
<1>2. Len(outgoing[e]) \in Nat /\ \A i \in 1..Len(outgoing[e]) : outgoing[e][i] \in Pkt
  BY <1>1, PacketsAre
<1>3. QED BY <1>1, <1>2 DEF OutTypes, OutHead

\* The parts of a packet.
LEMMA PacketHas ==
    ASSUME NEW p \in Pkt
    PROVE  p[1] \in Nat /\ p[2] \in Nat /\ p[3] \in Nat
BY DEF Pkt

\* Packets in order are different ones.
LEMMA OrderedDiffer ==
    ASSUME NEW w \in Seq(Pkt), Ordered(w), NEW i \in 1..Len(w), NEW j \in 1..Len(w), i # j
    PROVE  w[i] # w[j]
<1>1. Len(w) \in Nat /\ \A k \in 1..Len(w) : w[k] \in Pkt BY PacketsAre
<1>2. \A p, q \in Pkt : Before(p, q) => p # q BY PacketHas DEF Before
<1>3. i < j \/ j < i BY <1>1
<1>4. Before(w[i], w[j]) \/ Before(w[j], w[i]) BY <1>3 DEF Ordered
<1>5. QED BY <1>1, <1>2, <1>4

\* A run of packets is two runs that share none.
LEMMA PacketsJoin ==
    ASSUME NEW w \in Seq(Pkt), Ordered(w), NEW t \in Nat \ {0}, NEW a \in Nat, NEW m \in Nat,
           NEW n \in Int, t <= a, a <= m, m <= n + 1, n < t + Len(w)
    PROVE  /\ PacketsIn(w, t, a, m - 1) \cap PacketsIn(w, t, m, n) = {}
           /\ PacketsIn(w, t, a, m - 1) \cup PacketsIn(w, t, m, n) = PacketsIn(w, t, a, n)
<1>1. Len(w) \in Nat BY PacketsAre
<1>2. ASSUME NEW i \in a..(m - 1), NEW j \in m..n PROVE w[i - t + 1] # w[j - t + 1]
  <2>1. i - t + 1 \in 1..Len(w) /\ j - t + 1 \in 1..Len(w) /\ i - t + 1 # j - t + 1 BY <1>1
  <2>2. QED BY <2>1, OrderedDiffer
<1>3. \A i \in Int : i \in a..n <=> i \in a..(m - 1) \/ i \in m..n OBVIOUS
<1>4. PacketsIn(w, t, a, m - 1) \cap PacketsIn(w, t, m, n) = {} BY <1>2 DEF PacketsIn
<1>5. ASSUME NEW p \in PacketsIn(w, t, a, n)
      PROVE  p \in PacketsIn(w, t, a, m - 1) \/ p \in PacketsIn(w, t, m, n)
  <2>1. PICK i \in a..n : p = w[i - t + 1] BY DEF PacketsIn
  <2>2. CASE i \in a..(m - 1) BY <2>1, <2>2 DEF PacketsIn
  <2>3. CASE i \in m..n BY <2>1, <2>3 DEF PacketsIn
  <2>4. QED BY <1>3, <2>1, <2>2, <2>3
<1>6. \A i \in a..(m - 1) : i \in a..n BY <1>1
<1>7. \A i \in m..n : i \in a..n BY <1>1
<1>8. PacketsIn(w, t, a, m - 1) \subseteq PacketsIn(w, t, a, n) BY <1>6 DEF PacketsIn
<1>9. PacketsIn(w, t, m, n) \subseteq PacketsIn(w, t, a, n) BY <1>7 DEF PacketsIn
<1>10. QED BY <1>4, <1>5, <1>8, <1>9

\* Digests add up.
LEMMA XorJoin ==
    ASSUME NEW A, NEW X, NEW Y, X \cap Y = {}
    PROVE  Xor(Xor(A, X), Y) = Xor(A, X \cup Y)
BY DEF Xor

\* The digests of later packets stay right as the window grows.
LEMMA DigestedKept ==
    ASSUME OutTypes, OutTypes', NEW e \in ItEnds, OutGrows(e), Ordered(outgoing'[e]),
           NEW a \in Nat \ {0}, out_tail'[e] <= a, a <= OutHead(e), NEW A, Digested(e, a, A)
    PROVE  Digested(e, a, A)'
<1> DEFINE New(i, j) == PacketsIn(outgoing'[e], out_tail'[e], i, j)
<1>1. /\ out_tail[e] \in Nat \ {0} /\ OutHead(e) = out_tail[e] + Len(outgoing[e])
      /\ OutHead(e) \in Nat \ {0} /\ Len(outgoing[e]) \in Nat
  BY OutHas
<1>2. /\ out_tail'[e] \in Nat \ {0} /\ OutHead(e)' = out_tail'[e] + Len(outgoing'[e])
      /\ OutHead(e)' \in Nat \ {0} /\ Len(outgoing'[e]) \in Nat /\ outgoing'[e] \in Seq(Pkt)
  <2>1. outgoing'[e] \in Seq(Pkt) /\ out_tail'[e] \in Nat \ {0} BY DEF OutTypes
  <2>2. QED BY <2>1, PacketsAre DEF OutHead
<1>3. /\ out_tail[e] <= out_tail'[e] /\ OutHead(e) <= OutHead(e)'
      /\ \A n \in out_tail'[e]..(OutHead(e) - 1) : PacketNo(e, n)' = PacketNo(e, n)
      /\ \A n \in Int : Kept(e, n)' /\ n < OutHead(e) => DigestAt(e, n)' = DigestAt(e, n)
      /\ \A n \in OutHead(e)..(OutHead(e)' - 1) :
            DigestAt(e, n)' = Xor(DigestAt(e, OutHead(e) - 1), New(OutHead(e), n))
  BY DEF OutGrows
<1>4. MAX_SEND_ON_LINK \in Nat /\ MAX_SEND_ON_LINK > 0 BY ItConstants
<1>5. ASSUME NEW n \in (a - 1)..(OutHead(e) - 1) PROVE PacketsOf(e, a, n) = New(a, n)
  <2>1. ASSUME NEW j \in a..n
        PROVE  outgoing[e][j - out_tail[e] + 1] = outgoing'[e][j - out_tail'[e] + 1]
    <3>1. j \in out_tail'[e]..(OutHead(e) - 1)
      <4> HIDE DEF OutHead
      <4>1. j \in Int /\ a <= j /\ j <= OutHead(e) - 1 BY <1>1
      <4>2. QED BY <1>1, <1>2, <4>1
    <3>2. QED BY <1>3, <3>1 DEF PacketNo
  <2>2. QED BY <2>1 DEF New, PacketsOf, PacketsIn
<1>6. \A n \in (a - 1)..(OutHead(e) - 1) :
         Kept(e, n) => DigestAt(e, n) = Xor(A, PacketsOf(e, a, n))
  BY DEF Digested
<1> HIDE DEF New
<1>7. ASSUME NEW n \in (a - 1)..(OutHead(e)' - 1), Kept(e, n)'
      PROVE  DigestAt(e, n)' = Xor(A, New(a, n))
  <2>1. n \in (out_tail'[e] - 1)..(OutHead(e)' - 1) /\ OutHead(e)' <= n + MAX_SEND_ON_LINK
    BY <1>7 DEF Kept
  <2>2. CASE n < OutHead(e)
    <3>1. n \in (a - 1)..(OutHead(e) - 1) BY <1>1, <1>2, <2>2
    <3>2. Kept(e, n)
      <4>1. n \in (out_tail[e] - 1)..(OutHead(e) - 1) BY <1>1, <1>2, <1>3, <2>1, <2>2
      <4>2. OutHead(e) <= n + MAX_SEND_ON_LINK BY <1>1, <1>2, <1>3, <1>4, <2>1
      <4>3. QED BY <4>1, <4>2 DEF Kept
    <3>3. DigestAt(e, n) = Xor(A, PacketsOf(e, a, n)) BY <1>6, <3>1, <3>2
    <3>4. DigestAt(e, n)' = DigestAt(e, n) BY <1>3, <1>7, <2>2
    <3>5. QED BY <1>5, <3>1, <3>3, <3>4
  <2>3. CASE n >= OutHead(e)
    <3> DEFINE m == OutHead(e)
    <3>1. m - 1 \in (a - 1)..(OutHead(e) - 1) /\ m \in Nat /\ a <= m /\ m <= n + 1 /\ n \in Int
          /\ n < out_tail'[e] + Len(outgoing'[e])
      BY <1>1, <1>2, <2>3
    <3>2. Kept(e, m - 1)
      <4>1. m - 1 \in (out_tail[e] - 1)..(OutHead(e) - 1) /\ OutHead(e) <= m - 1 + MAX_SEND_ON_LINK
        BY <1>1, <1>4
      <4>2. QED BY <4>1 DEF Kept
    <3>3. DigestAt(e, m - 1) = Xor(A, New(a, m - 1)) BY <1>5, <1>6, <3>1, <3>2
    <3>4. DigestAt(e, n)' = Xor(DigestAt(e, m - 1), New(m, n))
      BY <1>1, <1>2, <1>3, <2>3
    <3> HIDE DEF m
    <3>5. New(a, m - 1) \cap New(m, n) = {} /\ New(a, m - 1) \cup New(m, n) = New(a, n)
      BY <1>2, <3>1, PacketsJoin DEF New
    <3>6. QED BY <3>3, <3>4, <3>5, XorJoin
  <2>4. QED BY <1>1, <1>2, <2>2, <2>3
<1>8. QED BY <1>7 DEF Digested, PacketsOf, New

\* The end of a sequence of packets.
LEMMA SubSeqItems ==
    ASSUME NEW w \in Seq(Pkt), NEW i \in Nat, 1 <= i, i <= Len(w) + 1
    PROVE  /\ SubSeq(w, i, Len(w)) \in Seq(Pkt)
           /\ Len(SubSeq(w, i, Len(w))) = Len(w) - i + 1
           /\ \A j \in 1..(Len(w) - i + 1) : SubSeq(w, i, Len(w))[j] = w[i + j - 1]
BY PacketsAre

\* Two sequences of packets one behind the other.
LEMMA ConcatItems ==
    ASSUME NEW v \in Seq(Pkt), NEW w \in Seq(Pkt)
    PROVE  /\ v \o w \in Seq(Pkt) /\ Len(v \o w) = Len(v) + Len(w)
           /\ Len(v) \in Nat /\ Len(w) \in Nat
           /\ \A i \in 1..Len(v) : (v \o w)[i] = v[i]
           /\ \A i \in 1..Len(w) : (v \o w)[Len(v) + i] = w[i]
BY PacketsAre

\* What end e sends and has to send is left alone.
OutRests(e) ==
    /\ out_tail'[e] = out_tail[e] /\ tcp_head'[e] = tcp_head[e]
    /\ outgoing'[e] = outgoing[e] /\ out_nonce_digest'[e] = out_nonce_digest[e]
    /\ out_message'[e] = out_message[e] /\ next_message'[e] = next_message[e]

\* What is left of the window from packet number tail on.
WindowFrom(e, tail) == SubSeq(outgoing[e], tail - out_tail[e] + 1, Len(outgoing[e]))

\* It holds the packets from that one on.
LEMMA WindowFromHas ==
    ASSUME OutTypes, NEW e \in ItEnds, NEW tail \in Nat, out_tail[e] <= tail, tail <= OutHead(e)
    PROVE  /\ WindowFrom(e, tail) \in Seq(Pkt) /\ Len(WindowFrom(e, tail)) = OutHead(e) - tail
           /\ Len(WindowFrom(e, tail)) <= Len(outgoing[e])
           /\ \A j \in 1..Len(WindowFrom(e, tail)) :
                 /\ j + (tail - out_tail[e]) \in 1..Len(outgoing[e])
                 /\ WindowFrom(e, tail)[j] = outgoing[e][j + (tail - out_tail[e])]
           /\ \A n \in tail..(OutHead(e) - 1) : WindowFrom(e, tail)[n - tail + 1] = PacketNo(e, n)
<1> DEFINE w == outgoing[e]
           ot == out_tail[e]
           top == OutHead(e)
           i == tail - ot + 1
           v == WindowFrom(e, tail)
<1>1. ot \in Nat \ {0} /\ w \in Seq(Pkt) /\ Len(w) \in Nat /\ top = ot + Len(w) BY OutHas
<1>2. ot <= tail /\ tail <= top OBVIOUS
<1>3. v = SubSeq(w, i, Len(w)) BY DEF WindowFrom
<1>4. i = tail - ot + 1 OBVIOUS
<1> HIDE DEF w, ot, top, i, v
<1>5. i \in Nat /\ 1 <= i /\ i <= Len(w) + 1 BY <1>1, <1>2, <1>4
<1>6. v \in Seq(Pkt) /\ Len(v) = Len(w) - i + 1 /\ \A j \in 1..(Len(w) - i + 1) : v[j] = w[i + j - 1]
  BY <1>1, <1>3, <1>5, SubSeqItems
<1>7. Len(v) = top - tail /\ Len(v) <= Len(w) BY <1>1, <1>2, <1>4, <1>5, <1>6
<1>8. ASSUME NEW j \in 1..Len(v)
      PROVE  j + (tail - ot) \in 1..Len(w) /\ v[j] = w[j + (tail - ot)]
  <2>1. j \in 1..(Len(w) - i + 1) /\ i + j - 1 = j + (tail - ot) /\ j + (tail - ot) \in 1..Len(w)
    BY <1>1, <1>2, <1>4, <1>5, <1>6
  <2>2. v[j] = w[i + j - 1] BY <1>6, <2>1
  <2>3. QED BY <2>1, <2>2
<1>9. ASSUME NEW n \in tail..(top - 1) PROVE v[n - tail + 1] = w[n - ot + 1]
  <2>1. n - tail + 1 \in 1..Len(v) /\ n - tail + 1 + (tail - ot) = n - ot + 1
    BY <1>1, <1>2, <1>7
  <2>2. v[n - tail + 1] = w[n - tail + 1 + (tail - ot)] BY <1>8, <2>1
  <2>3. QED BY <2>1, <2>2
<1>10. QED BY <1>6, <1>7, <1>8, <1>9 DEF w, ot, top, v, PacketNo

\* It keeps its order and its place.
LEMMA WindowFromOrdered ==
    ASSUME OutTypes, NEW e \in ItEnds, NEW tail \in Nat, out_tail[e] <= tail, tail <= OutHead(e),
           Ordered(outgoing[e]), NEW last, UpTo(outgoing[e], last),
           NEW message, Behind(outgoing[e], message)
    PROVE  /\ Ordered(WindowFrom(e, tail)) /\ UpTo(WindowFrom(e, tail), last)
           /\ Behind(WindowFrom(e, tail), message)
<1> DEFINE w == outgoing[e]
           off == tail - out_tail[e]
           v == WindowFrom(e, tail)
<1>1. /\ Len(v) \in Nat /\ off \in Int /\ Len(w) \in Nat
      /\ \A j \in 1..Len(v) : j + off \in 1..Len(w) /\ v[j] = w[j + off]
  <2>1. out_tail[e] \in Nat /\ Len(w) \in Nat BY OutHas
  <2>2. v \in Seq(Pkt) BY WindowFromHas
  <2>3. Len(v) \in Nat /\ off \in Int BY <2>1, <2>2, PacketsAre
  <2>4. QED BY <2>1, <2>3, WindowFromHas
<1> HIDE DEF off, v
<1>2. Ordered(v)
  <2>1. ASSUME NEW i \in 1..Len(v), NEW j \in 1..Len(v), i < j PROVE Before(v[i], v[j])
    <3>1. i + off \in 1..Len(w) /\ j + off \in 1..Len(w) /\ v[i] = w[i + off] /\ v[j] = w[j + off]
      BY <1>1
    <3>2. i + off < j + off BY <1>1, <2>1
    <3> HIDE DEF w
    <3>3. QED BY <3>1, <3>2 DEF Ordered, w
  <2>2. QED BY <2>1 DEF Ordered
<1>3. UpTo(v, last) BY <1>1 DEF UpTo
<1>4. Behind(v, message) BY <1>1 DEF Behind
<1>5. QED BY <1>2, <1>3, <1>4 DEF v

\* What is packed comes in order behind the window, and what waits comes behind it.
LEMMA PackedOrdered ==
    ASSUME NEW window \in Seq(Pkt), NEW new \in Seq(Pkt), NEW fragments,
           NEW message \in {NoMessage} \cup Nat \X Nat, NEW rest \in {NoMessage} \cup Nat \X Nat,
           Ordered(window), Behind(window, message),
           Packed(fragments, window, message, new, rest)
    PROVE  Ordered(window \o new) /\ Behind(window \o new, rest)
<1> DEFINE w == window \o new
           k == Len(window)
           l == Len(new)
<1>1. /\ w \in Seq(Pkt) /\ Len(w) = k + l /\ k \in Nat /\ l \in Nat
      /\ \A i \in 1..k : w[i] = window[i]
      /\ \A i \in 1..l : w[k + i] = new[i]
  BY ConcatItems
<1>2. \A i \in 1..k : window[i] \in Pkt BY PacketsAre
<1>3. message # NoMessage => message[1] \in Nat /\ message[2] \in Nat OBVIOUS
<1>4. \A i \in 1..l : /\ message # NoMessage
                      /\ new[i][1] = message[1] /\ new[i][2] = message[2] + i - 1
  BY DEF Packed
<1>5. rest # NoMessage => message # NoMessage /\ rest[1] = message[1] /\ rest[2] = message[2] + l
  BY DEF Packed
<1> HIDE DEF w, k, l
<1>6. ASSUME NEW i \in 1..(k + l)
      PROVE  \/ i \in 1..k /\ w[i] = window[i] /\ w[i] \in Pkt
             \/ /\ i - k \in 1..l /\ i > k /\ message # NoMessage
                /\ w[i][1] = message[1] /\ w[i][2] = message[2] + (i - k) - 1
  <2>1. CASE i <= k
    <3>1. i \in 1..k BY <1>1, <2>1
    <3>2. QED BY <1>1, <1>2, <3>1
  <2>2. CASE i > k
    <3>1. i - k \in 1..l /\ k + (i - k) = i BY <1>1, <2>2
    <3>2. w[i] = new[i - k] BY <1>1, <3>1
    <3>3. QED BY <1>4, <2>2, <3>1, <3>2
  <2>3. QED BY <1>1, <2>1, <2>2
<1>7. ASSUME NEW i \in 1..k, message # NoMessage
      PROVE  /\ Before(window[i], message)
             /\ window[i][1] \in Nat /\ window[i][2] \in Nat
             /\ message[1] \in Nat /\ message[2] \in Nat
  <2>1. Before(window[i], message) BY <1>7 DEF Behind, k
  <2>2. QED BY <1>2, <1>3, <1>7, <2>1, PacketHas
<1>8. Ordered(w)
  <2>1. ASSUME NEW i \in 1..(k + l), NEW j \in 1..(k + l), i < j PROVE Before(w[i], w[j])
    <3>1. CASE i \in 1..k /\ j \in 1..k /\ w[i] = window[i] /\ w[j] = window[j]
      <4>1. Before(window[i], window[j]) BY <2>1, <3>1 DEF Ordered, k
      <4>2. QED BY <3>1, <4>1
    <3>2. CASE i \in 1..k /\ w[i] = window[i] /\ j > k
      <4>1. message # NoMessage /\ w[j][1] = message[1] /\ w[j][2] = message[2] + (j - k) - 1
        BY <1>1, <1>6, <3>2
      <4>2. /\ Before(w[i], message) /\ w[i][1] \in Nat /\ w[i][2] \in Nat
            /\ message[1] \in Nat /\ message[2] \in Nat
        BY <1>7, <3>2, <4>1
      <4>3. j \in Int /\ k \in Int /\ j - k >= 1 BY <1>1, <3>2
      <4>4. QED BY <4>1, <4>2, <4>3 DEF Before
    <3>3. CASE i > k /\ j > k
      <4>1. message # NoMessage /\ w[j][1] = message[1] /\ w[j][2] = message[2] + (j - k) - 1
            /\ w[i][1] = message[1] /\ w[i][2] = message[2] + (i - k) - 1
        BY <1>1, <1>6, <3>3
      <4>2. i \in Int /\ j \in Int /\ k \in Int BY <1>1
      <4>3. message[1] \in Nat /\ message[2] \in Nat BY <1>3, <4>1
      <4>4. QED BY <2>1, <4>1, <4>2, <4>3 DEF Before
    <3>4. i \in Int /\ j \in Int /\ k \in Int BY <1>1
    <3>5. QED BY <1>6, <2>1, <3>1, <3>2, <3>3, <3>4
  <2>2. QED BY <1>1, <2>1 DEF Ordered
<1>9. Behind(w, rest)
  <2>1. ASSUME NEW i \in 1..(k + l), rest # NoMessage PROVE Before(w[i], rest)
    <3>1. message # NoMessage /\ rest[1] = message[1] /\ rest[2] = message[2] + l BY <1>5, <2>1
    <3>2. message[1] \in Nat /\ message[2] \in Nat BY <1>3, <3>1
    <3>3. CASE i \in 1..k /\ w[i] = window[i]
      <4>1. Before(w[i], message) /\ w[i][1] \in Nat /\ w[i][2] \in Nat BY <1>7, <3>1, <3>3
      <4>2. QED BY <1>1, <3>1, <3>2, <4>1 DEF Before
    <3>4. CASE i - k \in 1..l /\ w[i][1] = message[1] /\ w[i][2] = message[2] + (i - k) - 1
      <4>1. i \in Int /\ k \in Int BY <1>1
      <4>2. QED BY <1>1, <3>1, <3>2, <3>4, <4>1 DEF Before
    <3>5. QED BY <1>6, <3>3, <3>4
  <2>2. QED BY <1>1, <2>1 DEF Behind
<1>10. QED BY <1>8, <1>9 DEF w

\* It is of no later message than the window and the message packed.
LEMMA PackedUpTo ==
    ASSUME NEW window \in Seq(Pkt), NEW new \in Seq(Pkt), NEW fragments,
           NEW message, NEW rest, NEW last, UpTo(window, last),
           message # NoMessage => message[1] <= last,
           Packed(fragments, window, message, new, rest)
    PROVE  UpTo(window \o new, last)
<1> DEFINE w == window \o new
           k == Len(window)
           l == Len(new)
<1>1. /\ Len(w) = k + l /\ k \in Nat /\ l \in Nat
      /\ \A i \in 1..k : w[i] = window[i]
      /\ \A i \in 1..l : w[k + i] = new[i]
  BY ConcatItems
<1>2. \A i \in 1..k : window[i][1] <= last BY DEF UpTo
<1>3. \A i \in 1..l : message # NoMessage /\ new[i][1] = message[1] BY Zenon DEF Packed
<1> HIDE DEF w, k, l
<1>4. ASSUME NEW i \in 1..Len(w) PROVE w[i][1] <= last
  <2>1. CASE i <= k
    <3>1. i \in 1..k BY <1>1, <2>1
    <3>2. QED BY <1>1, <1>2, <3>1
  <2>2. CASE i > k
    <3>1. i - k \in 1..l /\ k + (i - k) = i BY <1>1, <2>2
    <3>2. w[i] = new[i - k] BY <1>1, <3>1
    <3>3. QED BY <1>3, <3>1, <3>2
  <2>3. QED BY <1>1, <2>1, <2>2
<1>5. QED BY <1>4 DEF UpTo, w

\* The window of which tail is the first packet left gets packets of a message that comes
\* behind it and is one of the first ones up to next; head is the next one to be sent.
PacksBehind(e, tail, head, next, message, inc) ==
    /\ out_tail[e] <= tail /\ tail <= tcp_head[e]
    /\ next_message[e] <= next /\ next <= Len(Fragments[e])
    /\ Behind(outgoing[e], message)
    /\ message # NoMessage =>
          message[1] \in 1..next /\ message[2] \in 1..Fragments[e][message[1]]
    /\ Pack(e, tail, WindowFrom(e, tail), out_nonce_digest[e], message, inc)
    /\ tcp_head[e] <= head /\ head <= OutHead(e)'
    /\ it_conf' = it_conf
    /\ out_tail' = [out_tail EXCEPT ![e] = tail] /\ tcp_head' = [tcp_head EXCEPT ![e] = head]
    /\ next_message' = [next_message EXCEPT ![e] = next]
    /\ nacked' \in [ItEnds -> SUBSET Nat] /\ cwnd' \in [ItEnds -> Nat]

\* The same, told by what was packed and what waits.
GetsPackets(e, tail, head, next, message, new, rest) ==
    /\ outgoing' = [outgoing EXCEPT ![e] = WindowFrom(e, tail) \o new]
    /\ out_nonce_digest' = [out_nonce_digest EXCEPT
          ![e] = Digests(out_nonce_digest[e], OutHead(e), new)]
    /\ out_message' = [out_message EXCEPT ![e] = rest]
    /\ it_conf' = it_conf
    /\ out_tail' = [out_tail EXCEPT ![e] = tail] /\ tcp_head' = [tcp_head EXCEPT ![e] = head]
    /\ next_message' = [next_message EXCEPT ![e] = next]
    /\ nacked' \in [ItEnds -> SUBSET Nat] /\ cwnd' \in [ItEnds -> Nat]
    /\ Packed(Fragments[e], WindowFrom(e, tail), message, new, rest)

\* So it is.
LEMMA PacketsGotten ==
    ASSUME OutTypes, NEW e \in ItEnds, OutWindow(e), NEW tail \in Nat, NEW head, NEW next \in Nat,
           NEW message \in {NoMessage} \cup Nat \X Nat, NEW inc \in Nat,
           PacksBehind(e, tail, head, next, message, inc)
    PROVE  \E new \in Seq(Pkt), rest \in {NoMessage} \cup Nat \X Nat :
              GetsPackets(e, tail, head, next, message, new, rest)
<1>1. it_conf \in Configurations BY DEF OutTypes
<1>2. /\ out_tail[e] <= tail /\ tail <= tcp_head[e] /\ next <= Len(Fragments[e])
      /\ message # NoMessage =>
            message[1] \in 1..next /\ message[2] \in 1..Fragments[e][message[1]]
      /\ Pack(e, tail, WindowFrom(e, tail), out_nonce_digest[e], message, inc)
  BY DEF PacksBehind
<1>3. tcp_head[e] <= OutHead(e) /\ Len(outgoing[e]) <= MAX_SEND_ON_LINK BY DEF OutWindow
<1>4. out_tail[e] \in Nat \ {0} /\ tcp_head[e] \in Nat /\ OutHead(e) \in Nat /\ Len(outgoing[e]) \in Nat
  BY OutHas
<1>5. tail \in Nat \ {0} /\ tail <= OutHead(e)
  <2> HIDE DEF OutHead
  <2>1. QED BY <1>2, <1>3, <1>4
<1>6. /\ WindowFrom(e, tail) \in Seq(Pkt) /\ Len(WindowFrom(e, tail)) = OutHead(e) - tail
      /\ Len(WindowFrom(e, tail)) <= Len(outgoing[e])
  BY <1>2, <1>5, WindowFromHas
<1>7. Len(WindowFrom(e, tail)) <= MAX_SEND_ON_LINK /\ tail + Len(WindowFrom(e, tail)) = OutHead(e)
  BY <1>3, <1>4, <1>5, <1>6, ItConstants
<1>8. Len(Fragments[e]) \in Nat BY <1>1, FragmentsHave
<1>9. message # NoMessage => message[1] \in 1..Len(Fragments[e]) BY <1>2, <1>8
<1>10. PICK new \in Seq(Pkt), rest \in {NoMessage} \cup Nat \X Nat :
              Adds(e, tail, WindowFrom(e, tail), out_nonce_digest[e], message, new, rest)
  <2>1. message # NoMessage =>
           /\ message[1] \in 1..Len(Fragments[e])
           /\ message[2] \in 1..Fragments[e][message[1]]
    BY <1>2, <1>9
  <2>2. Pack(e, tail, WindowFrom(e, tail), out_nonce_digest[e], message, inc) BY <1>2
  <2>3. tail \in Nat \ {0} /\ WindowFrom(e, tail) \in Seq(Pkt)
        /\ Len(WindowFrom(e, tail)) <= MAX_SEND_ON_LINK
    BY <1>5, <1>6, <1>7
  <2>4. QED BY <1>1, <2>1, <2>2, <2>3, PackHas
<1>11. GetsPackets(e, tail, head, next, message, new, rest)
  BY <1>7, <1>10 DEF GetsPackets, PacksBehind, Adds
<1>12. QED BY <1>11

\* Then the window grows: its packets stay, and the new ones have their digests.
LEMMA PacketsGrow ==
    ASSUME OutTypes, NEW e \in ItEnds, OutWindow(e), NEW tail \in Nat, NEW head \in Nat,
           NEW next \in Nat, NEW message \in {NoMessage} \cup Nat \X Nat,
           NEW new \in Seq(Pkt), NEW rest \in {NoMessage} \cup Nat \X Nat,
           out_tail[e] <= tail, tail <= tcp_head[e], tcp_head[e] <= head,
           GetsPackets(e, tail, head, next, message, new, rest)
    PROVE  /\ OutTypes' /\ OutGrows(e) /\ OutRests(Other(e))
           /\ OutHead(e)' = OutHead(e) + Len(new)
           /\ \A n \in tail..(OutHead(e) - 1) :
                 WindowFrom(e, tail)[n - tail + 1] = PacketNo(e, n)'
<1> DEFINE v == WindowFrom(e, tail)
           w == v \o new
           top == OutHead(e)
           l == Len(new)
           old == out_nonce_digest[e]
           d == Digests(out_nonce_digest[e], OutHead(e), new)
<1>1. /\ out_tail[e] \in Nat \ {0} /\ tcp_head[e] \in Nat /\ top \in Nat \ {0}
      /\ old \in [ItSlots -> SUBSET Pkt] /\ Len(outgoing[e]) \in Nat
  BY OutHas
<1>2. tcp_head[e] <= top /\ Len(outgoing[e]) <= MAX_SEND_ON_LINK BY DEF OutWindow
<1>3. tail \in Nat \ {0} /\ tail <= top
  <2> HIDE DEF top
  <2>1. QED BY <1>1, <1>2
<1>4. /\ v \in Seq(Pkt) /\ Len(v) = top - tail
      /\ \A n \in tail..(top - 1) : v[n - tail + 1] = PacketNo(e, n)
  BY <1>3, WindowFromHas
<1>5. /\ w \in Seq(Pkt) /\ Len(w) = Len(v) + l /\ Len(v) \in Nat /\ l \in Nat
      /\ \A i \in 1..Len(v) : w[i] = v[i]
      /\ \A i \in 1..l : w[Len(v) + i] = new[i]
  BY <1>4, ConcatItems
<1>6. l <= MAX_SEND_ON_LINK
  <2>1. Len(v) + l <= MAX_SEND_ON_LINK BY DEF GetsPackets, Packed
  <2> HIDE DEF v, l
  <2>2. QED BY <1>5, <2>1, ItConstants
<1>7. /\ d \in [ItSlots -> SUBSET Pkt]
      /\ \A i \in 1..l : d[ItSlot(top + i - 1)] = Xor(old[ItSlot(top - 1)], {new[j] : j \in 1..i})
      /\ \A s \in ItSlots : (\A i \in 1..l : ItSlot(top + i - 1) # s) => d[s] = old[s]
  BY <1>1, <1>6, DigestsHave
<1>8. /\ outgoing' = [outgoing EXCEPT ![e] = w] /\ out_nonce_digest' = [out_nonce_digest EXCEPT ![e] = d]
      /\ out_message' = [out_message EXCEPT ![e] = rest]
      /\ it_conf' = it_conf
      /\ out_tail' = [out_tail EXCEPT ![e] = tail] /\ tcp_head' = [tcp_head EXCEPT ![e] = head]
      /\ next_message' = [next_message EXCEPT ![e] = next]
      /\ nacked' \in [ItEnds -> SUBSET Nat] /\ cwnd' \in [ItEnds -> Nat]
  BY DEF GetsPackets
<1> HIDE DEF w, d, l
<1>9. head \in Nat \ {0} BY <1>1
<1>10. /\ outgoing'[e] = w /\ out_nonce_digest'[e] = d /\ out_tail'[e] = tail /\ tcp_head'[e] = head
  BY <1>8 DEF OutTypes
<1>11. OutTypes' BY <1>3, <1>5, <1>7, <1>8, <1>9 DEF OutTypes
<1>12. OutRests(Other(e)) BY <1>8, TwoEnds DEF OutTypes, OutRests
<1>13. OutHead(e)' = top + l
  <2>1. OutHead(e)' = tail + Len(w) BY <1>10 DEF OutHead
  <2> HIDE DEF top, v
  <2>2. QED BY <1>1, <1>3, <1>4, <1>5, <2>1
<1>14. top = OutHead(e) OBVIOUS
<1> HIDE DEF top, v, old
<1>15. ASSUME NEW n \in tail..(top - 1)
       PROVE  v[n - tail + 1] = w[n - tail + 1] /\ w[n - tail + 1] = PacketNo(e, n)
  <2>1. n - tail + 1 \in 1..Len(v) BY <1>1, <1>3, <1>4
  <2>2. QED BY <1>4, <1>5, <2>1
<1>16. \A n \in tail..(top - 1) : v[n - tail + 1] = PacketNo(e, n)' /\ PacketNo(e, n)' = PacketNo(e, n)
  BY <1>10, <1>15 DEF PacketNo
<1>17. ASSUME NEW n \in Int, Kept(e, n)', n < top PROVE DigestAt(e, n)' = DigestAt(e, n)
  <2>1. n \in (tail - 1)..(top + l - 1) /\ top + l <= n + MAX_SEND_ON_LINK
    <3>1. n \in (out_tail'[e] - 1)..(OutHead(e)' - 1) /\ OutHead(e)' <= n + MAX_SEND_ON_LINK
      BY <1>17, Zenon DEF Kept
    <3>2. QED BY <1>1, <1>3, <1>5, <1>10, <1>13, <3>1
  <2>2. ASSUME NEW i \in 1..l PROVE ItSlot(top + i - 1) # ItSlot(n)
    <3>1. top + i - 1 \in Int /\ top + i - 1 # n /\ top + i - 1 < n + MAX_SEND_ON_LINK
          /\ n < top + i - 1 + MAX_SEND_ON_LINK
      BY <1>1, <1>5, <1>17, <2>1, ItConstants
    <3>2. QED BY <3>1, ItSlotsDiffer
  <2>3. d[ItSlot(n)] = old[ItSlot(n)] BY <1>7, <2>2, ItSlotInSlots
  <2>4. QED BY <1>10, <2>3 DEF DigestAt, old
<1>18. ASSUME NEW n \in top..(top + l - 1)
       PROVE  DigestAt(e, n)' = Xor(DigestAt(e, top - 1), PacketsIn(w, tail, top, n))
  <2> DEFINE i == n - top + 1
  <2>1. i \in 1..l /\ n = top + i - 1
    <3>1. top \in Nat /\ l \in Nat BY <1>1, <1>5
    <3> HIDE DEF l
    <3>2. n \in Int /\ top <= n /\ n <= top + l - 1 BY <3>1
    <3>3. QED BY <3>1, <3>2
  <2> HIDE DEF i
  <2>2. {new[j] : j \in 1..i} = PacketsIn(w, tail, top, n)
    <3>1. ASSUME NEW j \in 1..i PROVE \E k \in top..n : new[j] = w[k - tail + 1]
      <4>1. PICK k : k = top + j - 1 OBVIOUS
      <4>2. j \in 1..l /\ k \in top..n /\ k - tail + 1 = Len(v) + j
        BY <1>1, <1>3, <1>4, <1>5, <2>1, <4>1
      <4>3. QED BY <1>5, <4>2
    <3>2. ASSUME NEW k \in top..n PROVE \E j \in 1..i : w[k - tail + 1] = new[j]
      <4>1. PICK j : j = k - top + 1 OBVIOUS
      <4>2. k \in Int /\ top <= k /\ k <= n /\ top \in Nat BY <1>1, <2>1
      <4>3. n = top + i - 1 /\ i \in Nat /\ i <= l /\ l \in Nat BY <1>5, <2>1
      <4>4. tail \in Nat /\ Len(v) \in Nat /\ Len(v) = top - tail BY <1>3, <1>4, <1>5
      <4>5. j \in Int /\ j >= 1 /\ j <= i BY <4>1, <4>2, <4>3
      <4>6. j \in 1..i /\ j \in 1..l BY <4>3, <4>5
      <4>7. k - tail + 1 = Len(v) + j BY <4>1, <4>2, <4>4
      <4>8. QED BY <1>5, <4>6, <4>7
    <3>3. {new[j] : j \in 1..i} \subseteq {w[k - tail + 1] : k \in top..n} BY <3>1, Zenon
    <3>4. {w[k - tail + 1] : k \in top..n} \subseteq {new[j] : j \in 1..i} BY <3>2, Zenon
    <3>5. QED BY <3>3, <3>4 DEF PacketsIn
  <2>3. d[ItSlot(n)] = Xor(old[ItSlot(top - 1)], PacketsIn(w, tail, top, n))
    BY <1>7, <2>1, <2>2
  <2>4. QED BY <1>10, <2>3 DEF DigestAt, old
<1>19. OutGrows(e)
  <2>1. out_tail[e] <= out_tail'[e] /\ out_tail'[e] <= tcp_head[e]
        /\ tcp_head[e] <= tcp_head'[e] /\ OutHead(e) <= OutHead(e)'
    BY <1>1, <1>5, <1>10, <1>13, <1>14
  <2>2. \A n \in out_tail'[e]..(OutHead(e) - 1) : PacketNo(e, n)' = PacketNo(e, n)
    BY <1>10, <1>14, <1>16
  <2>3. \A n \in Int : Kept(e, n)' /\ n < OutHead(e) => DigestAt(e, n)' = DigestAt(e, n)
    BY <1>14, <1>17
  <2>4. ASSUME NEW n \in OutHead(e)..(OutHead(e)' - 1)
        PROVE  DigestAt(e, n)' = Xor(DigestAt(e, OutHead(e) - 1),
                                     PacketsIn(outgoing'[e], out_tail'[e], OutHead(e), n))
    <3>1. n \in top..(top + l - 1) BY <1>1, <1>5, <1>13, <1>14
    <3>2. QED BY <1>10, <1>14, <1>18, <3>1
  <2>5. QED BY <2>1, <2>2, <2>3, <2>4 DEF OutGrows
<1>20. QED BY <1>11, <1>12, <1>13, <1>14, <1>16, <1>19 DEF v, l

\* And the window stays one.
LEMMA PackGrows ==
    ASSUME OutTypes, NEW e \in ItEnds, OutWindow(e), NEW tail \in Nat, NEW head \in Nat,
           NEW next \in Nat, NEW message \in {NoMessage} \cup Nat \X Nat, NEW inc \in Nat,
           PacksBehind(e, tail, head, next, message, inc)
    PROVE  /\ OutTypes' /\ OutWindow(e)' /\ OutGrows(e) /\ OutRests(Other(e))
           /\ OutHead(e) <= OutHead(e)'
           /\ \A n \in tail..(OutHead(e) - 1) :
                 WindowFrom(e, tail)[n - tail + 1] = PacketNo(e, n)'
<1> DEFINE v == WindowFrom(e, tail)
<1>1. PICK new \in Seq(Pkt), rest \in {NoMessage} \cup Nat \X Nat :
              GetsPackets(e, tail, head, next, message, new, rest)
  BY PacketsGotten
<1> DEFINE w == v \o new
<1>2. /\ out_tail[e] <= tail /\ tail <= tcp_head[e] /\ tcp_head[e] <= head /\ head <= OutHead(e)'
      /\ next_message[e] <= next /\ next <= Len(Fragments[e]) /\ Behind(outgoing[e], message)
      /\ message # NoMessage =>
            message[1] \in 1..next /\ message[2] \in 1..Fragments[e][message[1]]
  BY DEF PacksBehind
<1>3. /\ OutTypes' /\ OutGrows(e) /\ OutRests(Other(e))
      /\ OutHead(e)' = OutHead(e) + Len(new)
      /\ \A n \in tail..(OutHead(e) - 1) : WindowFrom(e, tail)[n - tail + 1] = PacketNo(e, n)'
  BY <1>1, <1>2, PacketsGrow
<1>4. /\ tcp_head[e] <= OutHead(e) /\ Ordered(outgoing[e]) /\ UpTo(outgoing[e], next_message[e])
      /\ out_tail[e] = 1 => Digested(e, 1, {})
  BY DEF OutWindow, MessageWaits
<1>5. /\ out_tail[e] \in Nat \ {0} /\ tcp_head[e] \in Nat /\ OutHead(e) \in Nat \ {0}
      /\ next_message[e] \in Nat
  BY OutHas
<1>6. tail <= OutHead(e)
  <2> HIDE DEF OutHead
  <2>1. QED BY <1>2, <1>4, <1>5
<1>7. v \in Seq(Pkt) /\ Ordered(v) /\ UpTo(v, next_message[e]) /\ Behind(v, message)
  BY <1>2, <1>4, <1>6, WindowFromHas, WindowFromOrdered
<1>8. Packed(Fragments[e], v, message, new, rest) BY <1>1 DEF GetsPackets
<1> HIDE DEF v
<1>9. Ordered(w) /\ Behind(w, rest) BY <1>7, <1>8, PackedOrdered
<1>10. /\ w \in Seq(Pkt) /\ Len(w) = Len(v) + Len(new) /\ Len(v) \in Nat /\ Len(new) \in Nat
       /\ \A i \in 1..Len(v) : w[i] = v[i]
       /\ \A i \in 1..Len(new) : w[Len(v) + i] = new[i]
  BY <1>7, ConcatItems
<1>11. /\ outgoing'[e] = w /\ out_message'[e] = rest /\ it_conf' = it_conf
       /\ out_tail'[e] = tail /\ tcp_head'[e] = head /\ next_message'[e] = next
  BY <1>1 DEF GetsPackets, OutTypes, v
<1> HIDE DEF w
<1>12. UpTo(w, next)
  <2>1. UpTo(v, next)
    <3>1. ASSUME NEW i \in 1..Len(v) PROVE v[i][1] <= next
      <4>1. v[i][1] <= next_message[e] BY <1>7 DEF UpTo
      <4>2. v[i][1] \in Nat BY <1>7, PacketsAre, PacketHas
      <4>3. QED BY <1>2, <1>5, <4>1, <4>2
    <3>2. QED BY <3>1 DEF UpTo
  <2>2. message # NoMessage => message[1] <= next BY <1>2
  <2>3. QED BY <1>7, <1>8, <2>1, <2>2, PackedUpTo DEF w
<1>13. rest # NoMessage => /\ Len(w) = MAX_SEND_ON_LINK
                           /\ rest[1] \in 1..next /\ rest[2] \in 1..Fragments[e][rest[1]]
  BY <1>2, <1>8, <1>10 DEF Packed
<1>14. Len(w) <= MAX_SEND_ON_LINK BY <1>8, <1>10 DEF Packed
<1>15. MessageWaits(e)'
  <2>1. Fragments' = Fragments BY <1>11 DEF Fragments
  <2>2. QED BY <1>2, <1>9, <1>11, <1>12, <1>13, <2>1 DEF MessageWaits, Behind, UpTo
<1>16. tail = 1 => Digested(e, 1, {})'
  <2>1. SUFFICES ASSUME tail = 1 PROVE Digested(e, 1, {})' OBVIOUS
  <2>2. out_tail[e] = 1 BY <1>2, <1>5, <2>1
  <2>3. out_tail'[e] <= 1 /\ 1 <= OutHead(e) BY <1>6, <1>11, <2>1
  <2>4. Digested(e, 1, {}) BY <1>4, <2>2
  <2>5. 1 \in Nat \ {0} OBVIOUS
  <2>6. Ordered(outgoing'[e]) BY <1>9, <1>11
  <2>7. QED BY <1>3, <2>3, <2>4, <2>5, <2>6, DigestedKept
<1>17. out_tail'[e] <= tcp_head'[e] BY <1>2, <1>5, <1>11
<1>18. OutWindow(e)'
  BY <1>2, <1>9, <1>11, <1>14, <1>15, <1>16, <1>17 DEF OutWindow, Ordered
<1>19. OutHead(e) <= OutHead(e)' BY <1>3, <1>5, <1>10
<1>20. QED BY <1>3, <1>18, <1>19

-----------------------------------------------------------------------------
(* The invariant *)

\* The types of what an end receives, and of the incarnations.
InTypes ==
    /\ in_tail \in [ItEnds -> Nat \ {0}] /\ in_head \in [ItEnds -> Nat \ {0}]
    /\ incoming \in [ItEnds -> [ItSlots -> InCells]]
    /\ aru_nonce_digest \in [ItEnds -> SUBSET Pkt]

IncTypes ==
    /\ my_incarnation \in [ItEnds -> Nat \ {0}] /\ ngbr_incarnation \in [ItEnds -> Nat]
    /\ DOMAIN it_net = ItEnds /\ DOMAIN dh_pkt = ItEnds

ItTypes == OutTypes /\ InTypes /\ IncTypes

\* Both windows of an end are in order, and it was asked for packets it may send.
WindowsOf(e) ==
    /\ OutWindow(e) /\ InWindow(in_tail[e], in_head[e], incoming[e])
    /\ nacked[e] \subseteq out_tail[e]..(tcp_head[e] - 1)

\* Nobody knows an incarnation that has not been, and a key exchange is of one that has.
Known(e) ==
    /\ ngbr_incarnation[e] <= my_incarnation[Other(e)]
    /\ dh_pkt[e] # NoPkt => dh_pkt[e].type = "dh" /\ dh_pkt[e].inc \in 0..my_incarnation[e]

\* A datagram of end s names incarnations that are or were; one of its present incarnation
\* names none of the other end that it does not know.
AsSent(s, m) ==
    /\ m.inc \in 0..my_incarnation[s]
    /\ m.type = "data" =>
          /\ m.aru_inc \in 0..my_incarnation[Other(s)]
          /\ m.inc = my_incarnation[s] => m.aru_inc <= ngbr_incarnation[s]
          /\ m.seq \in Nat /\ m.aru \in Nat
          /\ m.seq > 0 => m.packet \in Pkt

\* An end that knows the other's incarnation, and is not known to it, has received nothing
\* and got no acknowledgement.
Clean(r) ==
    ngbr_incarnation[r] = my_incarnation[Other(r)] /\ ngbr_incarnation[Other(r)] # my_incarnation[r]
        => in_tail[r] = 1 /\ in_head[r] = 1 /\ aru_nonce_digest[r] = {} /\ out_tail[r] = 1

\* A packet under way between the incarnations end s knows is one it has sent.
DataRight(s, m) ==
    m.type = "data" /\ m.inc = my_incarnation[s] /\ m.aru_inc = ngbr_incarnation[s] /\ m.seq > 0 =>
        /\ m.seq < tcp_head[s]
        /\ out_tail[s] <= m.seq => m.packet = PacketNo(s, m.seq)

\* An acknowledgement under way to this incarnation of end s: one of an incarnation it does
\* not know yet is of nothing, one of the incarnation it knows proves receipt.
AckRight(s, m) ==
    m.type = "data" /\ m.aru_inc = my_incarnation[s] =>
        /\ m.inc > ngbr_incarnation[s] => m.aru = 0
        /\ m.inc = ngbr_incarnation[s] =>
              /\ m.aru < tcp_head[s]
              /\ out_tail[s] <= m.aru => m.aru_nonce = DigestAt(s, m.aru)
              /\ Paired => m.aru < in_tail[Other(s)]

\* Between paired ends the one's received packets are the other's.
LinkRight(s, r) ==
    /\ out_tail[s] <= in_tail[r] /\ in_head[r] <= tcp_head[s]
    /\ \A n \in in_tail[r]..(in_head[r] - 1) :
          incoming[r][ItSlot(n)] = Nack \/ incoming[r][ItSlot(n)] = PacketNo(s, n)
    /\ Digested(s, in_tail[r], aru_nonce_digest[r])

\* What end s has under way, and what is under way to it.
NetRight(s) ==
    /\ \A m \in it_net[Other(s)] : AsSent(s, m) /\ DataRight(s, m)
    /\ \A m \in it_net[s] : AckRight(s, m)

ItInv ==
    /\ ItTypes
    /\ \A e \in ItEnds : WindowsOf(e) /\ Known(e) /\ Clean(e) /\ NetRight(e)
    /\ Paired => \A e \in ItEnds : LinkRight(e, Other(e))

-----------------------------------------------------------------------------
(* The steps of an end, as the invariant sees them *)

\* What end e receives is left alone.
InRests(e) ==
    /\ in_tail'[e] = in_tail[e] /\ in_head'[e] = in_head[e] /\ incoming'[e] = incoming[e]
    /\ aru_nonce_digest'[e] = aru_nonce_digest[e]

\* End e is left alone by a step of the other one.
Rests(e) ==
    /\ OutRests(e) /\ InRests(e) /\ nacked'[e] = nacked[e] /\ dh_pkt'[e] = dh_pkt[e]

\* A datagram that end e sends in this step.
SentNow(e, m) ==
    /\ m.inc \in 0..my_incarnation[e]
    /\ m.type = "data" =>
          /\ m.inc = my_incarnation[e] /\ m.aru_inc = ngbr_incarnation[e]
          /\ m.aru = in_tail[e] - 1 /\ m.aru_nonce = aru_nonce_digest[e]
          /\ \/ m.seq = 0
             \/ /\ m.seq \in out_tail'[e]..(tcp_head'[e] - 1)
                /\ m.packet = PacketNo(e, m.seq)'

\* Datagrams of end e come under way to the other end, and it reads its own.
NetMoves(e) ==
    /\ it_net'[e] \subseteq it_net[e]
    /\ \A m \in it_net'[Other(e)] : m \in it_net[Other(e)] \/ SentNow(e, m)

\* End e takes datagram m for one of the current incarnations.
Accepts(e, m) == m.type = "data" /\ SameIncarnations(e, m)

\* A step within the incarnations.
Goes(e) ==
    /\ my_incarnation' = my_incarnation /\ ngbr_incarnation' = ngbr_incarnation
    /\ OutGrows(e)
    /\ \/ out_tail'[e] = out_tail[e]
       \/ \E m \in it_net[e] : Accepts(e, m) /\ out_tail'[e] = m.aru + 1
    /\ \/ InRests(e)
       \/ \E m \in it_net[e] :
             /\ Accepts(e, m) /\ m.seq > 0
             /\ \E tail \in Nat \ {0}, head \in Nat \ {0}, cells \in [ItSlots -> InCells] :
                   Passed(e, m, tail, head, cells)
    /\ NetMoves(e)

\* Nothing is acknowledged or received.
Starts(e) ==
    /\ out_tail'[e] = 1
    /\ in_tail'[e] = 1 /\ in_head'[e] = 1 /\ aru_nonce_digest'[e] = {}

\* End e learns of a new incarnation of the other end and sends no data.
Renews(e) ==
    /\ \E inc \in Nat :
          /\ ngbr_incarnation' = [ngbr_incarnation EXCEPT ![e] = inc]
          /\ ngbr_incarnation[e] < inc /\ inc <= my_incarnation[Other(e)]
    /\ my_incarnation' = my_incarnation
    /\ Starts(e) /\ NetMoves(e)
    /\ \A m \in it_net'[Other(e)] : m \in it_net[Other(e)] \/ m.type # "data"

\* End e starts again.
Restarts(e) ==
    /\ my_incarnation' = [my_incarnation EXCEPT ![e] = @ + 1]
    /\ ngbr_incarnation' = [ngbr_incarnation EXCEPT ![e] = 0]
    /\ Starts(e) /\ it_net' = it_net

\* A step of end e: its windows are windows again.
Step(e) ==
    /\ ItTypes' /\ WindowsOf(e)' /\ Rests(Other(e)) /\ it_conf' = it_conf
    /\ dh_pkt'[e] # NoPkt => dh_pkt'[e].type = "dh" /\ dh_pkt'[e].inc \in 0..my_incarnation'[e]
    /\ Goes(e) \/ Renews(e) \/ Restarts(e)

\* An end that is left alone keeps its windows and digests.
LEMMA RestsKeeps ==
    ASSUME NEW e \in ItEnds, Rests(e), it_conf' = it_conf
    PROVE  /\ WindowsOf(e) => WindowsOf(e)'
           /\ \A n : PacketNo(e, n)' = PacketNo(e, n) /\ DigestAt(e, n)' = DigestAt(e, n)
           /\ \A a, A : Digested(e, a, A) => Digested(e, a, A)'
           /\ out_tail'[e] = out_tail[e] /\ tcp_head'[e] = tcp_head[e] /\ OutHead(e)' = OutHead(e)
           /\ in_tail'[e] = in_tail[e] /\ in_head'[e] = in_head[e] /\ incoming'[e] = incoming[e]
           /\ aru_nonce_digest'[e] = aru_nonce_digest[e]
<1>1. /\ out_tail'[e] = out_tail[e] /\ tcp_head'[e] = tcp_head[e]
      /\ outgoing'[e] = outgoing[e] /\ out_nonce_digest'[e] = out_nonce_digest[e]
      /\ out_message'[e] = out_message[e] /\ next_message'[e] = next_message[e]
      /\ in_tail'[e] = in_tail[e] /\ in_head'[e] = in_head[e] /\ incoming'[e] = incoming[e]
      /\ aru_nonce_digest'[e] = aru_nonce_digest[e] /\ nacked'[e] = nacked[e]
  BY DEF Rests, OutRests, InRests
<1>2. OutHead(e)' = OutHead(e) /\ Fragments' = Fragments BY <1>1 DEF OutHead, Fragments
<1>3. \A n : PacketNo(e, n)' = PacketNo(e, n) /\ DigestAt(e, n)' = DigestAt(e, n)
  BY <1>1 DEF PacketNo, DigestAt
<1>4. \A n : Kept(e, n)' <=> Kept(e, n) BY <1>1, <1>2 DEF Kept
<1>5. \A i, j : PacketsOf(e, i, j)' = PacketsOf(e, i, j) BY <1>1 DEF PacketsOf
<1>6. ASSUME NEW a, NEW A, Digested(e, a, A) PROVE Digested(e, a, A)'
  BY <1>2, <1>3, <1>4, <1>5, <1>6 DEF Digested
<1>7. MessageWaits(e) => MessageWaits(e)' BY <1>1, <1>2 DEF MessageWaits
<1>8. OutWindow(e) => OutWindow(e)'
  BY <1>1, <1>2, <1>6, <1>7 DEF OutWindow
<1>9. WindowsOf(e) => WindowsOf(e)' BY <1>1, <1>8 DEF WindowsOf
<1>10. QED BY <1>1, <1>2, <1>3, <1>6, <1>9

-----------------------------------------------------------------------------
(* Every step keeps the invariant *)

\* The numbers of an end.
LEMMA EndHas ==
    ASSUME ItTypes, NEW e \in ItEnds
    PROVE  /\ my_incarnation[e] \in Nat /\ my_incarnation[e] > 0 /\ ngbr_incarnation[e] \in Nat
           /\ out_tail[e] \in Nat /\ out_tail[e] > 0 /\ tcp_head[e] \in Nat /\ tcp_head[e] > 0
           /\ OutHead(e) \in Nat
           /\ in_tail[e] \in Nat /\ in_tail[e] > 0 /\ in_head[e] \in Nat /\ in_head[e] > 0
<1>1. OutTypes /\ InTypes /\ IncTypes BY DEF ItTypes
<1>2. OutHead(e) \in Nat BY <1>1, OutHas
<1>3. QED BY <1>1, <1>2 DEF OutTypes, InTypes, IncTypes

\* The numbers of its windows.
LEMMA WindowsHave ==
    ASSUME ItTypes, NEW e \in ItEnds, WindowsOf(e)
    PROVE  /\ out_tail[e] <= tcp_head[e] /\ tcp_head[e] <= OutHead(e)
           /\ OutHead(e) <= out_tail[e] + MAX_SEND_ON_LINK
           /\ in_tail[e] <= in_head[e] /\ in_head[e] <= in_tail[e] + MAX_SEND_ON_LINK
           /\ Ordered(outgoing[e]) /\ outgoing[e] \in Seq(Pkt)
           /\ out_tail[e] = 1 => Digested(e, 1, {})
<1>1. /\ out_tail[e] <= tcp_head[e] /\ tcp_head[e] <= OutHead(e)
      /\ Len(outgoing[e]) <= MAX_SEND_ON_LINK
      /\ in_tail[e] <= in_head[e] /\ in_head[e] <= in_tail[e] + MAX_SEND_ON_LINK
      /\ Ordered(outgoing[e]) /\ (out_tail[e] = 1 => Digested(e, 1, {}))
  BY DEF WindowsOf, OutWindow, InWindow
<1>2. OutTypes BY DEF ItTypes
<1>3. out_tail[e] \in Nat /\ Len(outgoing[e]) \in Nat /\ outgoing[e] \in Seq(Pkt)
      /\ OutHead(e) = out_tail[e] + Len(outgoing[e])
  BY <1>2, OutHas
<1>4. OutHead(e) <= out_tail[e] + MAX_SEND_ON_LINK BY <1>1, <1>3, ItConstants
<1>5. QED BY <1>1, <1>3, <1>4

\* The ends are paired when each knows the other.
LEMMA PairedMeans ==
    ASSUME NEW e \in ItEnds
    PROVE  Paired <=> /\ ngbr_incarnation[e] = my_incarnation[Other(e)]
                      /\ ngbr_incarnation[Other(e)] = my_incarnation[e]
BY TwoEnds DEF Paired

\* The digests of a window that has received more.
LEMMA DigestedMoves ==
    ASSUME OutTypes, NEW e \in ItEnds, Ordered(outgoing[e]), NEW a \in Nat \ {0}, NEW b \in Nat,
           out_tail[e] <= a, a <= b, b <= OutHead(e), NEW A, Digested(e, a, A)
    PROVE  Digested(e, b, Xor(A, PacketsOf(e, a, b - 1)))
<1> DEFINE top == OutHead(e)
           w == outgoing[e]
           t == out_tail[e]
<1>1. t \in Nat \ {0} /\ w \in Seq(Pkt) /\ top = t + Len(w) /\ Len(w) \in Nat BY OutHas
<1>2. t <= a /\ b <= top OBVIOUS
<1>3. ASSUME NEW n \in (b - 1)..(top - 1), Kept(e, n)
      PROVE  DigestAt(e, n) = Xor(Xor(A, PacketsOf(e, a, b - 1)), PacketsOf(e, b, n))
  <2>1. n \in (a - 1)..(top - 1)
    <3> HIDE DEF top, t, w
    <3>1. QED BY <1>1
  <2>2. DigestAt(e, n) = Xor(A, PacketsOf(e, a, n)) BY <1>3, <2>1 DEF Digested
  <2> HIDE DEF top, t, w
  <2>3. n \in Int /\ b <= n + 1 /\ n < t + Len(w) BY <1>1
  <2>4. Ordered(w) BY DEF w
  <2>5. /\ PacketsIn(w, t, a, b - 1) \cap PacketsIn(w, t, b, n) = {}
        /\ PacketsIn(w, t, a, b - 1) \cup PacketsIn(w, t, b, n) = PacketsIn(w, t, a, n)
    BY <1>1, <1>2, <2>3, <2>4, PacketsJoin
  <2>6. Xor(Xor(A, PacketsIn(w, t, a, b - 1)), PacketsIn(w, t, b, n)) = Xor(A, PacketsIn(w, t, a, n))
    BY <2>5, XorJoin
  <2>7. QED BY <2>2, <2>6 DEF PacketsOf, w, t
<1>4. QED BY <1>3 DEF Digested

\* A packet that is sent and not acknowledged keeps its number and its digest.
LEMMA SentStays ==
    ASSUME ItTypes, ItTypes', NEW e \in ItEnds, WindowsOf(e), WindowsOf(e)', OutGrows(e),
           NEW n \in Nat, n < tcp_head[e], out_tail'[e] <= n
    PROVE  PacketNo(e, n)' = PacketNo(e, n) /\ DigestAt(e, n)' = DigestAt(e, n)
<1>1. out_tail[e] \in Nat /\ tcp_head[e] \in Nat /\ OutHead(e) \in Nat BY EndHas
<1>2. out_tail'[e] \in Nat /\ OutHead(e)' \in Nat
      /\ OutHead(e)' <= out_tail'[e] + MAX_SEND_ON_LINK
  <2>1. (out_tail[e] \in Nat /\ OutHead(e) \in Nat)' BY EndHas, PTL
  <2>2. (OutHead(e) <= out_tail[e] + MAX_SEND_ON_LINK)' BY WindowsHave, PTL
  <2>3. QED BY <2>1, <2>2
<1>3. tcp_head[e] <= OutHead(e) BY WindowsHave
<1>4. /\ \A k \in out_tail'[e]..(OutHead(e) - 1) : PacketNo(e, k)' = PacketNo(e, k)
      /\ \A k \in Int : Kept(e, k)' /\ k < OutHead(e) => DigestAt(e, k)' = DigestAt(e, k)
      /\ OutHead(e) <= OutHead(e)'
  BY DEF OutGrows
<1>5. n < OutHead(e) /\ n \in out_tail'[e]..(OutHead(e) - 1) /\ n \in Int BY <1>1, <1>2, <1>3
<1>6. n \in (out_tail'[e] - 1)..(OutHead(e)' - 1) /\ OutHead(e)' <= n + MAX_SEND_ON_LINK
  BY <1>1, <1>2, <1>3, <1>4, ItConstants
<1>7. Kept(e, n)' BY <1>6 DEF Kept
<1>8. QED BY <1>4, <1>5, <1>7

\* What the invariant says of an end.
LEMMA InvHas ==
    ASSUME ItInv, NEW e \in ItEnds
    PROVE  /\ ItTypes /\ WindowsOf(e) /\ Known(e) /\ Clean(e)
           /\ \A m \in it_net[Other(e)] : AsSent(e, m) /\ DataRight(e, m)
           /\ \A m \in it_net[e] : AckRight(e, m)
           /\ Paired => LinkRight(e, Other(e))
BY DEF ItInv, NetRight

\* Whoever takes a datagram of the other end's present incarnation is paired with it.
LEMMA AcceptsPaired ==
    ASSUME ItInv, NEW e \in ItEnds, NEW m \in it_net[e], Accepts(e, m),
           ngbr_incarnation[e] = my_incarnation[Other(e)]
    PROVE  Paired
<1> DEFINE o == Other(e)
<1>1. o \in ItEnds /\ Other(o) = e BY TwoEnds
<1>2. m.type = "data" /\ m.inc = ngbr_incarnation[e] /\ m.aru_inc = my_incarnation[e]
  BY DEF Accepts, SameIncarnations
<1>3. AsSent(o, m) BY <1>1, InvHas
<1>4. my_incarnation[e] <= ngbr_incarnation[o] BY <1>2, <1>3 DEF AsSent
<1>5. ngbr_incarnation[o] <= my_incarnation[e] BY <1>1, InvHas DEF Known
<1>6. my_incarnation[e] \in Nat /\ ngbr_incarnation[o] \in Nat BY <1>1, InvHas, EndHas
<1>7. ngbr_incarnation[o] = my_incarnation[e] BY <1>4, <1>5, <1>6
<1>8. QED BY <1>7, PairedMeans

\* What the end that makes a step, and the other one, have after it.
LEMMA StepHas ==
    ASSUME ItInv, NEW e \in ItEnds, Step(e)
    PROVE  /\ ItTypes' /\ \A d \in ItEnds : WindowsOf(d)'
           /\ Rests(Other(e)) /\ it_conf' = it_conf
<1>1. Other(e) \in ItEnds /\ \A d \in ItEnds : d = e \/ d = Other(e) BY TwoEnds
<1>2. ItTypes' /\ WindowsOf(e)' /\ Rests(Other(e)) /\ it_conf' = it_conf BY DEF Step
<1>3. WindowsOf(Other(e)) BY <1>1, InvHas
<1>4. WindowsOf(Other(e))' BY <1>1, <1>2, <1>3, RestsKeeps
<1>5. QED BY <1>1, <1>2, <1>4

\* In a step within the incarnations the packets under way stay right.
LEMMA GoesDataRight ==
    ASSUME ItInv, NEW e \in ItEnds, Step(e), Goes(e)
    PROVE  /\ \A m \in it_net'[Other(e)] : AsSent(e, m)' /\ DataRight(e, m)'
           /\ \A m \in it_net'[e] : AsSent(Other(e), m)' /\ DataRight(Other(e), m)'
<1> DEFINE o == Other(e)
<1>1. o \in ItEnds /\ Other(o) = e BY TwoEnds
<1>2. /\ ItTypes /\ ItTypes' /\ WindowsOf(e) /\ WindowsOf(e)' /\ Rests(o) /\ it_conf' = it_conf
      /\ Known(e)
  BY StepHas, InvHas
<1>3. /\ my_incarnation' = my_incarnation /\ ngbr_incarnation' = ngbr_incarnation
      /\ OutGrows(e) /\ NetMoves(e)
  BY DEF Goes
<1>4. /\ my_incarnation[e] \in Nat /\ ngbr_incarnation[e] \in Nat /\ my_incarnation[o] \in Nat
      /\ in_tail[e] \in Nat /\ in_tail[e] > 0 /\ out_tail[e] \in Nat /\ tcp_head[e] \in Nat
  BY <1>1, <1>2, EndHas
<1>5. out_tail'[e] \in Nat /\ tcp_head'[e] \in Nat /\ outgoing'[e] \in Seq(Pkt)
      /\ out_tail'[e] > 0 /\ tcp_head'[e] <= out_tail'[e] + Len(outgoing'[e])
  <2>1. (out_tail[e] \in Nat /\ tcp_head[e] \in Nat /\ out_tail[e] > 0)' BY <1>2, EndHas, PTL
  <2>2. (tcp_head[e] <= OutHead(e) /\ outgoing[e] \in Seq(Pkt))' BY <1>2, WindowsHave, PTL
  <2>3. QED BY <2>1, <2>2 DEF OutHead
<1>6. out_tail[e] <= out_tail'[e] /\ tcp_head[e] <= tcp_head'[e] BY <1>3 DEF OutGrows
<1>7. ASSUME NEW m \in it_net[o] PROVE AsSent(e, m)' /\ DataRight(e, m)'
  <2>1. AsSent(e, m) /\ DataRight(e, m) BY InvHas
  <2>2. AsSent(e, m)' BY <1>3, <2>1 DEF AsSent
  <2>3. ASSUME m.type = "data", m.inc = my_incarnation[e], m.aru_inc = ngbr_incarnation[e], m.seq > 0
        PROVE  /\ m.seq < tcp_head'[e]
               /\ out_tail'[e] <= m.seq => m.packet = PacketNo(e, m.seq)'
    <3>1. m.seq < tcp_head[e] /\ (out_tail[e] <= m.seq => m.packet = PacketNo(e, m.seq))
      BY <2>1, <2>3 DEF DataRight
    <3>2. m.seq \in Nat BY <2>1, <2>3 DEF AsSent
    <3>3. out_tail'[e] <= m.seq => PacketNo(e, m.seq)' = PacketNo(e, m.seq)
      BY <1>2, <1>3, <3>1, <3>2, SentStays
    <3>4. QED BY <1>4, <1>5, <1>6, <3>1, <3>2, <3>3
  <2>4. DataRight(e, m)' BY <1>3, <2>3 DEF DataRight
  <2>5. QED BY <2>2, <2>4
<1>8. ASSUME NEW m, SentNow(e, m) PROVE AsSent(e, m)' /\ DataRight(e, m)'
  <2>1. /\ m.inc \in 0..my_incarnation[e]
        /\ m.type = "data" =>
              /\ m.inc = my_incarnation[e] /\ m.aru_inc = ngbr_incarnation[e]
              /\ m.aru = in_tail[e] - 1
              /\ \/ m.seq = 0
                 \/ /\ m.seq \in out_tail'[e]..(tcp_head'[e] - 1)
                    /\ m.packet = PacketNo(e, m.seq)'
    BY <1>8 DEF SentNow
  <2>2. ngbr_incarnation[e] <= my_incarnation[o] BY <1>2 DEF Known
  <2>3. ASSUME m.type = "data", m.seq # 0
        PROVE  /\ m.seq \in Nat /\ m.seq < tcp_head'[e]
               /\ m.packet \in Pkt /\ m.packet = PacketNo(e, m.seq)'
    <3>1. m.seq \in out_tail'[e]..(tcp_head'[e] - 1) /\ m.packet = PacketNo(e, m.seq)' BY <2>1, <2>3
    <3>2. Len(outgoing'[e]) \in Nat /\ \A i \in 1..Len(outgoing'[e]) : outgoing'[e][i] \in Pkt
      BY <1>5, PacketsAre
    <3>3. m.seq \in Nat /\ m.seq < tcp_head'[e]
          /\ m.seq - out_tail'[e] + 1 \in 1..Len(outgoing'[e])
      BY <1>5, <3>1, <3>2
    <3>4. PacketNo(e, m.seq)' = outgoing'[e][m.seq - out_tail'[e] + 1] BY DEF PacketNo
    <3>5. QED BY <3>1, <3>2, <3>3, <3>4
  <2>4. AsSent(e, m)'
    <3>1. ASSUME m.type = "data"
          PROVE  /\ m.aru_inc \in 0..my_incarnation[o] /\ m.aru_inc <= ngbr_incarnation[e]
                 /\ m.seq \in Nat /\ m.aru \in Nat /\ (m.seq > 0 => m.packet \in Pkt)
      <4>1. m.aru_inc \in 0..my_incarnation[o] /\ m.aru_inc <= ngbr_incarnation[e] /\ m.aru \in Nat
        BY <1>4, <2>1, <2>2, <3>1
      <4>2. m.seq \in Nat /\ (m.seq > 0 => m.packet \in Pkt) BY <2>3, <3>1
      <4>3. QED BY <4>1, <4>2
    <3>2. QED BY <1>3, <2>1, <3>1 DEF AsSent
  <2>5. DataRight(e, m)'
    <3>1. m.type = "data" /\ m.seq > 0 =>
             m.seq < tcp_head'[e] /\ m.packet = PacketNo(e, m.seq)'
      BY <2>3
    <3>2. QED BY <1>3, <3>1 DEF DataRight
  <2>6. QED BY <2>4, <2>5
<1>9. ASSUME NEW m \in it_net[e] PROVE AsSent(o, m)' /\ DataRight(o, m)'
  <2>1. AsSent(o, m) /\ DataRight(o, m) BY <1>1, InvHas
  <2>2. AsSent(o, m)' BY <1>3, <2>1 DEF AsSent
  <2>3. /\ out_tail'[o] = out_tail[o] /\ tcp_head'[o] = tcp_head[o]
        /\ \A n : PacketNo(o, n)' = PacketNo(o, n)
    BY <1>1, <1>2, RestsKeeps
  <2>4. DataRight(o, m)' BY <1>3, <2>1, <2>3 DEF DataRight
  <2>5. QED BY <2>2, <2>4
<1>10. /\ it_net'[e] \subseteq it_net[e]
       /\ \A m \in it_net'[o] : m \in it_net[o] \/ SentNow(e, m)
  BY <1>3 DEF NetMoves
<1>11. QED BY <1>7, <1>8, <1>9, <1>10

\* Who is paired stays paired, within the incarnations.
LEMMA GoesPaired ==
    ASSUME NEW e \in ItEnds, Goes(e)
    PROVE  Paired' <=> Paired
BY DEF Goes, Paired

\* In such a step no end receives anything unless the ends are paired, or the sender is a
\* former one.
LEMMA GoesQuietly ==
    ASSUME ItInv, NEW e \in ItEnds, Goes(e),
           ngbr_incarnation[e] = my_incarnation[Other(e)], ~Paired
    PROVE  InRests(e) /\ out_tail'[e] = out_tail[e]
<1>1. \A m \in it_net[e] : ~Accepts(e, m) BY AcceptsPaired
<1>2. QED BY <1>1 DEF Goes

\* What end e receives moves on only.
LEMMA GoesOn ==
    ASSUME NEW e \in ItEnds, Goes(e), ItTypes
    PROVE  in_tail[e] <= in_tail'[e]
<1>1. CASE InRests(e) BY <1>1, EndHas DEF InRests
<1>2. CASE \E m \in it_net[e] :
              /\ Accepts(e, m) /\ m.seq > 0
              /\ \E tail \in Nat \ {0}, head \in Nat \ {0}, cells \in [ItSlots -> InCells] :
                    Passed(e, m, tail, head, cells)
  <2>1. PICK m \in it_net[e] :
                \E tail \in Nat \ {0}, head \in Nat \ {0}, cells \in [ItSlots -> InCells] :
                    Passed(e, m, tail, head, cells)
    BY <1>2
  <2>2. PICK tail \in Nat \ {0}, head \in Nat \ {0}, cells \in [ItSlots -> InCells] :
                Passed(e, m, tail, head, cells)
    BY <2>1
  <2>3. in_tail' = [in_tail EXCEPT ![e] = tail] /\ in_tail[e] <= tail BY <2>2 DEF Passed
  <2>4. QED BY <2>3 DEF ItTypes, InTypes
<1>3. QED BY <1>1, <1>2 DEF Goes

\* In such a step the acknowledgements under way stay right.
LEMMA GoesAckRight ==
    ASSUME ItInv, NEW e \in ItEnds, Step(e), Goes(e)
    PROVE  /\ \A m \in it_net'[e] : AckRight(e, m)'
           /\ \A m \in it_net'[Other(e)] : AckRight(Other(e), m)'
<1> DEFINE o == Other(e)
<1>1. o \in ItEnds /\ Other(o) = e /\ o # e BY TwoEnds
<1>2. /\ ItTypes /\ ItTypes' /\ WindowsOf(e) /\ WindowsOf(e)' /\ Rests(o) /\ it_conf' = it_conf
      /\ WindowsOf(o) /\ Clean(e) /\ Known(o)
  BY <1>1, StepHas, InvHas
<1>3. /\ my_incarnation' = my_incarnation /\ ngbr_incarnation' = ngbr_incarnation
      /\ OutGrows(e) /\ NetMoves(e) /\ (Paired' <=> Paired)
  BY GoesPaired DEF Goes
<1>4. /\ my_incarnation[e] \in Nat /\ ngbr_incarnation[e] \in Nat /\ my_incarnation[o] \in Nat
      /\ ngbr_incarnation[o] \in Nat
      /\ in_tail[e] \in Nat /\ in_tail[e] > 0 /\ out_tail[e] \in Nat /\ tcp_head[e] \in Nat
      /\ in_head[e] \in Nat /\ out_tail[o] \in Nat /\ tcp_head[o] \in Nat /\ OutHead(o) \in Nat
  BY <1>1, <1>2, EndHas
<1>5. out_tail'[e] \in Nat /\ tcp_head'[e] \in Nat /\ in_tail'[e] \in Nat
  <2>1. (out_tail[e] \in Nat /\ tcp_head[e] \in Nat /\ in_tail[e] \in Nat)' BY <1>2, EndHas, PTL
  <2>2. QED BY <2>1
<1>6. /\ out_tail[e] <= out_tail'[e] /\ tcp_head[e] <= tcp_head'[e]
      /\ in_tail[e] <= in_tail'[e]
  BY <1>2, <1>3, GoesOn DEF OutGrows
<1>7. /\ out_tail'[o] = out_tail[o] /\ tcp_head'[o] = tcp_head[o] /\ in_tail'[o] = in_tail[o]
      /\ \A n : DigestAt(o, n)' = DigestAt(o, n)
  BY <1>1, <1>2, RestsKeeps
<1>8. ASSUME NEW m \in it_net[e] PROVE AckRight(e, m)'
  <2>1. AckRight(e, m) /\ AsSent(o, m) BY <1>1, InvHas
  <2>2. ASSUME m.type = "data", m.aru_inc = my_incarnation[e], m.inc = ngbr_incarnation[e]
        PROVE  /\ m.aru < tcp_head'[e]
               /\ out_tail'[e] <= m.aru => m.aru_nonce = DigestAt(e, m.aru)'
               /\ Paired => m.aru < in_tail'[o]
    <3>1. /\ m.aru < tcp_head[e]
          /\ out_tail[e] <= m.aru => m.aru_nonce = DigestAt(e, m.aru)
          /\ Paired => m.aru < in_tail[o]
      BY <2>1, <2>2 DEF AckRight
    <3>2. m.aru \in Nat BY <2>1, <2>2 DEF AsSent
    <3>3. out_tail'[e] <= m.aru => DigestAt(e, m.aru)' = DigestAt(e, m.aru)
      BY <1>2, <1>3, <3>1, <3>2, SentStays
    <3>4. m.aru < tcp_head'[e] /\ (out_tail'[e] <= m.aru => out_tail[e] <= m.aru)
      BY <1>4, <1>5, <1>6, <3>1, <3>2
    <3>5. QED BY <1>7, <3>1, <3>3, <3>4
  <2>3. QED BY <1>3, <2>1, <2>2 DEF AckRight
<1>9. ASSUME NEW m \in it_net[o] PROVE AckRight(o, m)'
  <2>1. AckRight(o, m) /\ AsSent(e, m) BY <1>1, InvHas
  <2>2. ASSUME m.type = "data", m.aru_inc = my_incarnation[o], m.inc = ngbr_incarnation[o]
        PROVE  /\ m.aru < tcp_head'[o]
               /\ out_tail'[o] <= m.aru => m.aru_nonce = DigestAt(o, m.aru)'
               /\ Paired => m.aru < in_tail'[e]
    <3>1. /\ m.aru < tcp_head[o]
          /\ out_tail[o] <= m.aru => m.aru_nonce = DigestAt(o, m.aru)
          /\ Paired => m.aru < in_tail[e]
      BY <1>1, <2>1, <2>2 DEF AckRight
    <3>2. m.aru \in Nat BY <2>1, <2>2 DEF AsSent
    <3>3. Paired => m.aru < in_tail'[e] BY <1>4, <1>5, <1>6, <3>1, <3>2
    <3>4. QED BY <1>7, <3>1, <3>3
  <2>3. QED BY <1>1, <1>3, <2>1, <2>2 DEF AckRight
<1>10. ASSUME NEW m, SentNow(e, m) PROVE AckRight(o, m)'
  <2>1. SUFFICES ASSUME m.type = "data", m.aru_inc = my_incarnation[o]
                 PROVE  /\ m.inc > ngbr_incarnation[o] => m.aru = 0
                        /\ m.inc = ngbr_incarnation[o] =>
                              /\ m.aru < tcp_head'[o]
                              /\ out_tail'[o] <= m.aru => m.aru_nonce = DigestAt(o, m.aru)'
                              /\ Paired => m.aru < in_tail'[e]
    BY <1>1, <1>3 DEF AckRight
  <2>2. /\ m.inc = my_incarnation[e] /\ ngbr_incarnation[e] = my_incarnation[o]
        /\ m.aru = in_tail[e] - 1 /\ m.aru_nonce = aru_nonce_digest[e]
    BY <1>10, <2>1 DEF SentNow
  <2>3. CASE ngbr_incarnation[o] # my_incarnation[e]
    <3>1. in_tail[e] = 1 BY <1>2, <2>2, <2>3 DEF Clean
    <3>2. QED BY <2>2, <2>3, <3>1
  <2>4. CASE ngbr_incarnation[o] = my_incarnation[e]
    <3>1. LinkRight(o, e) BY <1>1, <2>2, <2>4, InvHas, PairedMeans
    <3>2. in_tail[e] <= in_head[e] /\ tcp_head[o] <= OutHead(o)
          /\ OutHead(o) <= out_tail[o] + MAX_SEND_ON_LINK
      BY <1>1, <1>2, WindowsHave
    <3>3. in_head[e] <= tcp_head[o] /\ out_tail[o] <= in_tail[e]
          /\ Digested(o, in_tail[e], aru_nonce_digest[e])
      BY <3>1 DEF LinkRight
    <3> DEFINE n == in_tail[e] - 1
    <3>4. m.aru = n /\ n \in Nat /\ n < tcp_head[o] /\ n < in_tail'[e]
      BY <1>4, <1>5, <1>6, <2>2, <3>2, <3>3
    <3>5. n \in (in_tail[e] - 1)..(OutHead(o) - 1)
      <4> HIDE DEF OutHead
      <4>1. QED BY <1>4, <3>2, <3>3
    <3>6. ASSUME out_tail[o] <= n PROVE aru_nonce_digest[e] = DigestAt(o, n)
      <4>1. n \in (out_tail[o] - 1)..(OutHead(o) - 1) /\ OutHead(o) <= n + MAX_SEND_ON_LINK
        BY <1>4, <3>2, <3>4, <3>5, <3>6, ItConstants
      <4>2. Kept(o, n) BY <4>1 DEF Kept
      <4>3. DigestAt(o, n) = Xor(aru_nonce_digest[e], PacketsOf(o, in_tail[e], n))
        BY <3>3, <3>5, <4>2 DEF Digested
      <4>4. PacketsOf(o, in_tail[e], n) = {}
        <5>1. in_tail[e]..n = {} BY <1>4
        <5> HIDE DEF n
        <5>2. QED BY <5>1 DEF PacketsOf, PacketsIn
      <4>5. QED BY <4>3, <4>4 DEF Xor
    <3> HIDE DEF n
    <3>7. QED BY <1>4, <1>7, <2>2, <2>4, <3>4, <3>6
  <2>5. QED BY <2>3, <2>4
<1>11. /\ it_net'[e] \subseteq it_net[e]
       /\ \A m \in it_net'[o] : m \in it_net[o] \/ SentNow(e, m)
  BY <1>3 DEF NetMoves
<1>12. QED BY <1>8, <1>9, <1>10, <1>11

\* In such a step an end that is not known receives nothing.
LEMMA GoesClean ==
    ASSUME ItInv, NEW e \in ItEnds, Step(e), Goes(e)
    PROVE  Clean(e)' /\ Clean(Other(e))'
<1> DEFINE o == Other(e)
<1>1. o \in ItEnds /\ Other(o) = e /\ o # e BY TwoEnds
<1>2. my_incarnation' = my_incarnation /\ ngbr_incarnation' = ngbr_incarnation BY DEF Goes
<1>3. Clean(e) /\ Clean(o) /\ Rests(o) BY <1>1, InvHas, StepHas
<1>4. Clean(o)' BY <1>1, <1>2, <1>3 DEF Clean, Rests, InRests, OutRests
<1>5. Clean(e)'
  <2>1. SUFFICES ASSUME ngbr_incarnation[e] = my_incarnation[o], ngbr_incarnation[o] # my_incarnation[e]
                 PROVE  in_tail'[e] = 1 /\ in_head'[e] = 1 /\ aru_nonce_digest'[e] = {}
                        /\ out_tail'[e] = 1
    BY <1>2 DEF Clean
  <2>2. ~Paired BY <2>1, PairedMeans
  <2>3. InRests(e) /\ out_tail'[e] = out_tail[e] BY <2>1, <2>2, GoesQuietly
  <2>4. QED BY <1>3, <2>1, <2>3 DEF Clean, InRests
<1>6. QED BY <1>4, <1>5

\* In such a step what the other end has received stays the packets of this one.
LEMMA GoesSending ==
    ASSUME ItInv, NEW e \in ItEnds, Step(e), Goes(e), Paired
    PROVE  LinkRight(e, Other(e))'
<1> DEFINE o == Other(e)
<1>1. o \in ItEnds /\ Other(o) = e /\ o # e BY TwoEnds
<1>2. /\ ItTypes /\ ItTypes' /\ WindowsOf(e) /\ WindowsOf(e)' /\ Rests(o)
      /\ WindowsOf(o) /\ LinkRight(e, o)
  BY <1>1, StepHas, InvHas
<1>3. OutGrows(e) BY DEF Goes
<1>4. /\ in_tail[o] \in Nat /\ in_tail[o] > 0 /\ in_head[o] \in Nat
      /\ tcp_head[e] \in Nat /\ OutHead(e) \in Nat
  BY <1>1, <1>2, EndHas
<1>5. out_tail'[e] \in Nat /\ tcp_head'[e] \in Nat
  <2>1. (out_tail[e] \in Nat /\ tcp_head[e] \in Nat)' BY <1>2, EndHas, PTL
  <2>2. QED BY <2>1
<1>6. /\ out_tail[e] <= in_tail[o] /\ in_head[o] <= tcp_head[e]
      /\ \A n \in in_tail[o]..(in_head[o] - 1) :
            incoming[o][ItSlot(n)] = Nack \/ incoming[o][ItSlot(n)] = PacketNo(e, n)
      /\ Digested(e, in_tail[o], aru_nonce_digest[o])
  BY <1>2 DEF LinkRight
<1>7. in_tail[o] <= in_head[o] /\ tcp_head[e] <= OutHead(e) /\ tcp_head[e] <= tcp_head'[e]
  BY <1>1, <1>2, <1>3, WindowsHave DEF OutGrows
<1>8. /\ in_tail'[o] = in_tail[o] /\ in_head'[o] = in_head[o] /\ incoming'[o] = incoming[o]
      /\ aru_nonce_digest'[o] = aru_nonce_digest[o]
  BY <1>2 DEF Rests, InRests
<1>9. out_tail'[e] <= in_tail[o]
  <2>1. CASE out_tail'[e] = out_tail[e] BY <1>6, <2>1
  <2>2. CASE \E m \in it_net[e] : Accepts(e, m) /\ out_tail'[e] = m.aru + 1
    <3>1. PICK m \in it_net[e] : Accepts(e, m) /\ out_tail'[e] = m.aru + 1 BY <2>2
    <3>2. AckRight(e, m) /\ AsSent(o, m) BY <1>1, InvHas
    <3>3. m.type = "data" /\ m.inc = ngbr_incarnation[e] /\ m.aru_inc = my_incarnation[e]
      BY <3>1 DEF Accepts, SameIncarnations
    <3>4. m.aru < in_tail[o] /\ m.aru \in Nat BY <3>2, <3>3 DEF AckRight, AsSent
    <3>5. QED BY <1>4, <3>1, <3>4
  <2>3. QED BY <2>1, <2>2 DEF Goes
<1>10. in_head[o] <= tcp_head'[e] BY <1>4, <1>5, <1>6, <1>7
<1>11. ASSUME NEW n \in in_tail[o]..(in_head[o] - 1)
       PROVE  incoming[o][ItSlot(n)] = Nack \/ incoming[o][ItSlot(n)] = PacketNo(e, n)'
  <2>1. n \in Nat /\ n < tcp_head[e] /\ out_tail'[e] <= n BY <1>4, <1>5, <1>6, <1>9
  <2>2. PacketNo(e, n)' = PacketNo(e, n) BY <1>2, <1>3, <2>1, SentStays
  <2>3. QED BY <1>6, <2>2
<1>12. Digested(e, in_tail[o], aru_nonce_digest[o])'
  <2>0. PICK a, A : a = in_tail[o] /\ A = aru_nonce_digest[o] OBVIOUS
  <2>1. OutTypes /\ OutTypes' BY <1>2 DEF ItTypes
  <2>2. Ordered(outgoing'[e])
    <3>1. Ordered(outgoing[e])' BY <1>2, WindowsHave, PTL
    <3>2. QED BY <3>1 DEF Ordered
  <2>3. a \in Nat \ {0} /\ out_tail'[e] <= a /\ a <= OutHead(e)
    <3> HIDE DEF OutHead
    <3>1. QED BY <1>4, <1>6, <1>7, <1>9, <2>0
  <2>4. Digested(e, a, A) BY <1>6, <2>0
  <2>5. a = in_tail'[o] /\ A = aru_nonce_digest'[o] BY <1>8, <2>0
  <2>6. Digested(e, a, A)' BY <1>3, <2>1, <2>2, <2>3, <2>4, DigestedKept
  <2>7. QED BY <2>5, <2>6 DEF Digested
<1>13. QED BY <1>8, <1>9, <1>10, <1>11, <1>12 DEF LinkRight

\* A packet that is taken is the sender's, and so is what is in order then.
LEMMA PassedAre ==
    ASSUME ItInv, NEW e \in ItEnds, Paired, NEW m \in it_net[e], Accepts(e, m), m.seq > 0,
           NEW tail \in Nat \ {0}, NEW head \in Nat \ {0}, NEW cells \in [ItSlots -> InCells],
           Passed(e, m, tail, head, cells)
    PROVE  /\ m.seq < tcp_head[Other(e)] /\ head <= tcp_head[Other(e)]
           /\ \A n \in in_tail[e]..(tail - 1) : Stored(e, m, n) = PacketNo(Other(e), n)
           /\ \A n \in tail..(head - 1) :
                 cells[ItSlot(n)] = Nack \/ cells[ItSlot(n)] = PacketNo(Other(e), n)
<1> DEFINE o == Other(e)
<1>1. o \in ItEnds /\ Other(o) = e /\ o # e BY TwoEnds
<1>2. ItTypes /\ LinkRight(o, e) BY <1>1, InvHas
<1>3. /\ in_tail[e] \in Nat /\ in_head[e] \in Nat /\ tcp_head[o] \in Nat /\ out_tail[o] \in Nat
  BY <1>1, <1>2, EndHas
<1>4. /\ in_tail[e] <= tail /\ in_tail[e] <= m.seq
      /\ head = IF m.seq < in_head[e] THEN in_head[e] ELSE m.seq + 1
      /\ \A n \in in_tail[e]..(tail - 1) : Stored(e, m, n) \in Pkt /\ (n = m.seq \/ n < in_head[e])
      /\ \A n \in tail..(head - 1) :
            \/ cells[ItSlot(n)] = Nack
            \/ cells[ItSlot(n)] = Stored(e, m, n) /\ (n = m.seq \/ n < in_head[e])
  BY DEF Passed
<1>5. /\ out_tail[o] <= in_tail[e] /\ in_head[e] <= tcp_head[o]
      /\ \A n \in in_tail[e]..(in_head[e] - 1) :
            incoming[e][ItSlot(n)] = Nack \/ incoming[e][ItSlot(n)] = PacketNo(o, n)
  BY <1>2 DEF LinkRight
<1>6. m.type = "data" /\ m.inc = my_incarnation[o] /\ m.aru_inc = ngbr_incarnation[o]
  BY <1>1, PairedMeans DEF Accepts, SameIncarnations
<1>7. AsSent(o, m) /\ DataRight(o, m) BY <1>1, InvHas
<1>8. m.seq \in Nat /\ m.seq < tcp_head[o] /\ (out_tail[o] <= m.seq => m.packet = PacketNo(o, m.seq))
  BY <1>6, <1>7 DEF AsSent, DataRight
<1>9. m.packet = PacketNo(o, m.seq) BY <1>3, <1>4, <1>5, <1>8
<1>10. head <= tcp_head[o] BY <1>3, <1>4, <1>5, <1>8
<1>11. ASSUME NEW n \in Int, in_tail[e] <= n, n = m.seq \/ n < in_head[e]
       PROVE  Stored(e, m, n) = Nack \/ Stored(e, m, n) = PacketNo(o, n)
  <2>1. CASE n = m.seq BY <1>9, <2>1 DEF Stored
  <2>2. CASE n # m.seq
    <3>1. n \in in_tail[e]..(in_head[e] - 1) BY <1>3, <1>11, <2>2
    <3>2. QED BY <1>5, <2>2, <3>1 DEF Stored
  <2>3. QED BY <2>1, <2>2
<1>12. ASSUME NEW n \in in_tail[e]..(tail - 1) PROVE Stored(e, m, n) = PacketNo(o, n)
  <2>1. n \in Int /\ in_tail[e] <= n BY <1>3
  <2>2. Stored(e, m, n) \in Pkt /\ (n = m.seq \/ n < in_head[e]) BY <1>4
  <2>3. QED BY <1>11, <2>1, <2>2, MarksAreNoPackets
<1>13. ASSUME NEW n \in tail..(head - 1)
       PROVE  cells[ItSlot(n)] = Nack \/ cells[ItSlot(n)] = PacketNo(o, n)
  <2>1. n \in Int /\ in_tail[e] <= n BY <1>3, <1>4
  <2>2. \/ cells[ItSlot(n)] = Nack
        \/ cells[ItSlot(n)] = Stored(e, m, n) /\ (n = m.seq \/ n < in_head[e])
    BY <1>4
  <2>3. QED BY <1>11, <2>1, <2>2
<1>14. QED BY <1>8, <1>10, <1>12, <1>13

\* In a step within the incarnations what this end has received stays the other's packets.
LEMMA GoesReceiving ==
    ASSUME ItInv, NEW e \in ItEnds, Step(e), Goes(e), Paired
    PROVE  LinkRight(Other(e), e)'
<1> DEFINE o == Other(e)
<1>1. o \in ItEnds /\ Other(o) = e /\ o # e BY TwoEnds
<1>2. /\ ItTypes /\ ItTypes' /\ WindowsOf(e)' /\ Rests(o) /\ it_conf' = it_conf
      /\ WindowsOf(o) /\ LinkRight(o, e)
  BY <1>1, StepHas, InvHas
<1>3. /\ out_tail'[o] = out_tail[o] /\ tcp_head'[o] = tcp_head[o]
      /\ \A n : PacketNo(o, n)' = PacketNo(o, n)
      /\ \A a, A : Digested(o, a, A) => Digested(o, a, A)'
  BY <1>1, <1>2, RestsKeeps
<1>4. /\ out_tail[o] <= in_tail[e] /\ in_head[e] <= tcp_head[o]
      /\ \A n \in in_tail[e]..(in_head[e] - 1) :
            incoming[e][ItSlot(n)] = Nack \/ incoming[e][ItSlot(n)] = PacketNo(o, n)
      /\ Digested(o, in_tail[e], aru_nonce_digest[e])
  BY <1>2 DEF LinkRight
<1>5. ASSUME NEW tail, NEW head, NEW cells, NEW A,
             in_tail'[e] = tail, in_head'[e] = head, incoming'[e] = cells, aru_nonce_digest'[e] = A,
             out_tail[o] <= tail, head <= tcp_head[o], Digested(o, tail, A),
             \A n \in tail..(head - 1) : cells[ItSlot(n)] = Nack \/ cells[ItSlot(n)] = PacketNo(o, n)
      PROVE  LinkRight(o, e)'
  <2>1. Digested(o, tail, A)' BY <1>3, <1>5
  <2>2. Digested(o, in_tail[e], aru_nonce_digest[e])' BY <1>5, <2>1 DEF Digested
  <2>3. QED BY <1>3, <1>5, <2>2 DEF LinkRight
<1>6. CASE InRests(e)
  <2>1. PICK tail, head, cells, A :
           tail = in_tail[e] /\ head = in_head[e] /\ cells = incoming[e] /\ A = aru_nonce_digest[e]
    OBVIOUS
  <2>2. in_tail'[e] = tail /\ in_head'[e] = head /\ incoming'[e] = cells /\ aru_nonce_digest'[e] = A
    BY <1>6, <2>1 DEF InRests
  <2>3. QED BY <1>4, <1>5, <2>1, <2>2
<1>7. CASE \E m \in it_net[e] :
              /\ Accepts(e, m) /\ m.seq > 0
              /\ \E tail \in Nat \ {0}, head \in Nat \ {0}, cells \in [ItSlots -> InCells] :
                    Passed(e, m, tail, head, cells)
  <2>1. PICK m \in it_net[e] :
              /\ Accepts(e, m) /\ m.seq > 0
              /\ \E tail \in Nat \ {0}, head \in Nat \ {0}, cells \in [ItSlots -> InCells] :
                    Passed(e, m, tail, head, cells)
    BY <1>7
  <2>2. PICK tail \in Nat \ {0}, head \in Nat \ {0}, cells \in [ItSlots -> InCells] :
              Passed(e, m, tail, head, cells)
    BY <2>1
  <2>3. /\ head <= tcp_head[o]
        /\ \A n \in in_tail[e]..(tail - 1) : Stored(e, m, n) = PacketNo(o, n)
        /\ \A n \in tail..(head - 1) : cells[ItSlot(n)] = Nack \/ cells[ItSlot(n)] = PacketNo(o, n)
    BY <2>1, <2>2, PassedAre
  <2>4. PICK A : A = Xor(aru_nonce_digest[e], {Stored(e, m, n) : n \in in_tail[e]..(tail - 1)})
    OBVIOUS
  <2>5. /\ in_tail'[e] = tail /\ in_head'[e] = head /\ incoming'[e] = cells /\ aru_nonce_digest'[e] = A
        /\ in_tail[e] <= tail /\ tail <= head
    <3>1. /\ in_tail' = [in_tail EXCEPT ![e] = tail] /\ in_head' = [in_head EXCEPT ![e] = head]
          /\ incoming' = [incoming EXCEPT ![e] = cells] /\ aru_nonce_digest' = [aru_nonce_digest EXCEPT ![e] = A]
          /\ in_tail[e] <= tail
      BY <2>2, <2>4 DEF Passed
    <3>2. tail <= head BY <2>2 DEF Passed, InWindow
    <3>3. QED BY <1>2, <3>1, <3>2 DEF ItTypes, InTypes
  <2>6. {Stored(e, m, n) : n \in in_tail[e]..(tail - 1)} = PacketsOf(o, in_tail[e], tail - 1)
    BY <2>3 DEF PacketsOf, PacketsIn, PacketNo
  <2>7. /\ in_tail[e] \in Nat /\ in_tail[e] > 0 /\ out_tail[o] \in Nat /\ tcp_head[o] \in Nat
        /\ OutHead(o) \in Nat
    BY <1>1, <1>2, EndHas
  <2>8. tcp_head[o] <= OutHead(o) /\ Ordered(outgoing[o]) BY <1>1, <1>2, WindowsHave
  <2>9. in_tail[e] \in Nat \ {0} /\ tail <= OutHead(o) /\ out_tail[o] <= tail
    <3> HIDE DEF OutHead
    <3>1. QED BY <1>4, <2>3, <2>5, <2>7, <2>8
  <2>10. OutTypes BY <1>2 DEF ItTypes
  <2>11. Digested(o, tail, Xor(aru_nonce_digest[e], PacketsOf(o, in_tail[e], tail - 1)))
    BY <1>1, <1>4, <2>5, <2>8, <2>9, <2>10, DigestedMoves
  <2>12. Digested(o, tail, A) BY <2>4, <2>6, <2>11
  <2>13. QED BY <1>5, <2>3, <2>5, <2>9, <2>12
<1>8. QED BY <1>6, <1>7 DEF Goes

\* A step within the incarnations keeps the invariant.
LEMMA GoesKeeps ==
    ASSUME ItInv, NEW e \in ItEnds, Step(e), Goes(e)
    PROVE  ItInv'
<1> DEFINE o == Other(e)
<1>1. o \in ItEnds /\ Other(o) = e /\ \A d \in ItEnds : d = e \/ d = o BY TwoEnds
<1>2. ItTypes' /\ (\A d \in ItEnds : WindowsOf(d)') /\ Rests(o) BY StepHas
<1>3. my_incarnation' = my_incarnation /\ ngbr_incarnation' = ngbr_incarnation BY DEF Goes
<1>4. Known(e) /\ Known(o) BY <1>1, InvHas
<1>5. Known(e)' BY <1>3, <1>4 DEF Known, Step
<1>6. Known(o)' BY <1>2, <1>3, <1>4 DEF Known, Rests
<1>7. Clean(e)' /\ Clean(o)' BY GoesClean
<1>8. NetRight(e)' /\ NetRight(o)' BY <1>1, GoesDataRight, GoesAckRight DEF NetRight
<1>9. Paired' => LinkRight(e, o)' /\ LinkRight(o, e)'
  BY GoesPaired, GoesSending, GoesReceiving
<1>10. \A d \in ItEnds : WindowsOf(d)' /\ Known(d)' /\ Clean(d)' /\ NetRight(d)'
  BY <1>1, <1>2, <1>5, <1>6, <1>7, <1>8
<1>11. Paired' => \A d \in ItEnds : LinkRight(d, Other(d))' BY <1>1, <1>9
<1>12. QED BY <1>2, <1>10, <1>11 DEF ItInv

\* A step in which end e learns of a new incarnation keeps the invariant.
LEMMA RenewsKeeps ==
    ASSUME ItInv, NEW e \in ItEnds, Step(e), Renews(e)
    PROVE  ItInv'
<1> DEFINE o == Other(e)
<1>1. o \in ItEnds /\ Other(o) = e /\ e # o /\ \A d \in ItEnds : d = e \/ d = o BY TwoEnds
<1>2. /\ ItTypes /\ ItTypes' /\ (\A d \in ItEnds : WindowsOf(d)') /\ Rests(o) /\ it_conf' = it_conf
      /\ Known(e) /\ Known(o) /\ Clean(o) /\ WindowsOf(o) /\ WindowsOf(e)
  BY <1>1, StepHas, InvHas
<1>3. PICK inc \in Nat :
         /\ ngbr_incarnation' = [ngbr_incarnation EXCEPT ![e] = inc]
         /\ ngbr_incarnation[e] < inc /\ inc <= my_incarnation[o]
  BY DEF Renews
<1>4. my_incarnation' = my_incarnation /\ Starts(e) /\ NetMoves(e)
      /\ \A m \in it_net'[o] : m \in it_net[o] \/ m.type # "data"
  BY DEF Renews
<1>5. /\ ngbr_incarnation'[e] = inc /\ ngbr_incarnation'[o] = ngbr_incarnation[o]
      /\ my_incarnation'[e] = my_incarnation[e] /\ my_incarnation'[o] = my_incarnation[o]
  BY <1>1, <1>2, <1>3, <1>4 DEF ItTypes, IncTypes
<1>6. /\ my_incarnation[e] \in Nat /\ ngbr_incarnation[e] \in Nat /\ my_incarnation[o] \in Nat
      /\ ngbr_incarnation[o] \in Nat /\ in_tail[o] \in Nat /\ in_tail[o] > 0 /\ tcp_head[o] \in Nat
      /\ tcp_head[o] > 0
  BY <1>1, <1>2, EndHas
<1>7. tcp_head'[e] \in Nat /\ tcp_head'[e] > 0
  <2>1. (tcp_head[e] \in Nat /\ tcp_head[e] > 0)' BY <1>2, EndHas, PTL
  <2>2. QED BY <2>1
<1>8. /\ out_tail'[e] = 1 /\ in_tail'[e] = 1 /\ in_head'[e] = 1 /\ aru_nonce_digest'[e] = {}
  BY <1>4 DEF Starts
<1>9. /\ out_tail'[o] = out_tail[o] /\ tcp_head'[o] = tcp_head[o]
      /\ in_tail'[o] = in_tail[o] /\ in_head'[o] = in_head[o] /\ incoming'[o] = incoming[o]
      /\ aru_nonce_digest'[o] = aru_nonce_digest[o]
      /\ \A n : PacketNo(o, n)' = PacketNo(o, n) /\ DigestAt(o, n)' = DigestAt(o, n)
      /\ \A a, A : Digested(o, a, A) => Digested(o, a, A)'
  BY <1>1, <1>2, RestsKeeps
<1>10. Known(e)' /\ Known(o)'
  <2>1. Known(e)' BY <1>1, <1>3, <1>5 DEF Known, Step
  <2>2. Known(o)' BY <1>1, <1>2, <1>5 DEF Known, Rests
  <2>3. QED BY <2>1, <2>2
<1>11. ngbr_incarnation[e] # my_incarnation[o] BY <1>3, <1>6
<1>12. Clean(e)' /\ Clean(o)'
  <2>1. Clean(e)' BY <1>8 DEF Clean
  <2>2. Clean(o)' BY <1>1, <1>2, <1>5, <1>9, <1>11 DEF Clean
  <2>3. QED BY <2>1, <2>2
<1>13. /\ it_net'[e] \subseteq it_net[e]
       /\ \A m \in it_net'[o] : /\ m \in it_net[o] \/ (SentNow(e, m) /\ m.type # "data")
  BY <1>4 DEF NetMoves
<1>14. ASSUME NEW m \in it_net'[o] PROVE AsSent(e, m)' /\ DataRight(e, m)' /\ AckRight(o, m)'
  <2>1. CASE m.type # "data"
    <3>1. m.inc \in 0..my_incarnation[e] BY <1>13, InvHas DEF AsSent, SentNow
    <3>2. QED BY <1>5, <2>1, <3>1 DEF AsSent, DataRight, AckRight
  <2>2. CASE m.type = "data"
    <3>1. m \in it_net[o] BY <1>13, <2>2
    <3>2. AsSent(e, m) /\ AckRight(o, m) BY <1>1, <3>1, InvHas
    <3>3. m.aru_inc \in 0..my_incarnation[o] /\ (m.inc = my_incarnation[e] => m.aru_inc <= ngbr_incarnation[e])
      BY <2>2, <3>2 DEF AsSent
    <3>4. m.inc = my_incarnation[e] => m.aru_inc < inc BY <1>3, <1>6, <3>3
    <3>5. AsSent(e, m)'
      <4>1. m.inc = my_incarnation[e] => m.aru_inc <= inc BY <1>6, <3>3, <3>4
      <4>2. QED BY <1>5, <3>2, <4>1 DEF AsSent
    <3>6. DataRight(e, m)'
      <4>1. ~(m.inc = my_incarnation[e] /\ m.aru_inc = inc) BY <1>6, <3>3, <3>4
      <4>2. QED BY <1>5, <4>1 DEF DataRight
    <3>7. AckRight(o, m)'
      <4>1. ASSUME m.aru_inc = my_incarnation[o], m.inc = ngbr_incarnation[o], Paired' PROVE FALSE
        <5>1. inc = my_incarnation[o] /\ ngbr_incarnation[o] = my_incarnation[e]
          BY <1>1, <1>5, <4>1 DEF Paired
        <5>2. QED BY <1>6, <3>3, <3>4, <4>1, <5>1
      <4>2. QED BY <1>5, <1>9, <3>2, <4>1 DEF AckRight
    <3>8. QED BY <3>5, <3>6, <3>7
  <2>3. QED BY <2>1, <2>2
<1>15. ASSUME NEW m \in it_net'[e] PROVE AsSent(o, m)' /\ DataRight(o, m)' /\ AckRight(e, m)'
  <2>1. m \in it_net[e] BY <1>13
  <2>2. AsSent(o, m) /\ DataRight(o, m) /\ AckRight(e, m) BY <1>1, <2>1, InvHas
  <2>3. AsSent(o, m)' BY <1>1, <1>5, <2>2 DEF AsSent
  <2>4. DataRight(o, m)' BY <1>5, <1>9, <2>2 DEF DataRight
  <2>5. ASSUME m.type = "data", m.aru_inc = my_incarnation[e], m.inc >= inc PROVE m.aru = 0
    <3>1. m.inc > ngbr_incarnation[e]
      <4>1. m.inc \in Nat BY <1>6, <2>2 DEF AsSent
      <4>2. QED BY <1>3, <1>6, <2>5, <4>1
    <3>2. QED BY <2>2, <2>5, <3>1 DEF AckRight
  <2>6. AckRight(e, m)'
    <3>1. ASSUME m.type = "data", m.aru_inc = my_incarnation[e]
          PROVE  /\ m.inc > inc => m.aru = 0
                 /\ m.inc = inc =>
                       /\ m.aru < tcp_head'[e]
                       /\ 1 <= m.aru => m.aru_nonce = DigestAt(e, m.aru)'
                       /\ m.aru < in_tail[o]
      <4>1. m.inc \in Nat BY <1>6, <2>2 DEF AsSent
      <4>2. m.inc >= inc => m.aru = 0 BY <2>5, <3>1
      <4>3. m.inc > inc => m.aru = 0 BY <4>1, <4>2
      <4>4. m.inc = inc => m.aru = 0 BY <4>1, <4>2
      <4>5. QED BY <1>6, <1>7, <4>3, <4>4
    <3>2. QED BY <1>1, <1>5, <1>8, <1>9, <3>1 DEF AckRight
  <2>7. QED BY <2>3, <2>4, <2>6
<1>16. NetRight(e)' /\ NetRight(o)' BY <1>1, <1>14, <1>15 DEF NetRight
<1>17. ASSUME Paired' PROVE LinkRight(e, o)' /\ LinkRight(o, e)'
  <2>1. ngbr_incarnation[o] = my_incarnation[e] BY <1>1, <1>5, <1>17 DEF Paired
  <2>2. in_tail[o] = 1 /\ in_head[o] = 1 /\ aru_nonce_digest[o] = {} /\ out_tail[o] = 1
    BY <1>1, <1>2, <1>11, <2>1 DEF Clean
  <2>3. LinkRight(e, o)'
    <3>1. Digested(e, 1, {})'
      <4>1. out_tail'[e] = 1 => Digested(e, 1, {})' BY <1>2 DEF WindowsOf, OutWindow
      <4>2. QED BY <1>8, <4>1
    <3>2. Digested(e, in_tail[o], aru_nonce_digest[o])' BY <1>9, <2>2, <3>1 DEF Digested
    <3>3. \A n : n \notin 1..(1 - 1) OBVIOUS
    <3>4. 1 <= tcp_head'[e] BY <1>7
    <3>5. QED BY <1>8, <1>9, <2>2, <3>2, <3>3, <3>4 DEF LinkRight
  <2>4. LinkRight(o, e)'
    <3>1. Digested(o, 1, {}) BY <1>1, <1>2, <2>2, WindowsHave
    <3>2. Digested(o, 1, {})' BY <1>9, <3>1
    <3>3. Digested(o, in_tail[e], aru_nonce_digest[e])' BY <1>8, <3>2 DEF Digested
    <3>4. \A n : n \notin 1..(1 - 1) OBVIOUS
    <3>5. 1 <= tcp_head[o] BY <1>6
    <3>6. QED BY <1>8, <1>9, <2>2, <3>3, <3>4, <3>5 DEF LinkRight
  <2>5. QED BY <2>3, <2>4
<1>18. \A d \in ItEnds : WindowsOf(d)' /\ Known(d)' /\ Clean(d)' /\ NetRight(d)'
  BY <1>1, <1>2, <1>10, <1>12, <1>16
<1>19. Paired' => \A d \in ItEnds : LinkRight(d, Other(d))' BY <1>1, <1>17
<1>20. QED BY <1>2, <1>18, <1>19 DEF ItInv

\* So does a restart.
LEMMA RestartsKeeps ==
    ASSUME ItInv, NEW e \in ItEnds, Step(e), Restarts(e)
    PROVE  ItInv'
<1> DEFINE o == Other(e)
<1>1. o \in ItEnds /\ Other(o) = e /\ e # o /\ \A d \in ItEnds : d = e \/ d = o BY TwoEnds
<1>2. /\ ItTypes /\ ItTypes' /\ (\A d \in ItEnds : WindowsOf(d)') /\ Rests(o) /\ it_conf' = it_conf
      /\ Known(e) /\ Known(o)
  BY <1>1, StepHas, InvHas
<1>3. /\ my_incarnation' = [my_incarnation EXCEPT ![e] = @ + 1]
      /\ ngbr_incarnation' = [ngbr_incarnation EXCEPT ![e] = 0]
      /\ Starts(e) /\ it_net' = it_net
  BY DEF Restarts
<1>4. /\ ngbr_incarnation'[e] = 0 /\ ngbr_incarnation'[o] = ngbr_incarnation[o]
      /\ my_incarnation'[e] = my_incarnation[e] + 1 /\ my_incarnation'[o] = my_incarnation[o]
  BY <1>1, <1>2, <1>3 DEF ItTypes, IncTypes
<1>5. /\ my_incarnation[e] \in Nat /\ ngbr_incarnation[e] \in Nat /\ my_incarnation[o] \in Nat
      /\ ngbr_incarnation[o] \in Nat /\ my_incarnation[o] > 0
  BY <1>1, <1>2, EndHas
<1>6. /\ out_tail'[o] = out_tail[o] /\ tcp_head'[o] = tcp_head[o]
      /\ \A n : PacketNo(o, n)' = PacketNo(o, n) /\ DigestAt(o, n)' = DigestAt(o, n)
  BY <1>1, <1>2, RestsKeeps
<1>7. ngbr_incarnation[o] <= my_incarnation[e] BY <1>1, <1>2 DEF Known
<1>8. Known(e)' /\ Known(o)'
  <2>1. Known(e)' BY <1>1, <1>4, <1>5 DEF Known, Step
  <2>2. ngbr_incarnation[o] <= my_incarnation[e] + 1 BY <1>5, <1>7
  <2>3. Known(o)' BY <1>1, <1>2, <1>4, <2>2 DEF Known, Rests
  <2>4. QED BY <2>1, <2>3
<1>9. ngbr_incarnation[o] # my_incarnation[e] + 1 /\ 0 # my_incarnation[o] BY <1>5, <1>7
<1>10. Clean(e)' /\ Clean(o)' BY <1>1, <1>4, <1>9 DEF Clean
<1>11. ~Paired' BY <1>1, <1>4, <1>9 DEF Paired
<1>12. ASSUME NEW m \in it_net[o] PROVE AsSent(e, m)' /\ DataRight(e, m)' /\ AckRight(o, m)'
  <2>1. AsSent(e, m) /\ AckRight(o, m) BY <1>1, InvHas
  <2>2. m.inc \in 0..(my_incarnation[e] + 1) /\ m.inc # my_incarnation[e] + 1
    BY <1>5, <2>1 DEF AsSent
  <2>3. AsSent(e, m)' BY <1>4, <2>1, <2>2 DEF AsSent
  <2>4. DataRight(e, m)' BY <1>4, <2>2 DEF DataRight
  <2>5. AckRight(o, m)' BY <1>4, <1>6, <1>11, <2>1 DEF AckRight
  <2>6. QED BY <2>3, <2>4, <2>5
<1>13. ASSUME NEW m \in it_net[e] PROVE AsSent(o, m)' /\ DataRight(o, m)' /\ AckRight(e, m)'
  <2>1. AsSent(o, m) /\ DataRight(o, m) BY <1>1, InvHas
  <2>2. m.type = "data" => m.aru_inc \in 0..(my_incarnation[e] + 1) /\ m.aru_inc # my_incarnation[e] + 1
    BY <1>1, <1>5, <2>1 DEF AsSent
  <2>3. AsSent(o, m)' BY <1>1, <1>4, <2>1, <2>2 DEF AsSent
  <2>4. DataRight(o, m)' BY <1>4, <1>6, <2>1 DEF DataRight
  <2>5. AckRight(e, m)' BY <1>4, <2>2 DEF AckRight
  <2>6. QED BY <2>3, <2>4, <2>5
<1>14. NetRight(e)' /\ NetRight(o)' BY <1>1, <1>3, <1>12, <1>13 DEF NetRight
<1>15. \A d \in ItEnds : WindowsOf(d)' /\ Known(d)' /\ Clean(d)' /\ NetRight(d)'
  BY <1>1, <1>2, <1>8, <1>10, <1>14
<1>16. QED BY <1>2, <1>11, <1>15 DEF ItInv

\* Every step keeps the invariant.
LEMMA StepKeeps ==
    ASSUME ItInv, NEW e \in ItEnds, Step(e)
    PROVE  ItInv'
BY GoesKeeps, RenewsKeeps, RestartsKeeps DEF Step

-----------------------------------------------------------------------------
(* The actions are steps *)

\* What a burst of datagrams does to the network.
LEMMA TransmitMoves ==
    ASSUME DOMAIN it_net = ItEnds, NEW e \in ItEnds, NEW left, NEW burst, Transmit(e, left, burst)
    PROVE  /\ DOMAIN it_net' = ItEnds /\ it_net'[e] = left
           /\ \A m \in it_net'[Other(e)] : m \in it_net[Other(e)] \/ m \in burst
<1> DEFINE o == Other(e)
<1>1. o \in ItEnds /\ o # e BY TwoEnds
<1>2. PICK kept \in SUBSET burst, lost \in SUBSET it_net[o] :
         it_net' = [it_net EXCEPT ![e] = left, ![o] = (it_net[o] \ lost) \cup kept]
  BY DEF Transmit
<1> HIDE DEF o
<1>3. DOMAIN it_net' = ItEnds /\ it_net'[e] = left /\ it_net'[o] = (it_net[o] \ lost) \cup kept
  BY <1>1, <1>2
<1>4. QED BY <1>3 DEF o

\* The same, if nothing is sent while there is no key.
LEMMA SendMoves ==
    ASSUME DOMAIN it_net = ItEnds, NEW e \in ItEnds, NEW left, NEW burst, ItSend(e, left, burst)
    PROVE  /\ DOMAIN it_net' = ItEnds /\ it_net'[e] = left
           /\ \A m \in it_net'[Other(e)] : m \in it_net[Other(e)] \/ m \in burst
<1>1. PICK b : b = (IF Ready(e) THEN burst ELSE {}) /\ Transmit(e, left, b) BY DEF ItSend
<1>2. b \subseteq burst BY <1>1
<1>3. /\ DOMAIN it_net' = ItEnds /\ it_net'[e] = left
      /\ \A m \in it_net'[Other(e)] : m \in it_net[Other(e)] \/ m \in b
  BY <1>1, TransmitMoves
<1>4. QED BY <1>2, <1>3

\* Datagram m is packet n, with a tail.
IsData(e, m, n, packet) == \E nacks : m = WithTail(e, n, packet, nacks)

\* The same for data packets.
LEMMA SendDataMoves ==
    ASSUME DOMAIN it_net = ItEnds, NEW e \in ItEnds, NEW left, NEW tail, NEW window, NEW numbers,
           NEW counted, SendITData(e, left, tail, window, numbers, counted)
    PROVE  /\ DOMAIN it_net' = ItEnds /\ it_net'[e] = left
           /\ \A m \in it_net'[Other(e)] :
                 \/ m \in it_net[Other(e)]
                 \/ \E n \in numbers : IsData(e, m, n, window[n - tail + 1])
<1>1. PICK nacks \in SUBSET Wanted(e) :
         \E first \in numbers \cup {0} :
            /\ first = 0 <=> nacks = {}
            /\ ItSend(e, left, {WithTail(e, n, window[n - tail + 1],
                                         IF n = first THEN nacks ELSE {}) : n \in numbers})
  BY Zenon DEF SendITData
<1>2. PICK first \in numbers \cup {0} :
         ItSend(e, left, {WithTail(e, n, window[n - tail + 1],
                                   IF n = first THEN nacks ELSE {}) : n \in numbers})
  BY <1>1
<1> DEFINE burst == {WithTail(e, n, window[n - tail + 1],
                              IF n = first THEN nacks ELSE {}) : n \in numbers}
<1>3. \A m \in burst : \E n \in numbers : IsData(e, m, n, window[n - tail + 1]) BY DEF IsData
<1>4. ItSend(e, left, burst) BY <1>2
<1> HIDE DEF burst
<1>5. QED BY <1>3, <1>4, SendMoves

\* A data packet from the window, or an acknowledgement, is one an end may send.
LEMMA DataSentNow ==
    ASSUME IncTypes, NEW e \in ItEnds, NEW m, NEW n, NEW packet, IsData(e, m, n, packet),
           \/ n = 0
           \/ n \in out_tail'[e]..(tcp_head'[e] - 1) /\ packet = PacketNo(e, n)'
    PROVE  SentNow(e, m)
<1>1. PICK nacks : m = WithTail(e, n, packet, nacks) BY DEF IsData
<1>2. /\ m.inc = my_incarnation[e] /\ m.aru_inc = ngbr_incarnation[e]
      /\ m.aru = in_tail[e] - 1 /\ m.aru_nonce = aru_nonce_digest[e]
      /\ m.seq = n /\ m.packet = packet
  BY <1>1 DEF WithTail
<1>3. my_incarnation[e] \in Nat BY DEF IncTypes
<1>4. m.inc \in 0..my_incarnation[e] BY <1>2, <1>3
<1>5. QED BY <1>2, <1>4 DEF SentNow

\* What is not touched has not shrunk.
LEMMA OutStays ==
    ASSUME OutTypes, NEW e \in ItEnds, OutWindow(e), OutRests(e), it_conf' = it_conf
    PROVE  OutWindow(e)' /\ OutGrows(e)
<1>1. /\ out_tail'[e] = out_tail[e] /\ tcp_head'[e] = tcp_head[e]
      /\ outgoing'[e] = outgoing[e] /\ out_nonce_digest'[e] = out_nonce_digest[e]
      /\ out_message'[e] = out_message[e] /\ next_message'[e] = next_message[e]
  BY DEF OutRests
<1>2. OutHead(e)' = OutHead(e) /\ Fragments' = Fragments BY <1>1 DEF OutHead, Fragments
<1>3. \A n : PacketNo(e, n)' = PacketNo(e, n) /\ DigestAt(e, n)' = DigestAt(e, n)
  BY <1>1 DEF PacketNo, DigestAt
<1>4. \A n : Kept(e, n)' <=> Kept(e, n) BY <1>1, <1>2 DEF Kept
<1>5. \A i, j : PacketsOf(e, i, j)' = PacketsOf(e, i, j) BY <1>1 DEF PacketsOf
<1>6. Digested(e, 1, {}) => Digested(e, 1, {})' BY <1>2, <1>3, <1>4, <1>5 DEF Digested
<1>7. MessageWaits(e)' BY <1>1, <1>2 DEF MessageWaits, OutWindow
<1>8. OutWindow(e)' BY <1>1, <1>2, <1>6, <1>7 DEF OutWindow
<1>9. out_tail[e] \in Nat /\ tcp_head[e] \in Nat /\ OutHead(e) \in Nat BY OutHas
<1>10. \A n : n \notin OutHead(e)..(OutHead(e)' - 1) BY <1>2, <1>9
<1>11. out_tail[e] <= tcp_head[e] BY DEF OutWindow
<1>12. OutGrows(e)
  <2> HIDE DEF OutHead
  <2>1. /\ out_tail[e] <= out_tail'[e] /\ out_tail'[e] <= tcp_head[e]
        /\ tcp_head[e] <= tcp_head'[e] /\ OutHead(e) <= OutHead(e)'
    BY <1>1, <1>2, <1>9, <1>11
  <2>2. QED BY <1>3, <1>10, <2>1 DEF OutGrows
<1>13. QED BY <1>8, <1>12

\* An action that touches no window is a step, if it sends what it may.
QuietExcept(e) ==
    /\ UNCHANGED <<it_conf, outVars, inVars, incVars, upVars>>
    /\ nacked' \in [ItEnds -> SUBSET Nat]
    /\ nacked'[e] \subseteq nacked[e] /\ nacked'[Other(e)] = nacked[Other(e)]
    /\ DOMAIN dh_pkt' = ItEnds /\ dh_pkt'[Other(e)] = dh_pkt[Other(e)]
    /\ dh_pkt'[e] = NoPkt \/ dh_pkt'[e] = dh_pkt[e]

\* So it is.
LEMMA QuietStep ==
    ASSUME ItInv, NEW e \in ItEnds, QuietExcept(e), DOMAIN it_net' = ItEnds, NetMoves(e)
    PROVE  Step(e)
<1> DEFINE o == Other(e)
<1>1. o \in ItEnds /\ o # e BY TwoEnds
<1>2. ItTypes /\ WindowsOf(e) /\ Known(e) BY InvHas
<1>3. /\ it_conf' = it_conf /\ out_tail' = out_tail /\ tcp_head' = tcp_head /\ outgoing' = outgoing
      /\ out_nonce_digest' = out_nonce_digest /\ out_message' = out_message /\ cwnd' = cwnd
      /\ in_tail' = in_tail /\ in_head' = in_head /\ incoming' = incoming
      /\ aru_nonce_digest' = aru_nonce_digest /\ next_message' = next_message
      /\ my_incarnation' = my_incarnation /\ ngbr_incarnation' = ngbr_incarnation
      /\ nacked' \in [ItEnds -> SUBSET Nat]
      /\ nacked'[e] \subseteq nacked[e] /\ nacked'[o] = nacked[o]
      /\ DOMAIN dh_pkt' = ItEnds /\ dh_pkt'[o] = dh_pkt[o]
      /\ dh_pkt'[e] = NoPkt \/ dh_pkt'[e] = dh_pkt[e]
  BY DEF QuietExcept, outVars, inVars, incVars, upVars
<1>4. OutTypes' BY <1>2, <1>3 DEF ItTypes, OutTypes
<1>5. InTypes' BY <1>2, <1>3 DEF ItTypes, InTypes
<1>6. IncTypes' BY <1>2, <1>3 DEF ItTypes, IncTypes
<1>7. OutRests(e) /\ OutRests(o) /\ InRests(e) /\ InRests(o) BY <1>3 DEF OutRests, InRests
<1>8. Rests(o) BY <1>3, <1>7 DEF Rests
<1>9. OutWindow(e)' /\ OutGrows(e) BY <1>2, <1>3, <1>7, OutStays DEF ItTypes, WindowsOf
<1>10. WindowsOf(e)' BY <1>2, <1>3, <1>9 DEF WindowsOf
<1>11. Goes(e) BY <1>3, <1>7, <1>9 DEF Goes
<1>12. dh_pkt'[e] # NoPkt => dh_pkt'[e].type = "dh" /\ dh_pkt'[e].inc \in 0..my_incarnation'[e]
  BY <1>2, <1>3 DEF Known
<1>13. QED BY <1>3, <1>4, <1>5, <1>6, <1>8, <1>10, <1>11, <1>12 DEF Step, ItTypes

\* Sending what may be sent moves the network.
LEMMA TransmitStep ==
    ASSUME ItTypes, NEW e \in ItEnds, NEW left, left \subseteq it_net[e], NEW burst,
           Transmit(e, left, burst), \A m \in burst : SentNow(e, m)
    PROVE  DOMAIN it_net' = ItEnds /\ NetMoves(e)
<1>1. DOMAIN it_net = ItEnds BY DEF ItTypes, IncTypes
<1>2. QED BY <1>1, TransmitMoves DEF NetMoves

\* The same, if nothing is sent while there is no key.
LEMMA SendStep ==
    ASSUME ItTypes, NEW e \in ItEnds, NEW left, left \subseteq it_net[e], NEW burst,
           ItSend(e, left, burst), \A m \in burst : SentNow(e, m)
    PROVE  DOMAIN it_net' = ItEnds /\ NetMoves(e)
<1>1. DOMAIN it_net = ItEnds BY DEF ItTypes, IncTypes
<1>2. QED BY <1>1, SendMoves DEF NetMoves

\* These packets are packets of the window that are sent.
AreSent(e, tail, window, numbers) ==
    \A n \in numbers :
        n \in out_tail'[e]..(tcp_head'[e] - 1) /\ window[n - tail + 1] = PacketNo(e, n)'

\* Sending them moves the network, too.
LEMMA SendDataStep ==
    ASSUME ItTypes, NEW e \in ItEnds, NEW left, left \subseteq it_net[e],
           NEW tail, NEW window, NEW numbers, NEW counted,
           SendITData(e, left, tail, window, numbers, counted), AreSent(e, tail, window, numbers)
    PROVE  DOMAIN it_net' = ItEnds /\ NetMoves(e)
<1>1. DOMAIN it_net = ItEnds /\ IncTypes BY DEF ItTypes, IncTypes
<1>2. /\ DOMAIN it_net' = ItEnds /\ it_net'[e] = left
      /\ \A m \in it_net'[Other(e)] :
            \/ m \in it_net[Other(e)]
            \/ \E n \in numbers : IsData(e, m, n, window[n - tail + 1])
  BY <1>1, SendDataMoves
<1>3. ASSUME NEW m, NEW n \in numbers, IsData(e, m, n, window[n - tail + 1]) PROVE SentNow(e, m)
  <2>1. n \in out_tail'[e]..(tcp_head'[e] - 1) /\ window[n - tail + 1] = PacketNo(e, n)'
    BY DEF AreSent
  <2>2. PICK packet : packet = window[n - tail + 1] OBVIOUS
  <2>3. IsData(e, m, n, packet) BY <1>3, <2>2
  <2>4. packet = PacketNo(e, n)' BY <2>1, <2>2
  <2>5. QED BY <1>1, <2>1, <2>3, <2>4, DataSentNow
<1>4. QED BY <1>2, <1>3 DEF NetMoves

\* What is left when a datagram is read.
LEMMA LeftIs ==
    ASSUME NEW e \in ItEnds, NEW m, NEW left \in Left(e, m)
    PROVE  left \subseteq it_net[e]
BY DEF Left

\* The acknowledgement timer makes a step.
LEMMA AckITTimeoutStep ==
    ASSUME ItInv, NEW e \in ItEnds, AckITTimeout(e)
    PROVE  Step(e)
<1>1. ItTypes BY InvHas
<1>2. /\ UNCHANGED <<it_conf, outVars, inVars, incVars, dhVars, retransmVars, upVars>>
      /\ \/ it_net' = it_net
         \/ \E nacks \in SUBSET Wanted(e) :
               ItSend(e, it_net[e], {WithTail(e, 0, Empty, nacks)})
  BY DEF AckITTimeout
<1>3. QuietExcept(e)
  BY <1>1, <1>2 DEF QuietExcept, dhVars, retransmVars, ItTypes, OutTypes, IncTypes
<1>4. CASE it_net' = it_net
  <2>1. DOMAIN it_net' = ItEnds /\ NetMoves(e) BY <1>1, <1>4 DEF NetMoves, ItTypes, IncTypes
  <2>2. QED BY <1>3, <2>1, QuietStep
<1>5. CASE \E nacks \in SUBSET Wanted(e) : ItSend(e, it_net[e], {WithTail(e, 0, Empty, nacks)})
  <2>1. PICK nacks \in SUBSET Wanted(e) : ItSend(e, it_net[e], {WithTail(e, 0, Empty, nacks)})
    BY <1>5
  <2>2. IsData(e, WithTail(e, 0, Empty, nacks), 0, Empty) BY DEF IsData
  <2>3. IncTypes BY <1>1 DEF ItTypes
  <2>4. \A m \in {WithTail(e, 0, Empty, nacks)} : SentNow(e, m) BY <2>2, <2>3, DataSentNow
  <2>5. DOMAIN it_net' = ItEnds /\ NetMoves(e) BY <1>1, <2>1, <2>4, SendStep
  <2>6. QED BY <1>3, <2>5, QuietStep
<1>6. QED BY <1>2, <1>4, <1>5

\* Packets of the window that are sent again.
LEMMA SentAgain ==
    ASSUME ItTypes, NEW e \in ItEnds, outVars' = outVars, NEW numbers,
           numbers \subseteq out_tail[e]..(tcp_head[e] - 1)
    PROVE  AreSent(e, out_tail[e], outgoing[e], numbers)
BY DEF AreSent, PacketNo, outVars

\* The timer of the last packet makes a step.
LEMMA ReliableITTimeoutStep ==
    ASSUME ItInv, NEW e \in ItEnds, ReliableITTimeout(e)
    PROVE  Step(e)
<1>1. ItTypes BY InvHas
<1> DEFINE last == IF tcp_head[e] > out_tail[e] THEN {tcp_head[e] - 1} ELSE {}
<1>2. /\ UNCHANGED <<it_conf, outVars, inVars, incVars, dhVars, retransmVars, upVars>>
      /\ SendITData(e, it_net[e], out_tail[e], outgoing[e], last, 0)
  BY DEF ReliableITTimeout
<1>3. QuietExcept(e)
  BY <1>1, <1>2 DEF QuietExcept, dhVars, retransmVars, ItTypes, OutTypes, IncTypes
<1>4. last \subseteq out_tail[e]..(tcp_head[e] - 1) BY <1>1, EndHas
<1> HIDE DEF last
<1>5. AreSent(e, out_tail[e], outgoing[e], last) BY <1>1, <1>2, <1>4, SentAgain
<1>6. DOMAIN it_net' = ItEnds /\ NetMoves(e) BY <1>1, <1>2, <1>5, SendDataStep
<1>7. QED BY <1>3, <1>6, QuietStep

\* What is sent again because it was asked for makes a step.
LEMMA HandleITRetransmStep ==
    ASSUME ItInv, NEW e \in ItEnds, HandleITRetransm(e)
    PROVE  Step(e)
<1>1. ItTypes /\ WindowsOf(e) BY InvHas
<1>2. PICK resent \in SUBSET nacked[e] :
         /\ Resend(e, out_tail[e], tcp_head[e], nacked[e], resent)
         /\ SendITData(e, it_net[e], out_tail[e], outgoing[e], resent, 0)
  BY DEF HandleITRetransm
<1>3. UNCHANGED <<it_conf, outVars, inVars, incVars, dhVars, upVars>> BY DEF HandleITRetransm
<1>4. nacked' = [nacked EXCEPT ![e] = nacked[e] \ resent] BY <1>2 DEF Resend
<1>5. nacked \in [ItEnds -> SUBSET Nat] /\ DOMAIN dh_pkt = ItEnds
  BY <1>1 DEF ItTypes, OutTypes, IncTypes
<1>6. /\ nacked' \in [ItEnds -> SUBSET Nat]
      /\ nacked'[e] \subseteq nacked[e] /\ nacked'[Other(e)] = nacked[Other(e)]
  BY <1>4, <1>5, TwoEnds
<1>7. QuietExcept(e) BY <1>3, <1>5, <1>6 DEF QuietExcept, dhVars
<1>8. resent \subseteq out_tail[e]..(tcp_head[e] - 1) BY <1>1, <1>2 DEF WindowsOf
<1>9. AreSent(e, out_tail[e], outgoing[e], resent) BY <1>1, <1>3, <1>8, SentAgain
<1>10. DOMAIN it_net' = ItEnds /\ NetMoves(e) BY <1>1, <1>2, <1>9, SendDataStep
<1>11. QED BY <1>7, <1>10, QuietStep

\* A ping is of the present incarnation and no data.
LEMMA PingSentNow ==
    ASSUME IncTypes, NEW e \in ItEnds, NEW type \in {"ping", "pong"}, NEW m, m = Ping(e, type)
    PROVE  SentNow(e, m) /\ m.type # "data"
<1>1. m.inc = my_incarnation[e] /\ m.type = type BY DEF Ping
<1>2. my_incarnation[e] \in 0..my_incarnation[e] BY DEF IncTypes
<1>3. QED BY <1>1, <1>2 DEF SentNow

\* So pings make steps.
LEMMA PingITTimeoutStep ==
    ASSUME ItInv, NEW e \in ItEnds, PingITTimeout(e)
    PROVE  Step(e)
<1>1. ItTypes BY InvHas
<1>2. /\ UNCHANGED <<it_conf, outVars, inVars, incVars, dhVars, ackVars, retransmVars,
                     reliable_timer, upVars>>
      /\ ItSend(e, it_net[e], {Ping(e, "ping")})
  BY DEF PingITTimeout
<1>3. QuietExcept(e)
  BY <1>1, <1>2 DEF QuietExcept, dhVars, retransmVars, ItTypes, OutTypes, IncTypes
<1>4. \A m \in {Ping(e, "ping")} : SentNow(e, m) BY <1>1, PingSentNow DEF ItTypes
<1>5. DOMAIN it_net' = ItEnds /\ NetMoves(e) BY <1>1, <1>2, <1>4, SendStep
<1>6. QED BY <1>3, <1>5, QuietStep

\* And so do key exchanges.
LEMMA SendITDHStep ==
    ASSUME ItInv, NEW e \in ItEnds, SendITDH(e)
    PROVE  Step(e)
<1>1. ItTypes /\ Known(e) BY InvHas
<1> DEFINE burst == IF dh_pkt[e] = NoPkt THEN {} ELSE {dh_pkt[e]}
<1>2. /\ UNCHANGED <<it_conf, outVars, inVars, incVars, dh_key, dh_pkt, ackVars, retransmVars,
                     reliable_timer, upVars>>
      /\ Transmit(e, it_net[e], burst)
  BY DEF SendITDH
<1>3. QuietExcept(e)
  BY <1>1, <1>2 DEF QuietExcept, retransmVars, ItTypes, OutTypes, IncTypes
<1>4. \A m \in burst : SentNow(e, m) BY <1>1 DEF Known, SentNow
<1> HIDE DEF burst
<1>5. DOMAIN it_net' = ItEnds /\ NetMoves(e) BY <1>1, <1>2, <1>4, TransmitStep
<1>6. QED BY <1>3, <1>5, QuietStep

\* A dropped datagram is gone.
LEMMA DropITStep ==
    ASSUME ItInv, NEW e \in ItEnds, NEW m \in it_net[e], DropIT(e, m)
    PROVE  Step(e)
<1>1. ItTypes BY InvHas
<1>2. PICK left \in Left(e, m) : Transmit(e, left, {}) BY DEF DropIT
<1>3. UNCHANGED <<it_conf, outVars, inVars, incVars, dhVars, ackVars, retransmVars,
                  reliable_timer, upVars>>
  BY DEF DropIT
<1>4. QuietExcept(e)
  BY <1>1, <1>3 DEF QuietExcept, dhVars, retransmVars, ItTypes, OutTypes, IncTypes
<1>5. DOMAIN it_net' = ItEnds /\ NetMoves(e) BY <1>1, <1>2, LeftIs, TransmitStep
<1>6. QED BY <1>4, <1>5, QuietStep

\* What the congestion window allows to send are numbers up to the new head.
LEMMA AllowedHas ==
    ASSUME NEW e \in ItEnds, NEW tail \in Nat, NEW length \in Nat, NEW window \in Nat,
           tcp_head[e] \in Nat, tcp_head[e] <= tail + length, NEW new,
           new = Allowed(e, tail, length, window), NEW head, head = tcp_head[e] + Cardinality(new)
    PROVE  /\ head \in Nat /\ tcp_head[e] <= head /\ head <= tail + length
           /\ new \subseteq tcp_head[e]..(head - 1)
<1> DEFINE top == (IF length < window THEN tail + length ELSE tail + window) - 1
<1>1. new = tcp_head[e]..top BY DEF Allowed
<1>2. top \in Int /\ top + 1 <= tail + length OBVIOUS
<1> HIDE DEF top
<1>3. Cardinality(new) = IF tcp_head[e] > top THEN 0 ELSE top - tcp_head[e] + 1
  <2>1. tcp_head[e] \in Int /\ top \in Int BY <1>2
  <2>2. \A a, b \in Int : Cardinality(a..b) = IF a > b THEN 0 ELSE b - a + 1 BY FS_Interval
  <2>3. Cardinality(tcp_head[e]..top) = IF tcp_head[e] > top THEN 0 ELSE top - tcp_head[e] + 1
    BY <2>1, <2>2
  <2>4. QED BY <1>1, <2>3
<1>4. CASE tcp_head[e] > top
  <2>1. new = {} BY <1>1, <1>2, <1>4
  <2>2. QED BY <1>3, <1>4, <2>1
<1>5. CASE tcp_head[e] <= top
  <2>1. head = top + 1 BY <1>2, <1>3, <1>5
  <2>2. QED BY <1>1, <1>2, <1>5, <2>1
<1>6. QED BY <1>2, <1>4, <1>5

\* The whole window.
LEMMA WholeWindow ==
    ASSUME OutTypes, NEW e \in ItEnds
    PROVE  WindowFrom(e, out_tail[e]) = outgoing[e]
<1>1. outgoing[e] \in Seq(Pkt) /\ out_tail[e] \in Nat BY OutHas
<1>2. out_tail[e] - out_tail[e] + 1 = 1 BY <1>1
<1>3. SubSeq(outgoing[e], 1, Len(outgoing[e])) = outgoing[e] BY <1>1
<1>4. QED BY <1>2, <1>3 DEF WindowFrom

\* A new message is packed behind the window, and what may be sent is sent.
LEMMA ForwardITStep ==
    ASSUME ItInv, NEW e \in ItEnds, ForwardIT(e)
    PROVE  Step(e)
<1> DEFINE o == Other(e)
<1>1. o \in ItEnds /\ o # e BY TwoEnds
<1>2. ItTypes /\ OutTypes /\ InTypes /\ IncTypes /\ WindowsOf(e) /\ OutWindow(e) /\ Known(e)
  BY InvHas DEF ItTypes, WindowsOf
<1>3. PICK m : m = next_message[e] + 1 OBVIOUS
<1>4. PICK new, head : /\ new = Allowed(e, out_tail[e], Len(outgoing'[e]), cwnd[e])
                       /\ head = tcp_head[e] + Cardinality(new)
  OBVIOUS
<1>5. /\ next_message[e] < Len(Fragments[e]) /\ Len(outgoing[e]) < MAX_SEND_ON_LINK
      /\ next_message' = [next_message EXCEPT ![e] = m]
      /\ Pack(e, out_tail[e], outgoing[e], out_nonce_digest[e], <<m, 1>>, ngbr_incarnation[e])
      /\ tcp_head' = [tcp_head EXCEPT ![e] = head]
      /\ SendITData(e, it_net[e], out_tail[e], outgoing'[e], new, 0)
      /\ UNCHANGED <<it_conf, out_tail, cwnd, inVars, incVars, dhVars, retransmVars>>
  BY <1>2, <1>3, <1>4 DEF ForwardIT, OutTypes
<1>6. /\ out_tail[e] \in Nat \ {0} /\ tcp_head[e] \in Nat \ {0}
      /\ outgoing[e] \in Seq(Pkt) /\ Len(outgoing[e]) \in Nat
      /\ \A i \in 1..Len(outgoing[e]) : outgoing[e][i] \in Pkt
      /\ OutHead(e) = out_tail[e] + Len(outgoing[e]) /\ OutHead(e) \in Nat \ {0}
      /\ cwnd[e] \in Nat /\ next_message[e] \in Nat
  BY <1>2, OutHas
<1>7. /\ out_tail[e] <= tcp_head[e] /\ tcp_head[e] <= OutHead(e)
      /\ UpTo(outgoing[e], next_message[e])
  BY <1>2 DEF OutWindow, MessageWaits
<1>8. Len(Fragments[e]) \in Nat /\ m \in 1..Len(Fragments[e]) /\ 1 \in 1..Fragments[e][m]
  <2>1. it_conf \in Configurations BY <1>2 DEF OutTypes
  <2>2. Len(Fragments[e]) \in Nat /\ m \in 1..Len(Fragments[e])
    BY <1>3, <1>5, <1>6, <2>1, FragmentsHave
  <2>3. QED BY <2>1, <2>2, FragmentsHave
<1>9. m \in Nat /\ next_message[e] < m BY <1>3, <1>6
<1>10. Behind(outgoing[e], <<m, 1>>)
  <2>1. ASSUME NEW i \in 1..Len(outgoing[e]) PROVE Before(outgoing[e][i], <<m, 1>>)
    <3>1. outgoing[e][i][1] <= next_message[e] BY <1>7 DEF UpTo
    <3>2. outgoing[e][i][1] \in Nat BY <1>6, PacketHas
    <3>3. outgoing[e][i][1] < m BY <1>6, <1>9, <3>1, <3>2
    <3>4. QED BY <3>3 DEF Before
  <2>2. QED BY <2>1 DEF Behind
<1>11. PICK message : message = <<m, 1>> OBVIOUS
<1>12. /\ message \in {NoMessage} \cup Nat \X Nat
       /\ message[1] = m /\ message[2] = 1
  BY <1>9, <1>11
<1>13. WindowFrom(e, out_tail[e]) = outgoing[e] BY <1>2, WholeWindow
<1>14. /\ outgoing'[e] \in Seq(Pkt) /\ Len(outgoing'[e]) \in Nat
       /\ OutHead(e)' = out_tail[e] + Len(outgoing'[e]) /\ tcp_head[e] <= OutHead(e)'
  <2>1. out_tail[e] \in Nat \ {0} /\ it_conf \in Configurations
        /\ Len(outgoing[e]) <= MAX_SEND_ON_LINK /\ ngbr_incarnation[e] \in Nat
    BY <1>2, <1>6 DEF OutTypes, OutWindow, IncTypes
  <2>2. PICK add \in Seq(Pkt), rest \in {NoMessage} \cup Nat \X Nat :
            Adds(e, out_tail[e], outgoing[e], out_nonce_digest[e], message, add, rest)
    <3>1. message # NoMessage =>
             /\ message[1] \in 1..Len(Fragments[e])
             /\ message[2] \in 1..Fragments[e][message[1]]
      BY <1>8, <1>12
    <3>2. Pack(e, out_tail[e], outgoing[e], out_nonce_digest[e], message, ngbr_incarnation[e])
      BY <1>5, <1>11
    <3>3. QED BY <1>6, <1>12, <2>1, <3>1, <3>2, PackHas
  <2>3. outgoing'[e] = outgoing[e] \o add BY <1>2, <2>2 DEF Adds, OutTypes
  <2>4. /\ outgoing[e] \o add \in Seq(Pkt)
        /\ Len(outgoing[e] \o add) = Len(outgoing[e]) + Len(add) /\ Len(add) \in Nat
    BY <1>6, ConcatItems
  <2>5. outgoing'[e] \in Seq(Pkt) /\ Len(outgoing'[e]) = Len(outgoing[e]) + Len(add)
    BY <2>3, <2>4
  <2>6. OutHead(e)' = out_tail[e] + Len(outgoing'[e]) BY <1>5 DEF OutHead
  <2>7. QED BY <1>6, <1>7, <2>4, <2>5, <2>6
<1>15. /\ head \in Nat /\ tcp_head[e] <= head /\ head <= OutHead(e)'
       /\ new \subseteq tcp_head[e]..(head - 1)
  <2>1. PICK length : length = Len(outgoing'[e]) OBVIOUS
  <2>2. length \in Nat /\ OutHead(e)' = out_tail[e] + length /\ tcp_head[e] <= out_tail[e] + length
    BY <1>14, <2>1
  <2>3. new = Allowed(e, out_tail[e], length, cwnd[e]) BY <1>4, <2>1
  <2>4. head = tcp_head[e] + Cardinality(new) BY <1>4
  <2>5. out_tail[e] \in Nat /\ tcp_head[e] \in Nat /\ cwnd[e] \in Nat BY <1>6
  <2>6. /\ head \in Nat /\ tcp_head[e] <= head /\ head <= out_tail[e] + length
        /\ new \subseteq tcp_head[e]..(head - 1)
    BY <2>2, <2>3, <2>4, <2>5, AllowedHas
  <2>7. QED BY <2>2, <2>6
<1>16. nacked' = nacked /\ cwnd' = cwnd /\ it_conf' = it_conf /\ out_tail' = out_tail
  BY <1>5 DEF retransmVars
<1>17. PacksBehind(e, out_tail[e], head, m, message, ngbr_incarnation[e])
  <2>1. out_tail' = [out_tail EXCEPT ![e] = out_tail[e]] BY <1>2, <1>16 DEF OutTypes
  <2>2. /\ next_message[e] <= m /\ m <= Len(Fragments[e]) /\ out_tail[e] <= out_tail[e]
        /\ message[1] \in 1..m /\ message[2] \in 1..Fragments[e][message[1]]
    BY <1>6, <1>8, <1>9, <1>12
  <2>3. Pack(e, out_tail[e], WindowFrom(e, out_tail[e]), out_nonce_digest[e], message,
             ngbr_incarnation[e])
    BY <1>5, <1>11, <1>13
  <2>4. nacked' \in [ItEnds -> SUBSET Nat] /\ cwnd' \in [ItEnds -> Nat]
    BY <1>2, <1>16 DEF OutTypes
  <2>5. Behind(outgoing[e], message) BY <1>10, <1>11
  <2>6. QED BY <1>5, <1>7, <1>15, <1>16, <2>1, <2>2, <2>3, <2>4, <2>5 DEF PacksBehind
<1>18. /\ OutTypes' /\ OutWindow(e)' /\ OutGrows(e) /\ OutRests(o)
  <2>1. ngbr_incarnation[e] \in Nat BY <1>2 DEF IncTypes
  <2>2. out_tail[e] \in Nat BY <1>6
  <2>3. QED BY <1>2, <1>9, <1>12, <1>15, <1>17, <2>1, <2>2, PackGrows
<1>19. /\ in_tail' = in_tail /\ in_head' = in_head /\ incoming' = incoming
       /\ aru_nonce_digest' = aru_nonce_digest /\ dh_pkt' = dh_pkt
       /\ my_incarnation' = my_incarnation /\ ngbr_incarnation' = ngbr_incarnation
  BY <1>5 DEF inVars, dhVars, incVars
<1>20. tcp_head'[e] = head /\ out_tail'[e] = out_tail[e]
  BY <1>2, <1>5, <1>16 DEF OutTypes
<1>21. AreSent(e, out_tail[e], outgoing'[e], new)
  <2>1. ASSUME NEW n \in new
        PROVE  /\ n \in out_tail'[e]..(tcp_head'[e] - 1)
               /\ outgoing'[e][n - out_tail[e] + 1] = PacketNo(e, n)'
    <3>1. n \in tcp_head[e]..(head - 1) BY <1>15
    <3>2. n \in out_tail[e]..(head - 1) BY <1>6, <1>7, <1>15, <3>1
    <3>3. QED BY <1>20, <3>2 DEF PacketNo
  <2>2. QED BY <2>1 DEF AreSent
<1>22. DOMAIN it_net' = ItEnds /\ NetMoves(e)
  <2>1. PICK window : window = outgoing'[e] OBVIOUS
  <2>2. SendITData(e, it_net[e], out_tail[e], window, new, 0) BY <1>5, <2>1
  <2>3. AreSent(e, out_tail[e], window, new) BY <1>21, <2>1
  <2>4. QED BY <1>2, <2>2, <2>3, SendDataStep
<1>23. InTypes' /\ IncTypes' BY <1>2, <1>19, <1>22 DEF InTypes, IncTypes
<1>24. InRests(e) /\ InRests(o) BY <1>19 DEF InRests
<1>25. Rests(o) BY <1>16, <1>18, <1>19, <1>24 DEF Rests
<1>26. WindowsOf(e)'
  <2>1. nacked[e] \subseteq out_tail[e]..(tcp_head[e] - 1) BY <1>2 DEF WindowsOf
  <2>2. out_tail[e]..(tcp_head[e] - 1) \subseteq out_tail[e]..(head - 1) BY <1>6, <1>15
  <2>3. nacked'[e] \subseteq out_tail'[e]..(tcp_head'[e] - 1)
    BY <1>16, <1>20, <2>1, <2>2
  <2>4. QED BY <1>2, <1>18, <1>19, <2>3 DEF WindowsOf
<1>27. Goes(e) BY <1>18, <1>19, <1>20, <1>22, <1>24 DEF Goes
<1>28. dh_pkt'[e] # NoPkt => dh_pkt'[e].type = "dh" /\ dh_pkt'[e].inc \in 0..my_incarnation'[e]
  BY <1>2, <1>19 DEF Known
<1>29. QED BY <1>16, <1>18, <1>23, <1>25, <1>26, <1>27, <1>28 DEF Step, ItTypes

\* Packing makes the window no shorter.
LEMMA PackLonger ==
    ASSUME OutTypes, NEW e \in ItEnds, NEW tail \in Nat \ {0}, NEW window \in Seq(Pkt),
           Len(window) <= MAX_SEND_ON_LINK, NEW digest, NEW inc \in Nat,
           NEW message \in {NoMessage} \cup Nat \X Nat,
           message # NoMessage =>
              /\ message[1] \in 1..Len(Fragments[e])
              /\ message[2] \in 1..Fragments[e][message[1]],
           Pack(e, tail, window, digest, message, inc)
    PROVE  Len(outgoing'[e]) \in Nat /\ Len(window) <= Len(outgoing'[e])
<1>1. it_conf \in Configurations BY DEF OutTypes
<1>2. PICK new \in Seq(Pkt), rest \in {NoMessage} \cup Nat \X Nat :
         Adds(e, tail, window, digest, message, new, rest)
  BY <1>1, PackHas
<1>3. outgoing'[e] = window \o new BY <1>2 DEF Adds, OutTypes
<1>4. Len(window \o new) = Len(window) + Len(new) /\ Len(window) \in Nat /\ Len(new) \in Nat
  BY ConcatItems
<1>5. QED BY <1>3, <1>4

\* What the first part of Process_IT_Ack does: the window is left from number tail on,
\* new may be sent and resent is sent again.
AckTakes(e, m, tail, head, new, resent, left) ==
    /\ Acks(e, m) =>
          /\ tail = m.aru + 1
          /\ \E c \in NextCwnds(e, tail - out_tail[e]) : cwnd' = [cwnd EXCEPT ![e] = c]
          /\ Pack(e, tail, WindowFrom(e, tail), out_nonce_digest[e], out_message[e],
                  ngbr_incarnation[e])
          /\ new = Allowed(e, tail, Len(WindowFrom(e, tail)), cwnd'[e])
    /\ ~Acks(e, m) =>
          /\ tail = out_tail[e] /\ new = {}
          /\ UNCHANGED <<cwnd, outgoing, out_nonce_digest, out_message>>
    /\ head = tcp_head[e] + Cardinality(new)
    /\ out_tail' = [out_tail EXCEPT ![e] = tail] /\ tcp_head' = [tcp_head EXCEPT ![e] = head]
    /\ resent \subseteq tail..(head - 1)
    /\ \E asked \in SUBSET (tail..(head - 1)) : nacked' = [nacked EXCEPT ![e] = asked]
    /\ left \subseteq it_net[e]
    /\ \E counted : SendITData(e, left, tail, WindowFrom(e, tail), new \cup resent, counted)

\* So it does.
LEMMA TakeITAckHas ==
    ASSUME ItTypes, NEW e \in ItEnds, NEW m, TakeITAck(e, m)
    PROVE  \E tail, head, new, resent, left : AckTakes(e, m, tail, head, new, resent, left)
<1> DEFINE acks == Acks(e, m)
           tail == IF acks THEN m.aru + 1 ELSE out_tail[e]
           window == WindowFrom(e, tail)
           new == IF acks THEN Allowed(e, tail, Len(window), cwnd'[e]) ELSE {}
           head == tcp_head[e] + Cardinality(new)
           asked == (nacked[e] \cup m.nacks) \cap tail..(head - 1)
           runs == m.nacks # {} /\ ~retransm_timer[e]
<1>1. /\ out_tail' = [out_tail EXCEPT ![e] = tail]
      /\ IF acks
         THEN /\ \E c \in NextCwnds(e, tail - out_tail[e]) : cwnd' = [cwnd EXCEPT ![e] = c]
              /\ Pack(e, tail, window, out_nonce_digest[e], out_message[e], ngbr_incarnation[e])
         ELSE UNCHANGED <<cwnd, outgoing, out_nonce_digest, out_message>>
      /\ tcp_head' = [tcp_head EXCEPT ![e] = head]
      /\ \E resent \in (IF runs THEN SUBSET (asked \ new) ELSE {{}}) :
            /\ IF runs
               THEN Resend(e, tail, head, asked, resent)
               ELSE nacked' = [nacked EXCEPT ![e] = asked] /\ UNCHANGED retransm_timer
            /\ \E left \in Left(e, m) :
                  SendITData(e, left, tail, window, new \cup resent, IF m.seq > 0 THEN 1 ELSE 0)
  BY Zenon DEF TakeITAck, WindowFrom
<1>2. PICK resent \in (IF runs THEN SUBSET (asked \ new) ELSE {{}}) :
         /\ IF runs
            THEN Resend(e, tail, head, asked, resent)
            ELSE nacked' = [nacked EXCEPT ![e] = asked] /\ UNCHANGED retransm_timer
         /\ \E left \in Left(e, m) :
               SendITData(e, left, tail, window, new \cup resent, IF m.seq > 0 THEN 1 ELSE 0)
  BY <1>1
<1>3. PICK left \in Left(e, m) :
         SendITData(e, left, tail, window, new \cup resent, IF m.seq > 0 THEN 1 ELSE 0)
  BY <1>2
<1>4. left \subseteq it_net[e] BY <1>3, LeftIs
<1>5. asked \subseteq tail..(head - 1) OBVIOUS
<1>6. resent \subseteq asked BY <1>2
<1>7. \E set \in SUBSET (tail..(head - 1)) : nacked' = [nacked EXCEPT ![e] = set]
  <2>1. nacked' = [nacked EXCEPT ![e] = asked] \/ nacked' = [nacked EXCEPT ![e] = asked \ resent]
    BY <1>2 DEF Resend
  <2> HIDE DEF asked, head, tail
  <2>2. asked \ resent \subseteq tail..(head - 1) BY <1>5
  <2>3. QED BY <1>5, <2>1, <2>2
<1>8. resent \subseteq tail..(head - 1) BY <1>5, <1>6
<1>9. acks => tail = m.aru + 1 /\ new = Allowed(e, tail, Len(window), cwnd'[e]) OBVIOUS
<1>10. ~acks => tail = out_tail[e] /\ new = {} OBVIOUS
<1>11. head = tcp_head[e] + Cardinality(new) OBVIOUS
<1>12. \E counted : SendITData(e, left, tail, window, new \cup resent, counted) BY <1>3
<1> HIDE DEF tail, head, new, asked, runs
<1>13. AckTakes(e, m, tail, head, new, resent, left)
  BY <1>1, <1>4, <1>7, <1>8, <1>9, <1>10, <1>11, <1>12 DEF AckTakes
<1>14. QED BY <1>13

\* The result of it.
AckedWell(e, tail, head) ==
    /\ OutTypes' /\ OutWindow(e)' /\ OutGrows(e) /\ OutRests(Other(e))
    /\ head \in Nat /\ tail \in Nat /\ out_tail'[e] = tail /\ tcp_head'[e] = head
    /\ \A n \in tail..(head - 1) : WindowFrom(e, tail)[n - tail + 1] = PacketNo(e, n)'

\* The congestion window stays a number of packets.
LEMMA CwndIsNat ==
    ASSUME OutTypes, NEW e \in ItEnds, NEW acked, NEW c \in NextCwnds(e, acked)
    PROVE  c \in Nat
<1>1. cwnd[e] \in Nat /\ MAX_SEND_ON_LINK \in Nat BY OutHas, ItConstants
<1>2. cwnd[e] \div 2 + 3 \in Nat BY <1>1
<1>3. CASE ~it_conf.TCP_Fairness BY <1>1, <1>3 DEF NextCwnds
<1>4. CASE it_conf.TCP_Fairness
  <2>1. PICK w \in {cwnd[e], cwnd[e] \div 2 + 3, 5}, g \in 0..acked :
           c = IF w + g < MAX_SEND_ON_LINK THEN w + g ELSE MAX_SEND_ON_LINK
    BY <1>4 DEF NextCwnds
  <2>2. w \in Nat /\ g \in Nat BY <1>1, <1>2
  <2>3. QED BY <1>1, <2>1, <2>2
<1>5. QED BY <1>3, <1>4

\* An acknowledgement frees packets and lets others be sent; then more is packed.
LEMMA AckFrees ==
    ASSUME OutTypes, IncTypes, NEW e \in ItEnds, OutWindow(e), NEW m, m.aru \in Nat, Acks(e, m),
           NEW tail, NEW head, NEW new, NEW resent, NEW left,
           AckTakes(e, m, tail, head, new, resent, left),
           it_conf' = it_conf, next_message' = next_message
    PROVE  AckedWell(e, tail, head)
<1>1. /\ tail = m.aru + 1
      /\ Pack(e, tail, WindowFrom(e, tail), out_nonce_digest[e], out_message[e],
              ngbr_incarnation[e])
      /\ new = Allowed(e, tail, Len(WindowFrom(e, tail)), cwnd'[e])
      /\ head = tcp_head[e] + Cardinality(new)
      /\ out_tail' = [out_tail EXCEPT ![e] = tail] /\ tcp_head' = [tcp_head EXCEPT ![e] = head]
  BY DEF AckTakes
<1>2. PICK c \in NextCwnds(e, tail - out_tail[e]) : cwnd' = [cwnd EXCEPT ![e] = c] BY DEF AckTakes
<1>3. c \in Nat BY CwndIsNat
<1>4. cwnd' \in [ItEnds -> Nat] /\ cwnd'[e] = c BY <1>2, <1>3 DEF OutTypes
<1>5. /\ out_tail[e] \in Nat \ {0} /\ tcp_head[e] \in Nat \ {0} /\ OutHead(e) \in Nat
      /\ out_message[e] \in {NoMessage} \cup Nat \X Nat /\ next_message[e] \in Nat
      /\ Len(outgoing[e]) \in Nat
  BY OutHas
<1>6. /\ tcp_head[e] <= OutHead(e) /\ Len(outgoing[e]) <= MAX_SEND_ON_LINK
      /\ next_message[e] <= Len(Fragments[e]) /\ Behind(outgoing[e], out_message[e])
      /\ out_message[e] # NoMessage =>
            /\ out_message[e][1] \in 1..next_message[e]
            /\ out_message[e][2] \in 1..Fragments[e][out_message[e][1]]
  BY DEF OutWindow, MessageWaits
<1>7. out_tail[e] <= m.aru /\ m.aru < tcp_head[e] BY DEF Acks
<1>8. tail \in Nat \ {0} /\ out_tail[e] <= tail /\ tail <= tcp_head[e] /\ tail <= OutHead(e)
  <2> HIDE DEF OutHead
  <2>1. QED BY <1>1, <1>5, <1>6, <1>7
<1>9. /\ WindowFrom(e, tail) \in Seq(Pkt) /\ Len(WindowFrom(e, tail)) = OutHead(e) - tail
      /\ Len(WindowFrom(e, tail)) <= Len(outgoing[e])
  BY <1>8, WindowFromHas
<1>10. PICK length : length = Len(WindowFrom(e, tail)) OBVIOUS
<1>11. length \in Nat /\ tail + length = OutHead(e)
  <2> HIDE DEF OutHead
  <2>1. QED BY <1>5, <1>8, <1>9, <1>10
<1>12. /\ head \in Nat /\ tcp_head[e] <= head /\ head <= tail + length
  <2>1. new = Allowed(e, tail, length, c) BY <1>1, <1>4, <1>10
  <2>2. tail \in Nat /\ tcp_head[e] \in Nat /\ tcp_head[e] <= tail + length
    BY <1>5, <1>6, <1>8, <1>11
  <2>3. head = tcp_head[e] + Cardinality(new) BY <1>1
  <2>4. QED BY <1>3, <1>11, <2>1, <2>2, <2>3, AllowedHas
<1>13. ngbr_incarnation[e] \in Nat BY DEF IncTypes
<1>14. head <= OutHead(e)'
  <2>1. out_message[e] # NoMessage =>
           /\ out_message[e][1] \in 1..Len(Fragments[e])
           /\ out_message[e][2] \in 1..Fragments[e][out_message[e][1]]
    <3>1. Len(Fragments[e]) \in Nat
      <4>1. it_conf \in Configurations BY DEF OutTypes
      <4>2. QED BY <4>1, FragmentsHave
    <3>2. QED BY <1>5, <1>6, <3>1
  <2>2. Len(WindowFrom(e, tail)) <= MAX_SEND_ON_LINK BY <1>5, <1>6, <1>9, <1>10, <1>11, ItConstants
  <2>3. Len(outgoing'[e]) \in Nat /\ length <= Len(outgoing'[e])
    BY <1>1, <1>5, <1>8, <1>9, <1>10, <1>13, <2>1, <2>2, PackLonger
  <2>4. out_tail'[e] = tail BY <1>1 DEF OutTypes
  <2>5. OutHead(e)' = tail + Len(outgoing'[e]) BY <2>4 DEF OutHead
  <2>6. QED BY <1>8, <1>11, <1>12, <2>3, <2>5
<1>15. nacked' \in [ItEnds -> SUBSET Nat]
  <2>1. PICK asked \in SUBSET (tail..(head - 1)) : nacked' = [nacked EXCEPT ![e] = asked]
    BY DEF AckTakes
  <2>2. asked \subseteq Nat BY <1>8, <1>12, <2>1
  <2>3. QED BY <2>1, <2>2 DEF OutTypes
<1>16. PacksBehind(e, tail, head, next_message[e], out_message[e], ngbr_incarnation[e])
  <2>1. next_message' = [next_message EXCEPT ![e] = next_message[e]] BY DEF OutTypes
  <2>2. next_message[e] <= next_message[e] BY <1>5
  <2>3. QED BY <1>1, <1>4, <1>6, <1>8, <1>12, <1>14, <1>15, <2>1, <2>2 DEF PacksBehind
<1>17. /\ OutTypes' /\ OutWindow(e)' /\ OutGrows(e) /\ OutRests(Other(e))
       /\ \A n \in tail..(OutHead(e) - 1) : WindowFrom(e, tail)[n - tail + 1] = PacketNo(e, n)'
  BY <1>5, <1>8, <1>12, <1>13, <1>16, PackGrows
<1>18. \A n \in tail..(head - 1) : n \in tail..(OutHead(e) - 1)
  <2> HIDE DEF OutHead
  <2>1. QED BY <1>8, <1>11, <1>12
<1>19. out_tail'[e] = tail /\ tcp_head'[e] = head BY <1>1 DEF OutTypes
<1>20. QED BY <1>8, <1>12, <1>17, <1>18, <1>19 DEF AckedWell

\* Anything else leaves the window alone.
LEMMA NoAckStays ==
    ASSUME OutTypes, NEW e \in ItEnds, OutWindow(e), NEW m, ~Acks(e, m),
           NEW tail, NEW head, NEW new, NEW resent, NEW left,
           AckTakes(e, m, tail, head, new, resent, left),
           it_conf' = it_conf, next_message' = next_message
    PROVE  AckedWell(e, tail, head)
<1>1. /\ tail = out_tail[e] /\ new = {} /\ head = tcp_head[e] + Cardinality(new)
      /\ UNCHANGED <<cwnd, outgoing, out_nonce_digest, out_message>>
      /\ out_tail' = [out_tail EXCEPT ![e] = tail] /\ tcp_head' = [tcp_head EXCEPT ![e] = head]
  BY DEF AckTakes
<1>2. out_tail[e] \in Nat \ {0} /\ tcp_head[e] \in Nat \ {0} /\ OutHead(e) \in Nat BY OutHas
<1>3. head = tcp_head[e] /\ head \in Nat
  <2>1. Cardinality({}) = 0 BY FS_EmptySet
  <2>2. QED BY <1>1, <1>2, <2>1
<1>4. out_tail' = out_tail /\ tcp_head' = tcp_head BY <1>1, <1>3 DEF OutTypes
<1>5. nacked' \in [ItEnds -> SUBSET Nat]
  <2>1. PICK asked \in SUBSET (tail..(head - 1)) : nacked' = [nacked EXCEPT ![e] = asked]
    BY DEF AckTakes
  <2>2. asked \subseteq Nat BY <1>1, <1>2, <1>3, <2>1
  <2>3. QED BY <2>1, <2>2 DEF OutTypes
<1>6. OutTypes' BY <1>1, <1>4, <1>5 DEF OutTypes
<1>7. OutRests(e) /\ OutRests(Other(e)) BY <1>1, <1>4 DEF OutRests
<1>8. OutWindow(e)' /\ OutGrows(e) BY <1>7, OutStays
<1>9. \A n \in tail..(head - 1) : WindowFrom(e, tail)[n - tail + 1] = PacketNo(e, n)'
  BY <1>1, <1>4, WholeWindow DEF PacketNo
<1>10. QED BY <1>1, <1>2, <1>3, <1>4, <1>6, <1>7, <1>8, <1>9 DEF AckedWell

\* What the packet brings is stored, or nothing.
InTaken(e, m) ==
    \/ UNCHANGED inVars
    \/ m.seq > 0 /\ \E tail \in Nat \ {0}, head \in Nat \ {0}, cells \in [ItSlots -> InCells] :
                       Passed(e, m, tail, head, cells)

\* What is received stays typed, and a window.
LEMMA InTakenKeeps ==
    ASSUME InTypes, NEW e \in ItEnds, InWindow(in_tail[e], in_head[e], incoming[e]),
           NEW m, m.seq > 0 => m.packet \in Pkt, InTaken(e, m)
    PROVE  /\ InTypes' /\ InWindow(in_tail'[e], in_head'[e], incoming'[e]) /\ InRests(Other(e))
           /\ \/ InRests(e)
              \/ m.seq > 0 /\ \E tail \in Nat \ {0}, head \in Nat \ {0},
                                 cells \in [ItSlots -> InCells] :
                                    Passed(e, m, tail, head, cells)
<1>1. Other(e) \in ItEnds /\ Other(e) # e BY TwoEnds
<1>2. CASE UNCHANGED inVars BY <1>2 DEF inVars, InTypes, InRests
<1>3. CASE m.seq > 0 /\ \E tail \in Nat \ {0}, head \in Nat \ {0}, cells \in [ItSlots -> InCells] :
                           Passed(e, m, tail, head, cells)
  <2>1. PICK tail \in Nat \ {0}, head \in Nat \ {0}, cells \in [ItSlots -> InCells] :
             Passed(e, m, tail, head, cells)
    BY <1>3
  <2>2. PICK add : add = {Stored(e, m, n) : n \in in_tail[e]..(tail - 1)} OBVIOUS
  <2>3. /\ in_tail' = [in_tail EXCEPT ![e] = tail]
        /\ in_head' = [in_head EXCEPT ![e] = head]
        /\ incoming' = [incoming EXCEPT ![e] = cells]
        /\ aru_nonce_digest' = [aru_nonce_digest EXCEPT ![e] = Xor(aru_nonce_digest[e], add)]
        /\ InWindow(tail, head, cells)
    BY <2>1, <2>2 DEF Passed
  <2>4. \A n \in in_tail[e]..(tail - 1) : Stored(e, m, n) \in Pkt BY <2>1 DEF Passed
  <2>5. add \subseteq Pkt BY <2>2, <2>4
  <2>6. Xor(aru_nonce_digest[e], add) \subseteq Pkt BY <2>5 DEF InTypes, Xor
  <2>7. InTypes' BY <2>3, <2>6 DEF InTypes
  <2>8. in_tail'[e] = tail /\ in_head'[e] = head /\ incoming'[e] = cells BY <2>3 DEF InTypes
  <2>9. InRests(Other(e)) BY <1>1, <2>3 DEF InTypes, InRests
  <2>10. QED BY <1>3, <2>3, <2>7, <2>8, <2>9
<1>4. QED BY <1>2, <1>3 DEF InTaken

\* A data packet or acknowledgement of the current incarnations makes a step.
LEMMA ProcessITPacketStep ==
    ASSUME ItInv, NEW e \in ItEnds, NEW m \in it_net[e], ProcessITPacket(e, m)
    PROVE  Step(e)
<1> DEFINE o == Other(e)
<1>1. o \in ItEnds /\ o # e /\ Other(o) = e BY TwoEnds
<1>2. /\ ItTypes /\ OutTypes /\ InTypes /\ IncTypes /\ WindowsOf(e) /\ OutWindow(e)
      /\ InWindow(in_tail[e], in_head[e], incoming[e])
  BY InvHas DEF ItTypes, WindowsOf
<1>3. /\ m.type = "data" /\ SameIncarnations(e, m) /\ TakeITAck(e, m)
      /\ IF m.seq > 0 /\ TakesPacket(e, m) THEN TakePacket(e, m) ELSE UNCHANGED inVars
      /\ Established(e)
      /\ UNCHANGED <<it_conf, incVars, upVars>>
  BY DEF ProcessITPacket
<1>4. Accepts(e, m) BY <1>3 DEF Accepts
<1>5. AsSent(o, m)
  <2>1. m \in it_net[Other(o)] BY <1>1
  <2>2. QED BY <1>1, <2>1, InvHas
<1>6. m.seq \in Nat /\ m.aru \in Nat /\ (m.seq > 0 => m.packet \in Pkt)
  BY <1>3, <1>5 DEF AsSent
<1>7. InTaken(e, m)
  <2>1. CASE m.seq > 0 /\ TakesPacket(e, m)
    <3>1. m.packet \in Pkt /\ TakePacket(e, m) BY <1>3, <1>6, <2>1
    <3>2. /\ in_tail[e] \in Nat \ {0} /\ in_head[e] \in Nat \ {0}
          /\ incoming[e] \in [ItSlots -> InCells]
      BY <1>2 DEF InTypes
    <3>3. \E tail \in Nat \ {0}, head \in Nat \ {0}, cells \in [ItSlots -> InCells] :
             Passed(e, m, tail, head, cells)
      BY <1>2, <1>6, <2>1, <3>1, <3>2, TakePacketHas
    <3>4. QED BY <2>1, <3>3 DEF InTaken
  <2>2. CASE ~(m.seq > 0 /\ TakesPacket(e, m)) BY <1>3, <2>2 DEF InTaken
  <2>3. QED BY <2>1, <2>2
<1>8. /\ InTypes' /\ InWindow(in_tail'[e], in_head'[e], incoming'[e]) /\ InRests(o)
      /\ \/ InRests(e)
         \/ m.seq > 0 /\ \E tail \in Nat \ {0}, head \in Nat \ {0},
                            cells \in [ItSlots -> InCells] : Passed(e, m, tail, head, cells)
  BY <1>2, <1>6, <1>7, InTakenKeeps
<1>9. PICK tail, head, new, resent, left : AckTakes(e, m, tail, head, new, resent, left)
  BY <1>2, <1>3, TakeITAckHas
<1>10. it_conf' = it_conf /\ next_message' = next_message BY <1>3 DEF upVars
<1>11. AckedWell(e, tail, head)
  <2>1. CASE Acks(e, m) BY <1>2, <1>6, <1>9, <1>10, <2>1, AckFrees
  <2>2. CASE ~Acks(e, m) BY <1>2, <1>9, <1>10, <2>2, NoAckStays
  <2>3. QED BY <2>1, <2>2
<1>12. /\ OutTypes' /\ OutWindow(e)' /\ OutGrows(e) /\ OutRests(o)
       /\ head \in Nat /\ tail \in Nat /\ out_tail'[e] = tail /\ tcp_head'[e] = head
       /\ \A n \in tail..(head - 1) : WindowFrom(e, tail)[n - tail + 1] = PacketNo(e, n)'
  BY <1>11 DEF AckedWell
<1>13. out_tail'[e] = out_tail[e] \/ out_tail'[e] = m.aru + 1 BY <1>9, <1>12 DEF AckTakes
<1>14. nacked'[e] \subseteq out_tail'[e]..(tcp_head'[e] - 1) /\ nacked'[o] = nacked[o]
  <2>1. PICK asked \in SUBSET (tail..(head - 1)) : nacked' = [nacked EXCEPT ![e] = asked]
    BY <1>9 DEF AckTakes
  <2>2. nacked'[e] = asked /\ nacked'[o] = nacked[o] BY <1>1, <1>2, <2>1 DEF OutTypes
  <2>3. QED BY <1>12, <2>1, <2>2
<1>15. new \cup resent \subseteq tail..(head - 1)
  <2>1. resent \subseteq tail..(head - 1) BY <1>9 DEF AckTakes
  <2>2. CASE Acks(e, m)
    <3>1. /\ new = Allowed(e, tail, Len(WindowFrom(e, tail)), cwnd'[e]) /\ tail = m.aru + 1
          /\ head = tcp_head[e] + Cardinality(new)
      BY <1>9, <2>2 DEF AckTakes
    <3>2. out_tail[e] \in Nat /\ tcp_head[e] \in Nat /\ OutHead(e) \in Nat BY <1>2, OutHas
    <3>3. out_tail[e] <= tail /\ tail <= tcp_head[e] /\ tcp_head[e] <= OutHead(e)
      BY <1>2, <1>12 DEF OutGrows, OutWindow
    <3>4. PICK length : length = Len(WindowFrom(e, tail)) OBVIOUS
    <3>5. length \in Nat /\ tail + length = OutHead(e)
      <4> HIDE DEF OutHead
      <4>1. tail <= OutHead(e) BY <1>12, <3>2, <3>3
      <4>2. Len(WindowFrom(e, tail)) = OutHead(e) - tail BY <1>2, <1>12, <3>3, <4>1, WindowFromHas
      <4>3. QED BY <1>12, <3>2, <3>4, <4>1, <4>2
    <3>6. PICK c : c = cwnd'[e] OBVIOUS
    <3>7. c \in Nat BY <1>12, <3>6 DEF OutTypes
    <3>8. new = Allowed(e, tail, length, c) BY <3>1, <3>4, <3>6
    <3>9. tcp_head[e] <= tail + length BY <3>3, <3>5
    <3>10. new \subseteq tcp_head[e]..(head - 1)
      BY <1>12, <3>1, <3>2, <3>5, <3>7, <3>8, <3>9, AllowedHas
    <3>11. tcp_head[e]..(head - 1) \subseteq tail..(head - 1) BY <1>12, <3>2, <3>3
    <3>12. QED BY <2>1, <3>10, <3>11
  <2>3. CASE ~Acks(e, m) BY <1>9, <2>1, <2>3 DEF AckTakes
  <2>4. QED BY <2>2, <2>3
<1>16. DOMAIN it_net' = ItEnds /\ NetMoves(e)
  <2>1. PICK window : window = WindowFrom(e, tail) OBVIOUS
  <2>2. PICK numbers : numbers = new \cup resent OBVIOUS
  <2>3. PICK counted : SendITData(e, left, tail, window, numbers, counted)
    BY <1>9, <2>1, <2>2 DEF AckTakes
  <2>4. left \subseteq it_net[e] BY <1>9 DEF AckTakes
  <2>5. AreSent(e, tail, window, numbers) BY <1>12, <1>15, <2>1, <2>2 DEF AreSent
  <2>6. QED BY <1>2, <2>3, <2>4, <2>5, SendDataStep
<1>17. my_incarnation' = my_incarnation /\ ngbr_incarnation' = ngbr_incarnation
  BY <1>3 DEF incVars
<1>18. DOMAIN dh_pkt' = ItEnds /\ dh_pkt'[e] = NoPkt /\ dh_pkt'[o] = dh_pkt[o]
  BY <1>1, <1>2, <1>3 DEF Established, IncTypes
<1>19. IncTypes' BY <1>2, <1>16, <1>17, <1>18 DEF IncTypes
<1>20. Rests(o) BY <1>8, <1>12, <1>14, <1>18 DEF Rests
<1>21. WindowsOf(e)' BY <1>8, <1>12, <1>14 DEF WindowsOf
<1>22. Goes(e) BY <1>4, <1>8, <1>12, <1>13, <1>16, <1>17 DEF Goes
<1>23. QED BY <1>8, <1>10, <1>12, <1>18, <1>19, <1>20, <1>21, <1>22 DEF Step, ItTypes

-----------------------------------------------------------------------------
(* A new incarnation *)

\* A packet with another nonce is the same fragment.
LEMMA OtherNonce ==
    ASSUME NEW p \in Pkt, NEW inc \in Nat
    PROVE  /\ [p EXCEPT ![3] = inc] \in Pkt
           /\ [p EXCEPT ![3] = inc][1] = p[1] /\ [p EXCEPT ![3] = inc][2] = p[2]
<1>1. PICK a \in Nat, b \in Nat, c \in Nat : p = <<a, b, c>> BY DEF Pkt
<1>2. [<<a, b, c>> EXCEPT ![3] = inc] = <<a, b, inc>> OBVIOUS
<1>3. QED BY <1>1, <1>2 DEF Pkt

\* The window without its first packets, and with another nonce in the others.
Renewed(w, skipped, inc) ==
    [i \in 1..(Len(w) - skipped) |-> [w[skipped + i] EXCEPT ![3] = inc]]

\* It keeps its order and its place.
LEMMA RenewedHas ==
    ASSUME NEW w \in Seq(Pkt), NEW skipped \in 0..Len(w), NEW inc \in Nat, Ordered(w),
           NEW last, UpTo(w, last), NEW message, Behind(w, message)
    PROVE  /\ Renewed(w, skipped, inc) \in Seq(Pkt)
           /\ Len(Renewed(w, skipped, inc)) = Len(w) - skipped
           /\ Ordered(Renewed(w, skipped, inc)) /\ UpTo(Renewed(w, skipped, inc), last)
           /\ Behind(Renewed(w, skipped, inc), message)
<1> DEFINE v == Renewed(w, skipped, inc)
           k == Len(w) - skipped
           f(i) == [w[skipped + i] EXCEPT ![3] = inc]
<1>1. Len(w) \in Nat /\ \A i \in 1..Len(w) : w[i] \in Pkt BY PacketsAre
<1>2. k \in Nat /\ skipped \in Nat /\ \A i \in 1..k : skipped + i \in 1..Len(w) BY <1>1
<1>3. v = [i \in 1..k |-> f(i)] BY DEF Renewed
<1>4. \A i \in 1..k : f(i) \in Pkt BY <1>1, <1>2, OtherNonce
<1>5. \A i \in 1..k : v[i][1] = w[skipped + i][1] /\ v[i][2] = w[skipped + i][2]
  <2>1. ASSUME NEW i \in 1..k PROVE v[i][1] = w[skipped + i][1] /\ v[i][2] = w[skipped + i][2]
    <3>1. v[i] = [w[skipped + i] EXCEPT ![3] = inc] BY <1>3
    <3>2. w[skipped + i] \in Pkt BY <1>1, <1>2
    <3>3. QED BY <3>1, <3>2, OtherNonce
  <2>2. QED BY <2>1
<1> HIDE DEF k, f
<1>6. v \in Seq(Pkt) /\ Len(v) = k BY <1>2, <1>3, <1>4
<1> HIDE DEF v
<1>7. Ordered(v)
  <2>1. ASSUME NEW i \in 1..k, NEW j \in 1..k, i < j PROVE Before(v[i], v[j])
    <3>1. skipped + i \in 1..Len(w) /\ skipped + j \in 1..Len(w) /\ skipped + i < skipped + j
      BY <1>2, <2>1
    <3>2. Before(w[skipped + i], w[skipped + j]) BY <3>1 DEF Ordered
    <3>3. QED BY <1>5, <3>2 DEF Before
  <2>2. QED BY <1>6, <2>1 DEF Ordered
<1>8. UpTo(v, last)
  <2>1. ASSUME NEW i \in 1..k PROVE v[i][1] <= last
    <3>1. w[skipped + i][1] <= last BY <1>2 DEF UpTo
    <3>2. QED BY <1>5, <3>1
  <2>2. QED BY <1>6, <2>1 DEF UpTo
<1>9. Behind(v, message)
  <2>1. ASSUME NEW i \in 1..k, message # NoMessage PROVE Before(v[i], message)
    <3>1. Before(w[skipped + i], message) BY <1>2, <2>1 DEF Behind
    <3>2. QED BY <1>5, <3>1 DEF Before
  <2>2. QED BY <1>6, <2>1 DEF Behind
<1>10. QED BY <1>6, <1>7, <1>8, <1>9 DEF v, k

\* The digests of a window are those of its packets alone.
DigestsOf(w, d) ==
    \A n \in 0..Len(w) :
        1 + Len(w) <= n + MAX_SEND_ON_LINK => d[ItSlot(n)] = Xor({}, PacketsIn(w, 1, 1, n))

\* Packets 1 to n are the first n.
LEMMA FirstPackets ==
    ASSUME NEW w \in Seq(Pkt), NEW n \in 0..Len(w)
    PROVE  PacketsIn(w, 1, 1, n) = {w[j] : j \in 1..n}
<1>1. Len(w) \in Nat BY PacketsAre
<1>2. \A j \in 1..n : j - 1 + 1 = j BY <1>1
<1>3. {w[j - 1 + 1] : j \in 1..n} = {w[j] : j \in 1..n} BY <1>2
<1>4. QED BY <1>3 DEF PacketsIn

\* The digests after packets were put into the window from number head on.
DigestsAdd(digest, head, packets, d) ==
    /\ d \in [ItSlots -> SUBSET Pkt]
    /\ \A i \in 1..Len(packets) :
          d[ItSlot(head + i - 1)] = Xor(digest[ItSlot(head - 1)], {packets[j] : j \in 1..i})
    /\ \A s \in ItSlots :
          (\A i \in 1..Len(packets) : ItSlot(head + i - 1) # s) => d[s] = digest[s]

\* Digests adds them.
LEMMA DigestsAdded ==
    ASSUME NEW digest \in [ItSlots -> SUBSET Pkt], NEW head \in Nat \ {0},
           NEW packets \in Seq(Pkt), Len(packets) <= MAX_SEND_ON_LINK
    PROVE  DigestsAdd(digest, head, packets, Digests(digest, head, packets))
BY DigestsHave DEF DigestsAdd

\* So they are when a window is put in from the first slot on, and new packets behind it.
LEMMA RenewedDigests ==
    ASSUME NEW digest \in [ItSlots -> SUBSET Pkt], digest[0] = {},
           NEW window \in Seq(Pkt), NEW new \in Seq(Pkt), Ordered(window \o new),
           Len(window) + Len(new) <= MAX_SEND_ON_LINK, NEW d1, NEW d2,
           d1 = Digests(digest, 1, window), d2 = Digests(d1, 1 + Len(window), new)
    PROVE  d2 \in [ItSlots -> SUBSET Pkt] /\ DigestsOf(window \o new, d2)
<1> DEFINE w == window \o new
           k == Len(window)
           l == Len(new)
           M == MAX_SEND_ON_LINK
<1>1. /\ w \in Seq(Pkt) /\ Len(w) = k + l /\ k \in Nat /\ l \in Nat
      /\ \A i \in 1..k : w[i] = window[i]
      /\ \A i \in 1..l : w[k + i] = new[i]
  BY ConcatItems
<1>2. M \in Nat /\ M > 0 /\ k + l <= M BY ItConstants
<1>3. /\ d1 \in [ItSlots -> SUBSET Pkt]
      /\ \A i \in 1..k : d1[ItSlot(i)] = Xor({}, {window[j] : j \in 1..i})
      /\ \A s \in ItSlots : (\A i \in 1..k : ItSlot(i) # s) => d1[s] = digest[s]
  <2>1. k <= M /\ 1 \in Nat \ {0} BY <1>1, <1>2
  <2>2. /\ d1 \in [ItSlots -> SUBSET Pkt]
        /\ \A i \in 1..k : d1[ItSlot(1 + i - 1)] = Xor(digest[ItSlot(1 - 1)], {window[j] : j \in 1..i})
        /\ \A s \in ItSlots : (\A i \in 1..k : ItSlot(1 + i - 1) # s) => d1[s] = digest[s]
    <3>1. PICK head \in Nat \ {0} : head = 1 BY <2>1
    <3>2. d1 = Digests(digest, head, window) BY <3>1
    <3>3. DigestsAdd(digest, head, window, d1) BY <2>1, <3>2, DigestsAdded
    <3>4. QED BY <3>1, <3>3 DEF DigestsAdd
  <2>3. 1 - 1 = 0 /\ ItSlot(0) = 0 BY ItSlotInSlots
  <2>4. \A i \in 1..k : 1 + i - 1 = i BY <1>1
  <2>5. digest[ItSlot(1 - 1)] = {} BY <2>3
  <2>6. QED BY <2>2, <2>4, <2>5
<1>4. /\ d2 \in [ItSlots -> SUBSET Pkt]
      /\ \A i \in 1..l : d2[ItSlot(k + i)] = Xor(d1[ItSlot(k)], {new[j] : j \in 1..i})
      /\ \A s \in ItSlots : (\A i \in 1..l : ItSlot(k + i) # s) => d2[s] = d1[s]
  <2>1. l <= M /\ 1 + k \in Nat \ {0} BY <1>1, <1>2
  <2>2. /\ d2 \in [ItSlots -> SUBSET Pkt]
        /\ \A i \in 1..l : d2[ItSlot(1 + k + i - 1)] = Xor(d1[ItSlot(1 + k - 1)], {new[j] : j \in 1..i})
        /\ \A s \in ItSlots : (\A i \in 1..l : ItSlot(1 + k + i - 1) # s) => d2[s] = d1[s]
    <3>1. PICK head \in Nat \ {0} : head = 1 + k BY <2>1
    <3>2. d2 = Digests(d1, head, new) BY <3>1
    <3>3. DigestsAdd(d1, head, new, d2) BY <1>3, <2>1, <3>2, DigestsAdded
    <3>4. QED BY <3>1, <3>3 DEF DigestsAdd
  <2>3. 1 + k - 1 = k BY <1>1
  <2>4. \A i \in 1..l : 1 + k + i - 1 = k + i BY <1>1
  <2>5. QED BY <2>2, <2>3, <2>4
<1> HIDE DEF w, k, l, M
<1>5. ASSUME NEW n \in 0..k, n > 0 \/ k < M
      PROVE  d1[ItSlot(n)] = Xor({}, PacketsIn(w, 1, 1, n))
  <2>1. n \in Nat /\ n <= k /\ n \in 0..Len(w) BY <1>1
  <2>2. PacketsIn(w, 1, 1, n) = {w[j] : j \in 1..n} BY <1>1, <2>1, FirstPackets
  <2>3. \A j \in 1..n : j \in 1..k BY <1>1, <2>1
  <2>4. {w[j] : j \in 1..n} = {window[j] : j \in 1..n} BY <1>1, <2>3
  <2>5. CASE n > 0
    <3>1. n \in 1..k BY <1>1, <2>1, <2>5
    <3>2. QED BY <1>3, <2>2, <2>4, <3>1
  <2>6. CASE n = 0
    <3>1. ASSUME NEW i \in 1..k PROVE ItSlot(i) # ItSlot(0)
      <4>1. i \in Int /\ 0 \in Int /\ i # 0 /\ i < 0 + MAX_SEND_ON_LINK /\ 0 < i + MAX_SEND_ON_LINK
        BY <1>1, <1>2, <1>5, <2>6 DEF M
      <4>2. QED BY <4>1, ItSlotsDiffer
    <3>2. ItSlot(0) \in ItSlots /\ ItSlot(0) = 0 BY ItSlotInSlots
    <3>3. d1[ItSlot(0)] = {} BY <1>3, <3>1, <3>2
    <3>4. {w[j] : j \in 1..n} = {} BY <2>6
    <3>5. Xor({}, {}) = {} BY DEF Xor
    <3>6. QED BY <2>2, <2>6, <3>3, <3>4, <3>5
  <2>7. QED BY <2>1, <2>5, <2>6
<1>6. ASSUME NEW n \in 0..Len(w), 1 + Len(w) <= n + M
      PROVE  d2[ItSlot(n)] = Xor({}, PacketsIn(w, 1, 1, n))
  <2>1. CASE n <= k
    <3>1. n \in 0..k /\ (n > 0 \/ k < M) BY <1>1, <1>2, <1>6, <2>1
    <3>2. ASSUME NEW i \in 1..l PROVE ItSlot(k + i) # ItSlot(n)
      <4>1. /\ k \in Nat /\ l \in Nat /\ M \in Nat /\ M > 0 /\ n \in Nat /\ i \in Nat
            /\ 1 <= i /\ i <= l /\ n <= k /\ 1 + (k + l) <= n + M
        BY <1>1, <1>2, <1>6, <2>1
      <4>2. k + i \in Int /\ n \in Int /\ k + i # n /\ k + i < n + M /\ n < k + i + M
        BY <4>1
      <4>3. QED BY <4>2, ItSlotsDiffer DEF M
    <3>3. n \in Int BY <1>1
    <3>4. d2[ItSlot(n)] = d1[ItSlot(n)] BY <1>4, <3>2, <3>3, ItSlotInSlots
    <3>5. QED BY <1>5, <3>1, <3>4
  <2>2. CASE n > k
    <3> DEFINE i == n - k
    <3>1. i \in 1..l /\ k + i = n /\ n \in Nat /\ l > 0 BY <1>1, <2>2
    <3> HIDE DEF i
    <3>2. d2[ItSlot(n)] = Xor(d1[ItSlot(k)], {new[j] : j \in 1..i}) BY <1>4, <3>1
    <3>3. {new[j] : j \in 1..i} = PacketsIn(w, 1, k + 1, n)
      <4>1. ASSUME NEW j \in 1..i PROVE \E x \in (k + 1)..n : new[j] = w[x - 1 + 1]
        <5>1. PICK x : x = k + j OBVIOUS
        <5>2. j \in 1..l /\ x \in (k + 1)..n /\ x - 1 + 1 = k + j BY <1>1, <3>1, <5>1
        <5>3. QED BY <1>1, <5>2
      <4>2. ASSUME NEW x \in (k + 1)..n PROVE \E j \in 1..i : w[x - 1 + 1] = new[j]
        <5>1. PICK j : j = x - k OBVIOUS
        <5>2. x \in Int /\ k + 1 <= x /\ x <= n BY <1>1, <3>1
        <5>3. j \in 1..l /\ j <= i /\ x - 1 + 1 = k + j BY <1>1, <3>1, <5>1, <5>2
        <5>4. j \in 1..i BY <1>1, <3>1, <5>3
        <5>5. QED BY <1>1, <5>3, <5>4
      <4>3. {new[j] : j \in 1..i} \subseteq {w[x - 1 + 1] : x \in (k + 1)..n} BY <4>1, Zenon
      <4>4. {w[x - 1 + 1] : x \in (k + 1)..n} \subseteq {new[j] : j \in 1..i} BY <4>2, Zenon
      <4>5. QED BY <4>3, <4>4 DEF PacketsIn
    <3>4. k \in 0..k /\ (k > 0 \/ k < M) BY <1>1, <1>2, <3>1
    <3>5. d1[ItSlot(k)] = Xor({}, PacketsIn(w, 1, 1, k)) BY <1>5, <3>4
    <3>6. /\ PacketsIn(w, 1, 1, k) \cap PacketsIn(w, 1, k + 1, n) = {}
          /\ PacketsIn(w, 1, 1, k) \cup PacketsIn(w, 1, k + 1, n) = PacketsIn(w, 1, 1, n)
      <4>1. PICK m, t : m = k + 1 /\ t = 1 OBVIOUS
      <4>2. /\ m \in Nat /\ t \in Nat /\ t \in Nat \ {0} /\ t <= t /\ t <= m /\ m <= n + 1
            /\ n \in Int /\ n < t + Len(w) /\ m - 1 = k
        <5>1. k \in Nat /\ n \in Nat /\ k < n /\ Len(w) \in Nat /\ n <= Len(w)
          BY <1>1, <2>2, <3>1
        <5>2. QED BY <4>1, <5>1
      <4>3. Ordered(w) BY DEF w
      <4>4. /\ PacketsIn(w, t, t, m - 1) \cap PacketsIn(w, t, m, n) = {}
            /\ PacketsIn(w, t, t, m - 1) \cup PacketsIn(w, t, m, n) = PacketsIn(w, t, t, n)
        BY <1>1, <4>2, <4>3, PacketsJoin
      <4>5. QED BY <4>1, <4>2, <4>4
    <3>7. QED BY <3>2, <3>3, <3>5, <3>6, XorJoin
  <2>3. QED BY <1>1, <2>1, <2>2
<1>7. QED BY <1>4, <1>6 DEF DigestsOf, w, M

\* End e has only window w, of which no packet is acknowledged, with digests d, and rest
\* waits; head is the next one to be sent.
OutStarts(e, head, w, d, rest) ==
    /\ out_tail' = [out_tail EXCEPT ![e] = 1] /\ tcp_head' = [tcp_head EXCEPT ![e] = head]
    /\ outgoing' = [outgoing EXCEPT ![e] = w]
    /\ out_nonce_digest' = [out_nonce_digest EXCEPT ![e] = d]
    /\ out_message' = [out_message EXCEPT ![e] = rest]
    /\ nacked' = [nacked EXCEPT ![e] = {}] /\ cwnd' = [cwnd EXCEPT ![e] = FirstCwnd]
    /\ it_conf' = it_conf /\ next_message' = next_message
    /\ 1 <= head /\ head <= 1 + Len(w) /\ Len(w) <= MAX_SEND_ON_LINK
    /\ Ordered(w) /\ UpTo(w, next_message[e]) /\ Behind(w, rest)
    /\ rest # NoMessage =>
          /\ Len(w) = MAX_SEND_ON_LINK
          /\ rest[1] \in 1..next_message[e] /\ rest[2] \in 1..Fragments[e][rest[1]]
    /\ DigestsOf(w, d)

\* Then it is a window.
LEMMA OutStarted ==
    ASSUME OutTypes, NEW e \in ItEnds, next_message[e] <= Len(Fragments[e]), NEW head \in Nat,
           NEW w \in Seq(Pkt), NEW d \in [ItSlots -> SUBSET Pkt],
           NEW rest \in {NoMessage} \cup Nat \X Nat, OutStarts(e, head, w, d, rest)
    PROVE  /\ OutTypes' /\ OutWindow(e)' /\ OutRests(Other(e)) /\ out_tail'[e] = 1
           /\ nacked'[e] = {} /\ nacked'[Other(e)] = nacked[Other(e)]
<1>1. Other(e) \in ItEnds /\ Other(e) # e BY TwoEnds
<1>2. /\ out_tail' = [out_tail EXCEPT ![e] = 1] /\ tcp_head' = [tcp_head EXCEPT ![e] = head]
      /\ outgoing' = [outgoing EXCEPT ![e] = w]
      /\ out_nonce_digest' = [out_nonce_digest EXCEPT ![e] = d]
      /\ out_message' = [out_message EXCEPT ![e] = rest]
      /\ nacked' = [nacked EXCEPT ![e] = {}] /\ cwnd' = [cwnd EXCEPT ![e] = FirstCwnd]
      /\ it_conf' = it_conf /\ next_message' = next_message
      /\ 1 <= head /\ head <= 1 + Len(w) /\ Len(w) <= MAX_SEND_ON_LINK
      /\ Ordered(w) /\ UpTo(w, next_message[e]) /\ Behind(w, rest)
      /\ rest # NoMessage =>
            /\ Len(w) = MAX_SEND_ON_LINK
            /\ rest[1] \in 1..next_message[e] /\ rest[2] \in 1..Fragments[e][rest[1]]
      /\ DigestsOf(w, d)
  BY DEF OutStarts
<1>3. FirstCwnd \in Nat BY ItConstants DEF FirstCwnd
<1>4. OutTypes' BY <1>2, <1>3 DEF OutTypes
<1>5. /\ out_tail'[e] = 1 /\ tcp_head'[e] = head /\ outgoing'[e] = w
      /\ out_nonce_digest'[e] = d /\ out_message'[e] = rest /\ nacked'[e] = {}
  BY <1>2 DEF OutTypes
<1>6. OutRests(Other(e)) /\ nacked'[Other(e)] = nacked[Other(e)]
  BY <1>1, <1>2 DEF OutTypes, OutRests
<1>7. Len(w) \in Nat BY PacketsAre
<1>8. OutHead(e)' = 1 + Len(w) BY <1>5 DEF OutHead
<1>9. Fragments' = Fragments BY <1>2 DEF Fragments
<1>10. MessageWaits(e)' BY <1>2, <1>5, <1>9 DEF MessageWaits
<1>11. Digested(e, 1, {})'
  <2>1. ASSUME NEW n \in (1 - 1)..(OutHead(e)' - 1), Kept(e, n)'
        PROVE  DigestAt(e, n)' = Xor({}, PacketsOf(e, 1, n)')
    <3>1. OutHead(e)' <= n + MAX_SEND_ON_LINK BY <2>1 DEF Kept
    <3>2. n \in 0..Len(w) BY <1>7, <1>8
    <3>3. d[ItSlot(n)] = Xor({}, PacketsIn(w, 1, 1, n)) BY <1>2, <1>8, <3>1, <3>2 DEF DigestsOf
    <3>4. DigestAt(e, n)' = d[ItSlot(n)] BY <1>5 DEF DigestAt
    <3>5. PacketsOf(e, 1, n)' = PacketsIn(w, 1, 1, n) BY <1>5 DEF PacketsOf
    <3>6. QED BY <3>3, <3>4, <3>5
  <2>2. QED BY <2>1 DEF Digested
<1>12. OutWindow(e)' BY <1>2, <1>5, <1>8, <1>10, <1>11 DEF OutWindow
<1>13. QED BY <1>4, <1>5, <1>6, <1>12

\* What Incarnation_Change leaves of the digests.
DigestsLeft(e) ==
    [s \in ItSlots |-> IF s = 0 \/ \E n \in in_tail[e]..(in_head[e] - 1) : ItSlot(n) = s
                       THEN {} ELSE out_nonce_digest[e][s]]

\* They are digests, and there is none of what comes before the first packet.
LEMMA DigestsLeftHave ==
    ASSUME OutTypes, NEW e \in ItEnds
    PROVE  DigestsLeft(e) \in [ItSlots -> SUBSET Pkt] /\ DigestsLeft(e)[0] = {}
<1>1. 0 \in ItSlots BY ItSlotInSlots
<1>2. out_nonce_digest[e] \in [ItSlots -> SUBSET Pkt] BY OutHas
<1>3. QED BY <1>1, <1>2 DEF DigestsLeft

\* An empty window has the digests of its packets.
LEMMA EmptyDigests ==
    ASSUME NEW d \in [ItSlots -> SUBSET Pkt], d[0] = {}, NEW w, w = <<>>
    PROVE  /\ DigestsOf(w, d) /\ Ordered(w) /\ w \in Seq(Pkt) /\ Len(w) = 0
           /\ \A last : UpTo(w, last)
           /\ Behind(w, NoMessage)
<1>1. w \in Seq(Pkt) /\ Len(w) = 0 OBVIOUS
<1>2. \A n \in 0..0 : n = 0 OBVIOUS
<1>3. d[ItSlot(0)] = {} BY ItSlotInSlots
<1>4. PacketsIn(w, 1, 1, 0) = {} BY DEF PacketsIn
<1>5. Xor({}, {}) = {} BY DEF Xor
<1>6. DigestsOf(w, d) BY <1>1, <1>2, <1>3, <1>4, <1>5 DEF DigestsOf
<1>7. \A i \in 1..0 : FALSE OBVIOUS
<1>8. QED BY <1>1, <1>6, <1>7 DEF Ordered, UpTo, Behind

\* What is packed behind the renewed window, with the digests of both.
PacksAgain(e, window, inc) ==
    Pack(e, 1, window, Digests(DigestsLeft(e), 1, window), out_message[e], inc)

\* The variables that every new incarnation sets.
Forgets(e, inc) ==
    /\ ngbr_incarnation' = [ngbr_incarnation EXCEPT ![e] = inc]
    /\ in_tail' = [in_tail EXCEPT ![e] = 1] /\ in_head' = [in_head EXCEPT ![e] = 1]
    /\ incoming' = [incoming EXCEPT ![e] = [s \in ItSlots |-> Empty]]
    /\ aru_nonce_digest' = [aru_nonce_digest EXCEPT ![e] = {}]
    /\ out_tail' = [out_tail EXCEPT ![e] = 1]
    /\ nacked' = [nacked EXCEPT ![e] = {}]
    /\ cwnd' = [cwnd EXCEPT ![e] = FirstCwnd]
    /\ it_conf' = it_conf /\ my_incarnation' = my_incarnation /\ next_message' = next_message

\* Incarnation_Change renews the window from a packet on, or gives it up.
LEMMA ChangeHas ==
    ASSUME OutTypes, NEW e \in ItEnds, NEW inc, IncarnationChange(e, inc)
    PROVE  /\ Forgets(e, inc)
           /\ \/ \E skipped \in 0..Len(outgoing[e]) :
                    /\ PacksAgain(e, Renewed(outgoing[e], skipped, inc), inc)
                    /\ tcp_head' = [tcp_head EXCEPT ![e] =
                          IF Renewed(outgoing[e], skipped, inc) = <<>> THEN 1 ELSE 2]
              \/ /\ tcp_head' = [tcp_head EXCEPT ![e] = 1]
                 /\ outgoing' = [outgoing EXCEPT ![e] = <<>>]
                 /\ out_nonce_digest' = [out_nonce_digest EXCEPT ![e] = DigestsLeft(e)]
                 /\ out_message' = [out_message EXCEPT ![e] = NoMessage]
<1> DEFINE starts == {i \in DOMAIN outgoing[e] : outgoing[e][i][2] = 1}
           skipped == IF starts = {} THEN Len(outgoing[e])
                      ELSE (CHOOSE i \in starts : \A j \in starts : i <= j) - 1
           window == [i \in 1..(Len(outgoing[e]) - skipped) |->
                         [outgoing[e][skipped + i] EXCEPT ![3] = inc]]
<1>1. window = Renewed(outgoing[e], skipped, inc) BY DEF Renewed
<1>2. /\ Forgets(e, inc)
      /\ IF it_conf.Reintroduce
         THEN /\ tcp_head' = [tcp_head EXCEPT ![e] = IF window = <<>> THEN 1 ELSE 2]
              /\ Pack(e, 1, window, Digests(DigestsLeft(e), 1, window), out_message[e], inc)
         ELSE /\ tcp_head' = [tcp_head EXCEPT ![e] = 1]
              /\ outgoing' = [outgoing EXCEPT ![e] = <<>>]
              /\ out_nonce_digest' = [out_nonce_digest EXCEPT ![e] = DigestsLeft(e)]
              /\ out_message' = [out_message EXCEPT ![e] = NoMessage]
  BY DEF IncarnationChange, Forgets, DigestsLeft
<1>3. Len(outgoing[e]) \in Nat /\ DOMAIN outgoing[e] = 1..Len(outgoing[e])
  <2>1. outgoing[e] \in Seq(Pkt) BY OutHas
  <2>2. QED BY <2>1, PacketsAre
<1>4. skipped \in 0..Len(outgoing[e])
  <2>1. starts \subseteq 1..Len(outgoing[e]) BY <1>3
  <2> HIDE DEF starts
  <2>2. CASE starts = {} BY <1>3, <2>2
  <2>3. CASE starts # {}
    <3>1. starts \subseteq Nat BY <2>1
    <3>2. \E i \in starts : \A j \in starts : i <= j BY <2>3, <3>1, LeastNat
    <3>3. PICK first : first = CHOOSE i \in starts : \A j \in starts : i <= j OBVIOUS
    <3>4. first \in 1..Len(outgoing[e]) BY <2>1, <3>2, <3>3
    <3>5. skipped = first - 1 BY <2>3, <3>3
    <3> HIDE DEF skipped
    <3>6. QED BY <1>3, <3>4, <3>5
  <2>4. QED BY <2>2, <2>3
<1> HIDE DEF skipped, window
<1>5. QED BY <1>1, <1>2, <1>4 DEF PacksAgain

\* If the window is renewed it is one afterwards, with what is packed behind it.
LEMMA RenewedStarts ==
    ASSUME OutTypes, NEW e \in ItEnds, OutWindow(e), NEW inc \in Nat, Forgets(e, inc),
           NEW skipped \in 0..Len(outgoing[e]),
           PacksAgain(e, Renewed(outgoing[e], skipped, inc), inc),
           tcp_head' = [tcp_head EXCEPT ![e] =
               IF Renewed(outgoing[e], skipped, inc) = <<>> THEN 1 ELSE 2]
    PROVE  \E head \in Nat, w \in Seq(Pkt), d \in [ItSlots -> SUBSET Pkt],
              rest \in {NoMessage} \cup Nat \X Nat : OutStarts(e, head, w, d, rest)
<1>1. PICK window : window = Renewed(outgoing[e], skipped, inc) OBVIOUS
<1>2. PICK head : head = IF window = <<>> THEN 1 ELSE 2 OBVIOUS
<1>3. PICK d1 : d1 = Digests(DigestsLeft(e), 1, window) OBVIOUS
<1>4. /\ outgoing[e] \in Seq(Pkt) /\ next_message[e] \in Nat /\ Len(outgoing[e]) \in Nat
      /\ out_message[e] \in {NoMessage} \cup Nat \X Nat
  BY OutHas
<1>5. /\ Len(outgoing[e]) <= MAX_SEND_ON_LINK /\ Ordered(outgoing[e])
      /\ next_message[e] <= Len(Fragments[e])
      /\ UpTo(outgoing[e], next_message[e]) /\ Behind(outgoing[e], out_message[e])
      /\ out_message[e] # NoMessage =>
            /\ out_message[e][1] \in 1..next_message[e]
            /\ out_message[e][2] \in 1..Fragments[e][out_message[e][1]]
  BY DEF OutWindow, MessageWaits
<1>6. /\ window \in Seq(Pkt) /\ Len(window) = Len(outgoing[e]) - skipped
      /\ Ordered(window) /\ UpTo(window, next_message[e]) /\ Behind(window, out_message[e])
  BY <1>1, <1>4, <1>5, RenewedHas
<1>7. Len(window) \in Nat /\ Len(window) <= MAX_SEND_ON_LINK BY <1>4, <1>5, <1>6, ItConstants
<1>8. it_conf \in Configurations BY DEF OutTypes
<1>9. out_message[e] # NoMessage => out_message[e][1] \in 1..Len(Fragments[e])
  BY <1>4, <1>5, <1>8, FragmentsHave
<1>10. PICK new \in Seq(Pkt), rest \in {NoMessage} \cup Nat \X Nat :
              Adds(e, 1, window, d1, out_message[e], new, rest)
  <2>1. Pack(e, 1, window, d1, out_message[e], inc) BY <1>1, <1>3 DEF PacksAgain
  <2>2. PICK tail \in Nat \ {0} : tail = 1 OBVIOUS
  <2>3. Pack(e, tail, window, d1, out_message[e], inc) BY <2>1, <2>2
  <2>4. \E new \in Seq(Pkt), rest \in {NoMessage} \cup Nat \X Nat :
              Adds(e, tail, window, d1, out_message[e], new, rest)
    BY <1>4, <1>5, <1>6, <1>7, <1>8, <1>9, <2>3, PackHas
  <2>5. QED BY <2>2, <2>4
<1>11. PICK w : w = window \o new OBVIOUS
<1>12. PICK d : d = Digests(d1, 1 + Len(window), new) OBVIOUS
<1>13. /\ outgoing' = [outgoing EXCEPT ![e] = w]
       /\ out_nonce_digest' = [out_nonce_digest EXCEPT ![e] = d]
       /\ out_message' = [out_message EXCEPT ![e] = rest]
       /\ Packed(Fragments[e], window, out_message[e], new, rest)
  BY <1>10, <1>11, <1>12 DEF Adds
<1>14. w \in Seq(Pkt) /\ Len(w) = Len(window) + Len(new) /\ Len(new) \in Nat
  BY <1>6, <1>11, ConcatItems
<1>15. Ordered(w) /\ Behind(w, rest) BY <1>4, <1>6, <1>11, <1>13, PackedOrdered
<1>16. UpTo(w, next_message[e])
  <2>1. out_message[e] # NoMessage => out_message[e][1] <= next_message[e] BY <1>5
  <2>2. QED BY <1>6, <1>11, <1>13, <2>1, PackedUpTo
<1>17. Len(w) <= MAX_SEND_ON_LINK BY <1>13, <1>14 DEF Packed
<1>18. rest # NoMessage =>
          /\ Len(w) = MAX_SEND_ON_LINK
          /\ rest[1] \in 1..next_message[e] /\ rest[2] \in 1..Fragments[e][rest[1]]
  BY <1>5, <1>13, <1>14 DEF Packed
<1>19. d \in [ItSlots -> SUBSET Pkt] /\ DigestsOf(w, d)
  <2>1. DigestsLeft(e) \in [ItSlots -> SUBSET Pkt] /\ DigestsLeft(e)[0] = {}
    BY DigestsLeftHave
  <2>2. Len(window) + Len(new) <= MAX_SEND_ON_LINK /\ Ordered(window \o new)
    BY <1>11, <1>14, <1>15, <1>17
  <2>3. d \in [ItSlots -> SUBSET Pkt] /\ DigestsOf(window \o new, d)
    BY <1>3, <1>6, <1>12, <2>1, <2>2, RenewedDigests
  <2>4. QED BY <1>11, <2>3
<1>20. head \in Nat /\ 1 <= head /\ head <= 1 + Len(w)
  <2>1. window # <<>> => Len(window) >= 1 BY <1>6, <1>7
  <2>2. QED BY <1>2, <1>7, <1>14, <2>1
<1>21. OutStarts(e, head, w, d, rest)
  <2>1. tcp_head' = [tcp_head EXCEPT ![e] = head] BY <1>1, <1>2
  <2>2. QED BY <1>13, <1>15, <1>16, <1>17, <1>18, <1>19, <1>20, <2>1 DEF OutStarts, Forgets
<1>22. QED BY <1>14, <1>19, <1>20, <1>21

\* A window that is given up.
LEMMA EmptyStarts ==
    ASSUME OutTypes, NEW e \in ItEnds, NEW d \in [ItSlots -> SUBSET Pkt], d[0] = {},
           out_tail' = [out_tail EXCEPT ![e] = 1], tcp_head' = [tcp_head EXCEPT ![e] = 1],
           outgoing' = [outgoing EXCEPT ![e] = <<>>],
           out_nonce_digest' = [out_nonce_digest EXCEPT ![e] = d],
           out_message' = [out_message EXCEPT ![e] = NoMessage],
           nacked' = [nacked EXCEPT ![e] = {}], cwnd' = [cwnd EXCEPT ![e] = FirstCwnd],
           it_conf' = it_conf, next_message' = next_message
    PROVE  \E head \in Nat, w \in Seq(Pkt), c \in [ItSlots -> SUBSET Pkt],
              rest \in {NoMessage} \cup Nat \X Nat : OutStarts(e, head, w, c, rest)
<1>1. PICK w : w = <<>> OBVIOUS
<1>2. /\ DigestsOf(w, d) /\ Ordered(w) /\ w \in Seq(Pkt) /\ Len(w) = 0
      /\ UpTo(w, next_message[e]) /\ Behind(w, NoMessage)
  BY <1>1, EmptyDigests
<1>3. MAX_SEND_ON_LINK \in Nat BY ItConstants
<1>4. OutStarts(e, 1, w, d, NoMessage) BY <1>1, <1>2, <1>3 DEF OutStarts
<1>5. QED BY <1>2, <1>4

\* What is received from a new incarnation, and what was sent to it.
InStarts(e) ==
    /\ in_tail' = [in_tail EXCEPT ![e] = 1] /\ in_head' = [in_head EXCEPT ![e] = 1]
    /\ incoming' = [incoming EXCEPT ![e] = [s \in ItSlots |-> Empty]]
    /\ aru_nonce_digest' = [aru_nonce_digest EXCEPT ![e] = {}]

\* Nothing is received.
LEMMA InStarted ==
    ASSUME InTypes, NEW e \in ItEnds, InStarts(e)
    PROVE  /\ InTypes' /\ InWindow(in_tail'[e], in_head'[e], incoming'[e]) /\ InRests(Other(e))
           /\ in_tail'[e] = 1 /\ in_head'[e] = 1 /\ aru_nonce_digest'[e] = {}
<1>1. Other(e) \in ItEnds /\ Other(e) # e BY TwoEnds
<1>2. [s \in ItSlots |-> Empty] \in [ItSlots -> InCells] BY DEF InCells
<1>3. InTypes' BY <1>2 DEF InStarts, InTypes
<1>4. /\ in_tail'[e] = 1 /\ in_head'[e] = 1 /\ aru_nonce_digest'[e] = {}
      /\ incoming'[e] = [s \in ItSlots |-> Empty]
  BY DEF InStarts, InTypes
<1>5. InRests(Other(e)) BY <1>1 DEF InStarts, InTypes, InRests
<1>6. InWindow(1, 1, [s \in ItSlots |-> Empty])
  <2>1. \A n : n \notin 1..(1 - 1) OBVIOUS
  <2>2. MAX_SEND_ON_LINK \in Nat /\ ItSlot(1) \in ItSlots BY ItConstants, ItSlotInSlots
  <2>3. QED BY <2>1, <2>2 DEF InWindow
<1>7. QED BY <1>3, <1>4, <1>5, <1>6

\* A new incarnation leaves windows and nothing received.
ChangedWell(e) ==
    /\ OutTypes' /\ InTypes' /\ WindowsOf(e)' /\ Starts(e)
    /\ OutRests(Other(e)) /\ InRests(Other(e)) /\ nacked'[Other(e)] = nacked[Other(e)]

\* So it does whenever both sides start.
LEMMA BothStart ==
    ASSUME OutTypes, InTypes, NEW e \in ItEnds, OutWindow(e), InStarts(e),
           \E head \in Nat, w \in Seq(Pkt), d \in [ItSlots -> SUBSET Pkt],
              rest \in {NoMessage} \cup Nat \X Nat : OutStarts(e, head, w, d, rest)
    PROVE  ChangedWell(e)
<1>1. PICK head \in Nat, w \in Seq(Pkt), d \in [ItSlots -> SUBSET Pkt],
           rest \in {NoMessage} \cup Nat \X Nat : OutStarts(e, head, w, d, rest)
  OBVIOUS
<1>2. next_message[e] <= Len(Fragments[e]) BY DEF OutWindow, MessageWaits
<1>3. /\ OutTypes' /\ OutWindow(e)' /\ OutRests(Other(e)) /\ out_tail'[e] = 1
      /\ nacked'[e] = {} /\ nacked'[Other(e)] = nacked[Other(e)]
  BY <1>1, <1>2, OutStarted
<1>4. /\ InTypes' /\ InWindow(in_tail'[e], in_head'[e], incoming'[e]) /\ InRests(Other(e))
      /\ in_tail'[e] = 1 /\ in_head'[e] = 1 /\ aru_nonce_digest'[e] = {}
  BY InStarted
<1>5. WindowsOf(e)' BY <1>3, <1>4 DEF WindowsOf
<1>6. Starts(e) BY <1>3, <1>4 DEF Starts
<1>7. QED BY <1>3, <1>4, <1>5, <1>6 DEF ChangedWell

\* Incarnation_Change does.
LEMMA ChangeStarts ==
    ASSUME OutTypes, InTypes, NEW e \in ItEnds, OutWindow(e), NEW inc \in Nat,
           IncarnationChange(e, inc)
    PROVE  /\ ChangedWell(e) /\ it_conf' = it_conf /\ my_incarnation' = my_incarnation
           /\ ngbr_incarnation' = [ngbr_incarnation EXCEPT ![e] = inc]
<1>1. Forgets(e, inc) BY ChangeHas
<1>2. InStarts(e) BY <1>1 DEF Forgets, InStarts
<1>3. \E head \in Nat, w \in Seq(Pkt), d \in [ItSlots -> SUBSET Pkt],
         rest \in {NoMessage} \cup Nat \X Nat : OutStarts(e, head, w, d, rest)
  <2>1. CASE \E skipped \in 0..Len(outgoing[e]) :
                /\ PacksAgain(e, Renewed(outgoing[e], skipped, inc), inc)
                /\ tcp_head' = [tcp_head EXCEPT ![e] =
                      IF Renewed(outgoing[e], skipped, inc) = <<>> THEN 1 ELSE 2]
    BY <1>1, <2>1, RenewedStarts
  <2>2. CASE /\ tcp_head' = [tcp_head EXCEPT ![e] = 1]
             /\ outgoing' = [outgoing EXCEPT ![e] = <<>>]
             /\ out_nonce_digest' = [out_nonce_digest EXCEPT ![e] = DigestsLeft(e)]
             /\ out_message' = [out_message EXCEPT ![e] = NoMessage]
    <3>1. PICK d : d = DigestsLeft(e) OBVIOUS
    <3>2. d \in [ItSlots -> SUBSET Pkt] /\ d[0] = {} BY <3>1, DigestsLeftHave
    <3>3. /\ out_tail' = [out_tail EXCEPT ![e] = 1]
          /\ nacked' = [nacked EXCEPT ![e] = {}] /\ cwnd' = [cwnd EXCEPT ![e] = FirstCwnd]
          /\ it_conf' = it_conf /\ next_message' = next_message
      BY <1>1 DEF Forgets
    <3>4. out_nonce_digest' = [out_nonce_digest EXCEPT ![e] = d] BY <2>2, <3>1
    <3>5. QED BY <2>2, <3>2, <3>3, <3>4, EmptyStarts
  <2>3. QED BY <2>1, <2>2, ChangeHas
<1>4. QED BY <1>1, <1>2, <1>3, BothStart DEF Forgets

\* What end e reads is of an incarnation of the other end.
LEMMA ReadHas ==
    ASSUME ItInv, NEW e \in ItEnds, NEW m \in it_net[e]
    PROVE  AsSent(Other(e), m) /\ m.inc \in Nat /\ m.inc <= my_incarnation[Other(e)]
<1>1. Other(e) \in ItEnds /\ Other(Other(e)) = e BY TwoEnds
<1>2. AsSent(Other(e), m) BY <1>1, InvHas
<1>3. my_incarnation[Other(e)] \in Nat BY <1>1, InvHas, EndHas
<1>4. QED BY <1>2, <1>3 DEF AsSent

\* A change of incarnation is a step, if no data is sent in it.
LEMMA ChangeStep ==
    ASSUME ItInv, NEW e \in ItEnds, NEW m \in it_net[e], m.inc > ngbr_incarnation[e],
           IncarnationChange(e, m.inc), DOMAIN it_net' = ItEnds, NetMoves(e),
           \A n \in it_net'[Other(e)] : n \in it_net[Other(e)] \/ n.type # "data",
           DOMAIN dh_pkt' = ItEnds, dh_pkt'[Other(e)] = dh_pkt[Other(e)],
           \/ dh_pkt'[e] = NoPkt \/ dh_pkt'[e] = dh_pkt[e]
           \/ dh_pkt'[e].type = "dh" /\ dh_pkt'[e].inc = my_incarnation[e]
    PROVE  Step(e)
<1> DEFINE o == Other(e)
<1>1. o \in ItEnds /\ o # e BY TwoEnds
<1>2. /\ ItTypes /\ OutTypes /\ InTypes /\ IncTypes /\ OutWindow(e) /\ Known(e)
  BY InvHas DEF ItTypes, WindowsOf
<1>3. PICK inc : inc = m.inc OBVIOUS
<1>4. inc \in Nat /\ ngbr_incarnation[e] < inc /\ inc <= my_incarnation[o]
  <2>1. ngbr_incarnation[e] \in Nat BY <1>2, EndHas
  <2>2. QED BY <1>3, <2>1, ReadHas
<1>5. IncarnationChange(e, inc) BY <1>3
<1>6. /\ ChangedWell(e) /\ it_conf' = it_conf /\ my_incarnation' = my_incarnation
      /\ ngbr_incarnation' = [ngbr_incarnation EXCEPT ![e] = inc]
  BY <1>2, <1>4, <1>5, ChangeStarts
<1>7. /\ OutTypes' /\ InTypes' /\ WindowsOf(e)' /\ Starts(e)
      /\ OutRests(o) /\ InRests(o) /\ nacked'[o] = nacked[o]
  BY <1>6 DEF ChangedWell
<1>8. IncTypes' BY <1>2, <1>4, <1>6 DEF IncTypes
<1>9. Rests(o) BY <1>7 DEF Rests
<1>10. Renews(e) BY <1>4, <1>6, <1>7 DEF Renews
<1>11. dh_pkt'[e] # NoPkt => dh_pkt'[e].type = "dh" /\ dh_pkt'[e].inc \in 0..my_incarnation'[e]
  <2>1. my_incarnation[e] \in Nat BY <1>2, EndHas
  <2>2. my_incarnation[e] \in 0..my_incarnation[e] BY <2>1
  <2>3. QED BY <1>2, <1>6, <2>2 DEF Known
<1>12. QED BY <1>6, <1>7, <1>8, <1>9, <1>10, <1>11 DEF Step, ItTypes

\* A ping makes a step.
LEMMA ProcessITPingStep ==
    ASSUME ItInv, NEW e \in ItEnds, NEW m \in it_net[e], ProcessITPing(e, m)
    PROVE  Step(e)
<1> DEFINE o == Other(e)
<1>1. o \in ItEnds /\ o # e BY TwoEnds
<1>2. ItTypes /\ IncTypes BY InvHas DEF ItTypes
<1>3. PICK burst : burst = IF m.type = "ping" /\ m.aru_inc <= my_incarnation[e]
                           THEN {Ping(e, "pong")} ELSE {}
  OBVIOUS
<1>4. PICK left \in Left(e, m) : ItSend(e, left, burst) BY <1>3 DEF ProcessITPing
<1>5. left \subseteq it_net[e] BY <1>4, LeftIs
<1>6. \A n \in burst : SentNow(e, n) /\ n.type # "data" BY <1>2, <1>3, PingSentNow
<1>7. DOMAIN it_net' = ItEnds /\ NetMoves(e) BY <1>2, <1>4, <1>5, <1>6, SendStep
<1>8. \A n \in it_net'[o] : n \in it_net[o] \/ n.type # "data"
  <2>1. \A n \in it_net'[o] : n \in it_net[o] \/ n \in burst BY <1>2, <1>4, SendMoves DEF IncTypes
  <2>2. QED BY <1>6, <2>1
<1>9. DOMAIN dh_pkt' = ItEnds /\ dh_pkt'[e] = NoPkt /\ dh_pkt'[o] = dh_pkt[o]
  BY <1>1, <1>2 DEF ProcessITPing, Established, IncTypes
<1>10. CASE m.inc > ngbr_incarnation[e]
  <2>1. IncarnationChange(e, m.inc) BY <1>10 DEF ProcessITPing
  <2>2. QED BY <1>7, <1>8, <1>9, <1>10, <2>1, ChangeStep
<1>11. CASE ~(m.inc > ngbr_incarnation[e])
  <2>1. UNCHANGED <<it_conf, outVars, inVars, incVars, ackVars, retransmVars, upVars>>
    BY <1>11 DEF ProcessITPing
  <2>2. QuietExcept(e)
    BY <1>2, <1>9, <2>1 DEF QuietExcept, retransmVars, ItTypes, OutTypes
  <2>3. QED BY <1>7, <2>2, QuietStep
<1>12. QED BY <1>10, <1>11

\* The exchange of keys makes a step.
LEMMA ProcessITDHStep ==
    ASSUME ItInv, NEW e \in ItEnds, NEW m \in it_net[e], ProcessITDH(e, m)
    PROVE  Step(e)
<1> DEFINE o == Other(e)
<1>1. o \in ItEnds /\ o # e BY TwoEnds
<1>2. ItTypes /\ IncTypes BY InvHas DEF ItTypes
<1>3. PICK left \in Left(e, m) : Transmit(e, left, {}) BY DEF ProcessITDH
<1>4. left \subseteq it_net[e] BY <1>3, LeftIs
<1>5. DOMAIN it_net' = ItEnds /\ NetMoves(e) BY <1>2, <1>3, <1>4, TransmitStep
<1>6. \A n \in it_net'[o] : n \in it_net[o] \/ n.type # "data"
  BY <1>2, <1>3, TransmitMoves DEF IncTypes
<1>7. dh_pkt' = dh_pkt \/ dh_pkt' = [dh_pkt EXCEPT ![e] = KeyExchange(e)]
  BY DEF ProcessITDH
<1>8. KeyExchange(e).type = "dh" /\ KeyExchange(e).inc = my_incarnation[e] BY DEF KeyExchange
<1>9. /\ DOMAIN dh_pkt' = ItEnds /\ dh_pkt'[o] = dh_pkt[o]
      /\ \/ dh_pkt'[e] = dh_pkt[e]
         \/ dh_pkt'[e].type = "dh" /\ dh_pkt'[e].inc = my_incarnation[e]
  BY <1>1, <1>2, <1>7, <1>8 DEF IncTypes
<1>10. m.inc > ngbr_incarnation[e] /\ IncarnationChange(e, m.inc) BY DEF ProcessITDH
<1>11. QED BY <1>5, <1>6, <1>9, <1>10, ChangeStep

\* A restart makes a step.
LEMMA RestartStep ==
    ASSUME ItInv, NEW e \in ItEnds, Restart(e)
    PROVE  Step(e)
<1> DEFINE o == Other(e)
<1>1. o \in ItEnds /\ o # e BY TwoEnds
<1>2. ItTypes /\ OutTypes /\ InTypes /\ IncTypes /\ OutWindow(e)
  BY InvHas DEF ItTypes, WindowsOf
<1>3. InStarts(e) BY DEF Restart, InStarts
<1>4. PICK d : d = [s \in ItSlots |-> {}] OBVIOUS
<1>5. d \in [ItSlots -> SUBSET Pkt] /\ d[0] = {}
  <2>1. 0 \in ItSlots BY ItSlotInSlots
  <2>2. QED BY <1>4, <2>1
<1>6. /\ out_tail' = [out_tail EXCEPT ![e] = 1] /\ tcp_head' = [tcp_head EXCEPT ![e] = 1]
      /\ outgoing' = [outgoing EXCEPT ![e] = <<>>]
      /\ out_nonce_digest' = [out_nonce_digest EXCEPT ![e] = d]
      /\ out_message' = [out_message EXCEPT ![e] = NoMessage]
      /\ nacked' = [nacked EXCEPT ![e] = {}] /\ cwnd' = [cwnd EXCEPT ![e] = FirstCwnd]
      /\ it_conf' = it_conf /\ next_message' = next_message
  BY <1>4 DEF Restart
<1>7. \E head \in Nat, w \in Seq(Pkt), c \in [ItSlots -> SUBSET Pkt],
         rest \in {NoMessage} \cup Nat \X Nat : OutStarts(e, head, w, c, rest)
  BY <1>2, <1>5, <1>6, EmptyStarts
<1>8. /\ OutTypes' /\ InTypes' /\ WindowsOf(e)' /\ Starts(e)
      /\ OutRests(o) /\ InRests(o) /\ nacked'[o] = nacked[o]
  BY <1>2, <1>3, <1>7, BothStart DEF ChangedWell
<1>9. /\ my_incarnation' = [my_incarnation EXCEPT ![e] = @ + 1]
      /\ ngbr_incarnation' = [ngbr_incarnation EXCEPT ![e] = 0]
      /\ it_net' = it_net
  BY DEF Restart
<1>10. /\ DOMAIN dh_pkt' = ItEnds /\ dh_pkt'[o] = dh_pkt[o]
       /\ dh_pkt'[e] # NoPkt => dh_pkt'[e].type = "dh" /\ dh_pkt'[e].inc = my_incarnation[e] + 1
  <2>1. PICK pkt : /\ dh_pkt' = [dh_pkt EXCEPT ![e] = pkt]
                   /\ pkt # NoPkt => pkt.type = "dh" /\ pkt.inc = my_incarnation[e] + 1
    <3>1. dh_pkt' = [dh_pkt EXCEPT ![e] =
             IF it_conf.Crypto THEN [KeyExchange(e) EXCEPT !.inc = @ + 1, !.aru_inc = 0] ELSE NoPkt]
      BY DEF Restart
    <3>2. PICK first : first = [KeyExchange(e) EXCEPT !.inc = @ + 1, !.aru_inc = 0] OBVIOUS
    <3>3. first.type = "dh" /\ first.inc = my_incarnation[e] + 1 BY <3>2 DEF KeyExchange
    <3>4. QED BY <3>1, <3>2, <3>3
  <2>2. QED BY <1>1, <1>2, <2>1 DEF IncTypes
<1>11. my_incarnation[e] \in Nat /\ my_incarnation'[e] = my_incarnation[e] + 1
  BY <1>2, <1>9 DEF IncTypes
<1>12. IncTypes' BY <1>2, <1>9, <1>10 DEF IncTypes
<1>13. dh_pkt'[e] # NoPkt => dh_pkt'[e].type = "dh" /\ dh_pkt'[e].inc \in 0..my_incarnation'[e]
  BY <1>10, <1>11
<1>14. Rests(o) BY <1>8, <1>10 DEF Rests
<1>15. Restarts(e) BY <1>8, <1>9 DEF Restarts
<1>16. QED BY <1>6, <1>8, <1>12, <1>13, <1>14, <1>15 DEF Step, ItTypes

-----------------------------------------------------------------------------
(* What holds *)

\* The ends begin with empty windows.
LEMMA ItInitInv ==
    ASSUME ItInit
    PROVE  ItInv
<1>1. 0 \in ItSlots /\ ItSlot(1) \in ItSlots /\ MAX_SEND_ON_LINK \in Nat BY ItSlotInSlots, ItConstants
<1>2. PICK d, c : d = [s \in ItSlots |-> {}] /\ c = [s \in ItSlots |-> Empty] OBVIOUS
<1>3. d \in [ItSlots -> SUBSET Pkt] /\ d[0] = {} BY <1>1, <1>2
<1>4. c \in [ItSlots -> InCells] BY <1>2 DEF InCells
<1>5. FirstCwnd \in Nat BY ItConstants DEF FirstCwnd
<1>6. \A w : w = <<>> => w \in Seq(Pkt) OBVIOUS
<1>7. OutTypes
  BY <1>2, <1>3, <1>5, <1>6 DEF ItInit, OutTypes, Fresh0
<1>8. InTypes /\ IncTypes BY <1>2, <1>4 DEF ItInit, InTypes, IncTypes, Fresh0
<1>9. ASSUME NEW e \in ItEnds
      PROVE  /\ out_tail[e] = 1 /\ tcp_head[e] = 1 /\ outgoing[e] = <<>> /\ nacked[e] = {}
             /\ out_nonce_digest[e] = d /\ out_message[e] = NoMessage /\ next_message[e] = 0
             /\ in_tail[e] = 1 /\ in_head[e] = 1 /\ incoming[e] = c /\ aru_nonce_digest[e] = {}
             /\ my_incarnation[e] = 1 /\ ngbr_incarnation[e] = 0 /\ it_net[e] = {}
             /\ dh_pkt[e] # NoPkt => dh_pkt[e].type = "dh" /\ dh_pkt[e].inc = 1
  BY <1>2 DEF ItInit, Fresh0
<1>10. ASSUME NEW e \in ItEnds PROVE WindowsOf(e)
  <2>1. PICK w : w = outgoing[e] OBVIOUS
  <2>2. w = <<>> BY <1>9, <2>1
  <2>3. /\ DigestsOf(w, d) /\ Ordered(w) /\ Len(w) = 0
        /\ UpTo(w, 0) /\ Behind(w, NoMessage)
    BY <1>3, <2>2, EmptyDigests
  <2>4. OutHead(e) = 1 BY <1>9, <2>1, <2>3 DEF OutHead
  <2>5. Len(Fragments[e]) \in Nat BY <1>7, FragmentsHave DEF OutTypes
  <2>6. MessageWaits(e) BY <1>9, <2>1, <2>3, <2>5 DEF MessageWaits
  <2>7. Digested(e, 1, {})
    <3>1. ASSUME NEW n \in (1 - 1)..(OutHead(e) - 1), Kept(e, n)
          PROVE  DigestAt(e, n) = Xor({}, PacketsOf(e, 1, n))
      <4>1. 1 <= n + MAX_SEND_ON_LINK /\ n \in 0..0 BY <2>4, <3>1 DEF Kept
      <4>2. d[ItSlot(n)] = Xor({}, PacketsIn(w, 1, 1, n)) BY <2>3, <4>1 DEF DigestsOf
      <4>3. DigestAt(e, n) = d[ItSlot(n)] BY <1>9 DEF DigestAt
      <4>4. PacketsOf(e, 1, n) = PacketsIn(w, 1, 1, n) BY <1>9, <2>1 DEF PacketsOf
      <4>5. QED BY <4>2, <4>3, <4>4
    <3>2. QED BY <3>1 DEF Digested
  <2>8. OutWindow(e) BY <1>1, <1>9, <2>1, <2>3, <2>4, <2>6, <2>7 DEF OutWindow
  <2>9. InWindow(1, 1, c)
    <3>1. \A n : n \notin 1..(1 - 1) OBVIOUS
    <3>2. QED BY <1>1, <1>2, <3>1 DEF InWindow
  <2>10. QED BY <1>9, <2>8, <2>9 DEF WindowsOf
<1>11. ASSUME NEW e \in ItEnds PROVE Known(e) /\ Clean(e) /\ NetRight(e)
  <2>1. Other(e) \in ItEnds BY TwoEnds
  <2>2. QED BY <1>9, <2>1 DEF Known, Clean, NetRight
<1>12. ~Paired
  <2>1. 0 \in ItEnds /\ Other(0) \in ItEnds BY DEF ItEnds, Other
  <2>2. QED BY <1>9, <2>1 DEF Paired
<1>13. QED BY <1>7, <1>8, <1>10, <1>11, <1>12 DEF ItInv, ItTypes

\* Every step of an end keeps the invariant.
LEMMA ItNextKeeps ==
    ASSUME ItInv, ItNext
    PROVE  ItInv'
<1>1. PICK e \in ItEnds : ItEndNext(e) BY DEF ItNext
<1>2. Step(e)
  <2>1. CASE ForwardIT(e) BY <2>1, ForwardITStep
  <2>2. CASE AckITTimeout(e) BY <2>2, AckITTimeoutStep
  <2>3. CASE ReliableITTimeout(e) BY <2>3, ReliableITTimeoutStep
  <2>4. CASE HandleITRetransm(e) BY <2>4, HandleITRetransmStep
  <2>5. CASE PingITTimeout(e) BY <2>5, PingITTimeoutStep
  <2>6. CASE SendITDH(e) BY <2>6, SendITDHStep
  <2>7. ASSUME NEW m \in it_net[e], ProcessITPacket(e, m) PROVE Step(e)
    BY <2>7, ProcessITPacketStep
  <2>8. ASSUME NEW m \in it_net[e], ProcessITPing(e, m) PROVE Step(e) BY <2>8, ProcessITPingStep
  <2>9. ASSUME NEW m \in it_net[e], ProcessITDH(e, m) PROVE Step(e) BY <2>9, ProcessITDHStep
  <2>10. ASSUME NEW m \in it_net[e], DropIT(e, m) PROVE Step(e) BY <2>10, DropITStep
  <2>11. CASE Restart(e) BY <2>11, RestartStep
  <2>12. QED
    BY <1>1, <2>1, <2>2, <2>3, <2>4, <2>5, <2>6, <2>7, <2>8, <2>9, <2>10, <2>11 DEF ItEndNext
<1>3. QED BY <1>2, StepKeeps

\* So does a step in which nothing happens.
LEMMA ItStuttersKeep ==
    ASSUME ItInv, UNCHANGED itVars
    PROVE  ItInv'
<1>1. 0 \in ItEnds BY DEF ItEnds
<1>2. ItTypes BY <1>1, InvHas
<1>3. /\ UNCHANGED <<it_conf, outVars, inVars, incVars, upVars>> /\ it_net' = it_net
      /\ nacked' = nacked /\ dh_pkt' = dh_pkt
  BY DEF itVars, dhVars, retransmVars
<1>4. QuietExcept(0) BY <1>2, <1>3 DEF QuietExcept, ItTypes, OutTypes, IncTypes
<1>5. DOMAIN it_net' = ItEnds /\ NetMoves(0) BY <1>2, <1>3 DEF ItTypes, IncTypes, NetMoves
<1>6. Step(0) BY <1>1, <1>4, <1>5, QuietStep
<1>7. QED BY <1>1, <1>6, StepKeeps

\* The inductive invariant: the windows of both ends are windows, whose digests are those
\* of their packets; what is under way between the current incarnations is right; and
\* between paired ends what one has received is what the other has sent.
THEOREM ItInvariant == ItSpec => []ItInv
<1>1. ItInit => ItInv BY ItInitInv
<1>2. ItInv /\ [ItNext]_itVars => ItInv' BY ItNextKeeps, ItStuttersKeep
<1>3. QED BY <1>1, <1>2, PTL DEF ItSpec

\* The windows of the link hold, whatever is lost, duplicated or crowded out and however
\* often the daemons start again: Forward_Intru_Tol_Data never finds a message waiting
\* (1087), and Send_IT_Data_Msg never a number out of the window (1757).
THEOREM ItWindowsHold == ItSpec => []ItWindowHolds
<1>1. ItInv => ItWindowHolds
  <2>1. SUFFICES ASSUME ItInv, NEW e \in ItEnds
                 PROVE  /\ out_tail[e] <= tcp_head[e] /\ tcp_head[e] <= OutHead(e)
                        /\ Len(outgoing[e]) <= MAX_SEND_ON_LINK
                        /\ out_message[e] # NoMessage => Len(outgoing[e]) = MAX_SEND_ON_LINK
                        /\ nacked[e] \subseteq out_tail[e]..(tcp_head[e] - 1)
                        /\ InWindow(in_tail[e], in_head[e], incoming[e])
    BY DEF ItWindowHolds, InWindow
  <2>2. WindowsOf(e) BY <2>1, InvHas
  <2>3. QED BY <2>2 DEF WindowsOf, OutWindow, MessageWaits
<1>2. QED BY <1>1, ItInvariant, PTL

\* An acknowledgement between the two current incarnations always proves receipt: the
\* digest of the nonces that Process_IT_Ack compares (2226) is the one that was stored
\* when the packet was packed, after every restart and change of incarnation.
THEOREM AcksAlwaysProve == ItSpec => []AcksProve
<1>1. ItInv => AcksProve
  <2>1. SUFFICES ASSUME ItInv, NEW e \in ItEnds, NEW m \in it_net[e], m.type = "data",
                        SameIncarnations(e, m), Acks(e, m)
                 PROVE  m.aru_nonce = out_nonce_digest[e][ItSlot(m.aru)]
    BY DEF AcksProve, Proves
  <2>2. AckRight(e, m) BY <2>1, InvHas
  <2>3. QED BY <2>1, <2>2 DEF AckRight, SameIncarnations, Acks, DigestAt
<1>2. QED BY <1>1, ItInvariant, PTL

\* With the domains of its variables, KeyExchangeGoesOn is inductive by itself.
ExchangesGoOn ==
    DOMAIN dh_pkt = ItEnds /\ DOMAIN send_dh = ItEnds /\ KeyExchangeGoesOn

\* Whoever gets a key exchange packet queues its event, too.
LEMMA ExchangeQueued ==
    ASSUME ExchangesGoOn, NEW e \in ItEnds, NEW pkt, NEW on, pkt # NoPkt => on,
           dh_pkt' = [dh_pkt EXCEPT ![e] = pkt], send_dh' = [send_dh EXCEPT ![e] = on]
    PROVE  ExchangesGoOn'
<1>1. DOMAIN dh_pkt = ItEnds /\ DOMAIN send_dh = ItEnds BY DEF ExchangesGoOn
<1>2. DOMAIN dh_pkt' = ItEnds /\ DOMAIN send_dh' = ItEnds BY <1>1
<1>3. ASSUME NEW d \in ItEnds, dh_pkt'[d] # NoPkt PROVE send_dh'[d]
  <2>1. CASE d = e
    <3>1. dh_pkt'[d] = pkt /\ send_dh'[d] = on BY <1>1, <2>1, Zenon
    <3>2. QED BY <1>3, <3>1, Zenon
  <2>2. CASE d # e
    <3>1. dh_pkt'[d] = dh_pkt[d] /\ send_dh'[d] = send_dh[d] BY <1>1, <2>2, Zenon
    <3>2. QED BY <1>3, <3>1, Zenon DEF ExchangesGoOn, KeyExchangeGoesOn
  <2>3. QED BY <2>1, <2>2, Zenon
<1>4. QED BY <1>2, <1>3, Zenon DEF ExchangesGoOn, KeyExchangeGoesOn

\* Whoever gives it up may leave the event queued.
LEMMA ExchangeOver ==
    ASSUME ExchangesGoOn, NEW e \in ItEnds,
           dh_pkt' = [dh_pkt EXCEPT ![e] = NoPkt], send_dh' = send_dh
    PROVE  ExchangesGoOn'
<1>1. DOMAIN dh_pkt = ItEnds /\ DOMAIN send_dh = ItEnds BY DEF ExchangesGoOn
<1>2. DOMAIN dh_pkt' = ItEnds /\ DOMAIN send_dh' = ItEnds BY <1>1
<1>3. ASSUME NEW d \in ItEnds, dh_pkt'[d] # NoPkt PROVE send_dh'[d]
  <2>1. dh_pkt'[d] = dh_pkt[d]
    <3>1. d # e BY <1>1, <1>3, Zenon
    <3>2. QED BY <1>1, <3>1, Zenon
  <2>2. QED BY <1>3, <2>1, Zenon DEF ExchangesGoOn, KeyExchangeGoesOn
<1>4. QED BY <1>2, <1>3, Zenon DEF ExchangesGoOn, KeyExchangeGoesOn

\* The event takes itself off the queue only when there is nothing to send.
LEMMA ExchangeSent ==
    ASSUME ExchangesGoOn, NEW e \in ItEnds,
           send_dh' = [send_dh EXCEPT ![e] = dh_pkt[e] # NoPkt], dh_pkt' = dh_pkt
    PROVE  ExchangesGoOn'
<1>1. DOMAIN dh_pkt = ItEnds /\ DOMAIN send_dh = ItEnds BY DEF ExchangesGoOn
<1>2. DOMAIN dh_pkt' = ItEnds /\ DOMAIN send_dh' = ItEnds BY <1>1
<1>3. ASSUME NEW d \in ItEnds, dh_pkt'[d] # NoPkt PROVE send_dh'[d]
  <2>1. CASE d = e
    <3>1. send_dh'[d] = (dh_pkt[e] # NoPkt) BY <1>1, <2>1, Zenon
    <3>2. QED BY <1>3, <2>1, <3>1, Zenon
  <2>2. CASE d # e
    <3>1. send_dh'[d] = send_dh[d] BY <1>1, <2>2, Zenon
    <3>2. QED BY <1>3, <3>1, Zenon DEF ExchangesGoOn, KeyExchangeGoesOn
  <2>3. QED BY <2>1, <2>2, Zenon
<1>4. QED BY <1>2, <1>3, Zenon DEF ExchangesGoOn, KeyExchangeGoesOn

\* What touches neither the packet nor the event changes nothing.
LEMMA ExchangeStays ==
    ASSUME ExchangesGoOn, dh_pkt' = dh_pkt, send_dh' = send_dh
    PROVE  ExchangesGoOn'
BY Zenon DEF ExchangesGoOn, KeyExchangeGoesOn

\* An exchange of keys that is not over goes on: its event is queued (Process_DH_IT,
\* 1010), also when an exchange is begun because the other end has started again.
THEOREM KeyExchangesGoOn == ItSpec => []KeyExchangeGoesOn
<1>1. ASSUME ItInit PROVE ExchangesGoOn
  <2>1. DOMAIN dh_pkt = ItEnds /\ DOMAIN send_dh = ItEnds BY <1>1 DEF ItInit
  <2>2. ASSUME NEW e \in ItEnds, dh_pkt[e] # NoPkt PROVE send_dh[e]
    <3>1. /\ dh_pkt[e] = IF it_conf.Crypto THEN [type |-> "dh", inc |-> 1, aru_inc |-> 0] ELSE NoPkt
          /\ send_dh[e] = it_conf.Crypto
      BY <1>1, Zenon DEF ItInit
    <3>2. QED BY <2>2, <3>1, Zenon
  <2>3. QED BY <2>1, <2>2, Zenon DEF ExchangesGoOn, KeyExchangeGoesOn
<1>2. ASSUME ExchangesGoOn, ItNext PROVE ExchangesGoOn'
  <2>1. PICK e \in ItEnds : ItEndNext(e) BY <1>2 DEF ItNext
  <2>2. CASE ForwardIT(e) \/ AckITTimeout(e) \/ ReliableITTimeout(e) \/ HandleITRetransm(e)
             \/ PingITTimeout(e)
    <3>1. dh_pkt' = dh_pkt /\ send_dh' = send_dh
      BY <2>2 DEF ForwardIT, AckITTimeout, ReliableITTimeout, HandleITRetransm, PingITTimeout, dhVars
    <3>2. QED BY <1>2, <3>1, ExchangeStays
  <2>3. CASE SendITDH(e)
    <3>1. send_dh' = [send_dh EXCEPT ![e] = dh_pkt[e] # NoPkt] /\ dh_pkt' = dh_pkt
      BY <2>3, Zenon DEF SendITDH
    <3>2. QED BY <1>2, <3>1, ExchangeSent
  <2>4. ASSUME NEW m \in it_net[e],
               ProcessITPacket(e, m) \/ ProcessITPing(e, m) \/ ProcessITDH(e, m) \/ DropIT(e, m)
        PROVE  ExchangesGoOn'
    <3>1. CASE ProcessITPacket(e, m) \/ ProcessITPing(e, m)
      <4>1. dh_pkt' = [dh_pkt EXCEPT ![e] = NoPkt] /\ send_dh' = send_dh
        BY <3>1 DEF ProcessITPacket, ProcessITPing, Established
      <4>2. QED BY <1>2, <4>1, ExchangeOver
    <3>2. CASE ProcessITDH(e, m)
      <4>1. CASE dh_key[e] = NoKey
        <5>1. dh_pkt' = dh_pkt /\ send_dh' = send_dh BY <3>2, <4>1 DEF ProcessITDH
        <5>2. QED BY <1>2, <5>1, ExchangeStays
      <4>2. CASE dh_key[e] # NoKey
        <5>1. /\ dh_pkt' = [dh_pkt EXCEPT ![e] = KeyExchange(e)]
              /\ send_dh' = [send_dh EXCEPT ![e] = TRUE]
          BY <3>2, <4>2 DEF ProcessITDH
        <5>2. QED BY <1>2, <5>1, ExchangeQueued
      <4>3. QED BY <4>1, <4>2
    <3>3. CASE DropIT(e, m)
      <4>1. dh_pkt' = dh_pkt /\ send_dh' = send_dh BY <3>3 DEF DropIT, dhVars
      <4>2. QED BY <1>2, <4>1, ExchangeStays
    <3>4. QED BY <2>4, <3>1, <3>2, <3>3
  <2>5. CASE Restart(e)
    <3>1. PICK pkt, on : /\ dh_pkt' = [dh_pkt EXCEPT ![e] = pkt]
                         /\ send_dh' = [send_dh EXCEPT ![e] = on] /\ (pkt # NoPkt => on)
      <4>1. PICK first, on : /\ first = [KeyExchange(e) EXCEPT !.inc = @ + 1, !.aru_inc = 0]
                             /\ on = it_conf.Crypto
        OBVIOUS
      <4>2. /\ dh_pkt' = [dh_pkt EXCEPT ![e] = IF on THEN first ELSE NoPkt]
            /\ send_dh' = [send_dh EXCEPT ![e] = on]
        BY <2>5, <4>1, Zenon DEF Restart
      <4>3. (IF on THEN first ELSE NoPkt) # NoPkt => on BY Zenon
      <4>4. QED BY <4>2, <4>3, Zenon
    <3>2. QED BY <1>2, <3>1, ExchangeQueued, Zenon
  <2>6. QED BY <2>1, <2>2, <2>3, <2>4, <2>5, Zenon DEF ItEndNext
<1>3. ASSUME ExchangesGoOn, UNCHANGED itVars PROVE ExchangesGoOn'
  <2>1. dh_pkt' = dh_pkt /\ send_dh' = send_dh BY <1>3 DEF itVars, dhVars
  <2>2. QED BY <1>3, <2>1, ExchangeStays
<1>4. ExchangesGoOn => KeyExchangeGoesOn BY DEF ExchangesGoOn
<1>5. QED BY <1>1, <1>2, <1>3, <1>4, PTL DEF ItSpec

-----------------------------------------------------------------------------
(* The stream of fragments *)

\* What is packed after fragment p, when the messages have so many fragments.
NextFragment(fragments, p) ==
    IF p[2] = fragments[p[1]] THEN <<p[1] + 1, 1>> ELSE <<p[1], p[2] + 1>>

\* The fragments of the messages behind message b, in the order in which they are packed.
FragmentsFrom(fragments, b) ==
    LET stream[n \in Nat] == IF n = 0 THEN <<b + 1, 1>> ELSE NextFragment(fragments, stream[n - 1])
    IN  stream

\* Message and index of a fragment.
Places == (Nat \ {0}) \X (Nat \ {0})

\* A property of 0 that goes on from each number to the next one is one of all numbers.
LEMMA AllNats ==
    ASSUME NEW S, 0 \in S, \A n \in Nat : n \in S => n + 1 \in S
    PROVE  \A n \in Nat : n \in S
<1> DEFINE T == {n \in Nat : n \notin S}
<1>1. SUFFICES ASSUME T # {} PROVE FALSE OBVIOUS
<1>2. PICK x \in T : \A y \in T : x <= y
  <2>1. T \subseteq Nat OBVIOUS
  <2> HIDE DEF T
  <2>2. QED BY <1>1, <2>1, LeastNat
<1>3. x \in Nat /\ x # 0 /\ x \notin S OBVIOUS
<1>4. x - 1 \in Nat /\ x - 1 \notin T BY <1>2, <1>3
<1>5. x - 1 \in S /\ x - 1 + 1 = x BY <1>3, <1>4
<1>6. QED BY <1>3, <1>4, <1>5

\* The same up to a number.
LEMMA AllUntil ==
    ASSUME NEW k \in Nat, NEW S, 0 \in S, \A n \in 0..(k - 1) : n \in S => n + 1 \in S
    PROVE  \A n \in 0..k : n \in S
<1> DEFINE T == {n \in Nat : n \in 0..k => n \in S}
<1>1. 0 \in T OBVIOUS
<1>2. ASSUME NEW n \in Nat, n \in T PROVE n + 1 \in T
  <2>1. SUFFICES ASSUME n + 1 \in 0..k PROVE n + 1 \in S OBVIOUS
  <2>2. n \in 0..k /\ n \in 0..(k - 1) BY <2>1
  <2>3. QED BY <1>2, <2>2
<1>3. \A n \in Nat : n \in T
  <2> HIDE DEF T
  <2>1. QED BY <1>1, <1>2, AllNats
<1>4. QED BY <1>3

\* The next fragment is one.
LEMMA NextPlace ==
    ASSUME NEW fragments, NEW p \in Places
    PROVE  /\ NextFragment(fragments, p) \in Places
           /\ p[1] \in Nat \ {0} /\ p[2] \in Nat \ {0}
BY DEF NextFragment, Places

\* The first fragments of the stream, and n others.
Begins(fragments, b, n, g) ==
    /\ g \in [0..n -> Places] /\ g[0] = <<b + 1, 1>>
    /\ \A i \in 1..n : g[i] = NextFragment(fragments, g[i - 1])

\* There are such fragments.
LEMMA BeginsExist ==
    ASSUME NEW fragments, NEW b \in Nat
    PROVE  \A n \in Nat : \E g : Begins(fragments, b, n, g)
<1> DEFINE Far == {n \in Nat : \E g : Begins(fragments, b, n, g)}
<1>1. 0 \in Far
  <2>1. <<b + 1, 1>> \in Places BY DEF Places
  <2>2. Begins(fragments, b, 0, [i \in 0..0 |-> <<b + 1, 1>>]) BY <2>1 DEF Begins
  <2>3. QED BY <2>2
<1>2. ASSUME NEW n \in Nat, n \in Far PROVE n + 1 \in Far
  <2>1. PICK g : Begins(fragments, b, n, g) BY <1>2
  <2> DEFINE h == [i \in 0..(n + 1) |-> IF i = n + 1 THEN NextFragment(fragments, g[n]) ELSE g[i]]
  <2>2. /\ g \in [0..n -> Places] /\ g[0] = <<b + 1, 1>>
        /\ \A i \in 1..n : g[i] = NextFragment(fragments, g[i - 1])
    BY <2>1 DEF Begins
  <2>3. n \in 0..n /\ \A i \in 0..(n + 1) : i # n + 1 => i \in 0..n OBVIOUS
  <2>4. NextFragment(fragments, g[n]) \in Places BY <2>2, <2>3, NextPlace
  <2>5. h \in [0..(n + 1) -> Places] BY <2>2, <2>3, <2>4
  <2>6. h[0] = g[0] OBVIOUS
  <2>7. ASSUME NEW i \in 1..(n + 1) PROVE h[i] = NextFragment(fragments, h[i - 1])
    <3>1. i - 1 \in 0..(n + 1) /\ i - 1 # n + 1 /\ i \in 0..(n + 1) OBVIOUS
    <3>2. h[i - 1] = g[i - 1] BY <3>1
    <3>3. CASE i = n + 1
      <4>1. i - 1 = n BY <3>3
      <4>2. h[i] = NextFragment(fragments, g[n]) BY <3>1, <3>3
      <4>3. QED BY <3>2, <4>1, <4>2
    <3>4. CASE i # n + 1
      <4>1. i \in 1..n BY <3>4
      <4>2. h[i] = g[i] BY <3>1, <3>4
      <4>3. QED BY <2>2, <3>2, <4>1, <4>2
    <3>5. QED BY <3>3, <3>4
  <2> HIDE DEF h
  <2>8. Begins(fragments, b, n + 1, h) BY <2>2, <2>5, <2>6, <2>7 DEF Begins
  <2>9. QED BY <2>8
<1>3. \A n \in Nat : n \in Far
  <2> HIDE DEF Far
  <2>1. QED BY <1>1, <1>2, AllNats
<1>4. QED BY <1>3

\* They are the same ones, however many there are.
LEMMA BeginsAgree ==
    ASSUME NEW fragments, NEW b \in Nat, NEW m \in Nat, NEW n \in Nat, m <= n,
           NEW g, NEW h, Begins(fragments, b, m, g), Begins(fragments, b, n, h)
    PROVE  \A i \in 0..m : g[i] = h[i]
<1> DEFINE S == {i \in 0..m : g[i] = h[i]}
<1>1. 0 \in S
  <2>1. g[0] = h[0] BY DEF Begins
  <2>2. QED BY <2>1
<1>2. ASSUME NEW i \in 0..(m - 1), i \in S PROVE i + 1 \in S
  <2>1. i + 1 \in 1..m /\ i + 1 \in 1..n /\ i + 1 - 1 = i /\ i + 1 \in 0..m OBVIOUS
  <2>2. g[i + 1] = NextFragment(fragments, g[i]) BY <2>1 DEF Begins
  <2>3. h[i + 1] = NextFragment(fragments, h[i]) BY <2>1 DEF Begins
  <2>4. QED BY <1>2, <2>1, <2>2, <2>3
<1>3. \A i \in 0..m : i \in S
  <2> HIDE DEF S
  <2>1. QED BY <1>1, <1>2, AllUntil
<1>4. QED BY <1>3

\* So there is the whole stream.
LEMMA StreamHas ==
    ASSUME NEW fragments, NEW b \in Nat
    PROVE  /\ \A n \in Nat : FragmentsFrom(fragments, b)[n] \in Places
           /\ FragmentsFrom(fragments, b)[0] = <<b + 1, 1>>
           /\ \A n \in Nat : FragmentsFrom(fragments, b)[n + 1]
                                = NextFragment(fragments, FragmentsFrom(fragments, b)[n])
<1> DEFINE first(n) == CHOOSE g : Begins(fragments, b, n, g)
           f == [n \in Nat |-> first(n)[n]]
           Whole(s) == s = [n \in Nat |-> IF n = 0 THEN <<b + 1, 1>>
                                          ELSE NextFragment(fragments, s[n - 1])]
           stream == CHOOSE s : Whole(s)
<1>1. ASSUME NEW n \in Nat PROVE Begins(fragments, b, n, first(n))
  <2>1. \E g : Begins(fragments, b, n, g) BY BeginsExist
  <2>2. QED BY <2>1
<1> HIDE DEF first
<1>2. f[0] = <<b + 1, 1>>
  <2>1. f[0] = first(0)[0] OBVIOUS
  <2>2. QED BY <1>1, <2>1 DEF Begins
<1>3. ASSUME NEW n \in Nat, n # 0 PROVE f[n] = NextFragment(fragments, f[n - 1])
  <2>1. n - 1 \in Nat /\ n - 1 <= n /\ n - 1 \in 0..(n - 1) /\ n \in 1..n BY <1>3
  <2>2. first(n)[n] = NextFragment(fragments, first(n)[n - 1])
    <3>1. Begins(fragments, b, n, first(n)) BY <1>1
    <3>2. QED BY <2>1, <3>1 DEF Begins
  <2>3. first(n - 1)[n - 1] = first(n)[n - 1]
    <3>1. Begins(fragments, b, n, first(n)) /\ Begins(fragments, b, n - 1, first(n - 1))
      BY <1>1, <2>1
    <3>2. QED BY <2>1, <3>1, BeginsAgree
  <2>4. f[n] = first(n)[n] /\ f[n - 1] = first(n - 1)[n - 1] BY <2>1
  <2>5. QED BY <2>2, <2>3, <2>4
<1>4. Whole(f)
  <2>1. f = [n \in Nat |-> f[n]] OBVIOUS
  <2> HIDE DEF f
  <2>2. QED BY <1>2, <1>3, <2>1
<1>5. FragmentsFrom(fragments, b) = stream BY DEF FragmentsFrom
<1>6. Whole(stream)
  <2> HIDE DEF Whole, f
  <2>1. QED BY <1>4
<1> HIDE DEF stream, f
<1>7. stream[0] = <<b + 1, 1>> BY <1>6
<1>8. ASSUME NEW n \in Nat PROVE stream[n + 1] = NextFragment(fragments, stream[n])
  <2>1. n + 1 \in Nat /\ n + 1 # 0 /\ n + 1 - 1 = n OBVIOUS
  <2>2. stream[n + 1] = IF n + 1 = 0 THEN <<b + 1, 1>> ELSE NextFragment(fragments, stream[n + 1 - 1])
    BY <1>6, <2>1
  <2>3. QED BY <2>1, <2>2
<1> HIDE DEF Whole
<1>9. \A n \in Nat : stream[n] \in Places
  <2> DEFINE S == {n \in Nat : stream[n] \in Places}
  <2>1. 0 \in S BY <1>7 DEF Places
  <2>2. \A n \in Nat : n \in S => n + 1 \in S BY <1>8, NextPlace
  <2>3. \A n \in Nat : n \in S
    <3> HIDE DEF S
    <3>1. QED BY <2>1, <2>2, AllNats
  <2>4. QED BY <2>3
<1>10. QED BY <1>5, <1>7, <1>8, <1>9

\* What packet n of end e holds when message b is the last one before the stream.
Nth(e, b, n) == FragmentsFrom(Fragments[e], b)[n - 1]

\* It begins with the first fragment of the next message, and goes on from each to the next.
LEMMA NthHas ==
    ASSUME NEW e, NEW b \in Nat
    PROVE  /\ Nth(e, b, 1) = <<b + 1, 1>>
           /\ \A n \in Nat \ {0} :
                 /\ Nth(e, b, n) \in Places
                 /\ Nth(e, b, n)[1] \in Nat \ {0} /\ Nth(e, b, n)[2] \in Nat \ {0}
                 /\ Nth(e, b, n) = <<Nth(e, b, n)[1], Nth(e, b, n)[2]>>
                 /\ Nth(e, b, n + 1) = NextFragment(Fragments[e], Nth(e, b, n))
<1>1. Nth(e, b, 1) = <<b + 1, 1>> BY StreamHas DEF Nth
<1>2. ASSUME NEW n \in Nat \ {0}
      PROVE  /\ Nth(e, b, n) \in Places
             /\ Nth(e, b, n + 1) = NextFragment(Fragments[e], Nth(e, b, n))
  <2>1. n - 1 \in Nat /\ n - 1 + 1 = n /\ n + 1 - 1 = n OBVIOUS
  <2>2. /\ FragmentsFrom(Fragments[e], b)[n - 1] \in Places
        /\ FragmentsFrom(Fragments[e], b)[n - 1 + 1]
              = NextFragment(Fragments[e], FragmentsFrom(Fragments[e], b)[n - 1])
    BY <2>1, StreamHas
  <2>3. QED BY <2>1, <2>2 DEF Nth
<1>3. \A p \in Places : p[1] \in Nat \ {0} /\ p[2] \in Nat \ {0} /\ p = <<p[1], p[2]>>
  BY DEF Places
<1>4. QED BY <1>1, <1>2, <1>3

\* The next one is of the same message or the first one of the next message.
LEMMA NthNext ==
    ASSUME NEW e, NEW b \in Nat, NEW n \in Nat \ {0}
    PROVE  \/ /\ Nth(e, b, n + 1)[1] = Nth(e, b, n)[1]
              /\ Nth(e, b, n + 1)[2] = Nth(e, b, n)[2] + 1
           \/ Nth(e, b, n + 1)[1] = Nth(e, b, n)[1] + 1 /\ Nth(e, b, n + 1)[2] = 1
<1>1. Nth(e, b, n + 1) = NextFragment(Fragments[e], Nth(e, b, n)) BY NthHas
<1>2. QED BY <1>1 DEF NextFragment

\* Later fragments are of the same message or of a later one.
LEMMA NthGrows ==
    ASSUME NEW e, NEW b \in Nat, NEW c \in Nat \ {0}, NEW d \in Nat \ {0}, c <= d
    PROVE  Nth(e, b, c)[1] <= Nth(e, b, d)[1]
<1> DEFINE S == {i \in Nat : Nth(e, b, c)[1] <= Nth(e, b, c + i)[1]}
<1>1. \A i \in Nat : c + i \in Nat \ {0} /\ c + (i + 1) = (c + i) + 1 /\ c + 0 = c OBVIOUS
<1>2. \A n \in Nat \ {0} : Nth(e, b, n)[1] \in Nat BY NthHas
<1>3. 0 \in S BY <1>1, <1>2
<1>4. ASSUME NEW i \in Nat, i \in S PROVE i + 1 \in S
  <2>1. Nth(e, b, c)[1] <= Nth(e, b, c + i)[1] BY <1>4
  <2>2. \/ Nth(e, b, (c + i) + 1)[1] = Nth(e, b, c + i)[1]
        \/ Nth(e, b, (c + i) + 1)[1] = Nth(e, b, c + i)[1] + 1
    BY <1>1, NthNext
  <2>3. Nth(e, b, c)[1] \in Nat /\ Nth(e, b, c + i)[1] \in Nat BY <1>1, <1>2
  <2>4. Nth(e, b, c)[1] <= Nth(e, b, (c + i) + 1)[1] BY <2>1, <2>2, <2>3
  <2>5. QED BY <1>1, <2>4
<1>5. \A i \in Nat : i \in S
  <2> HIDE DEF S
  <2>1. QED BY <1>3, <1>4, AllNats
<1>6. d - c \in Nat /\ c + (d - c) = d OBVIOUS
<1>7. QED BY <1>5, <1>6

\* From a message on the stream is the one that begins there.
LEMMA NthAgain ==
    ASSUME NEW e, NEW a \in Nat, NEW b \in Nat, NEW c \in Nat \ {0}, Nth(e, b, c) = <<a + 1, 1>>
    PROVE  \A n \in Nat \ {0} : Nth(e, a, n) = Nth(e, b, c + n - 1)
<1> DEFINE S == {i \in Nat : Nth(e, a, i + 1) = Nth(e, b, c + i)}
<1>1. \A i \in Nat : c + i \in Nat \ {0} /\ c + (i + 1) = (c + i) + 1 /\ c + 0 = c /\ i + 1 \in Nat \ {0}
  OBVIOUS
<1>2. 0 \in S
  <2>1. Nth(e, a, 1) = <<a + 1, 1>> BY NthHas
  <2>2. QED BY <1>1, <2>1
<1>3. ASSUME NEW i \in Nat, i \in S PROVE i + 1 \in S
  <2>1. Nth(e, a, i + 1) = Nth(e, b, c + i) BY <1>3
  <2>2. PICK x, y : x = i + 1 /\ y = c + i OBVIOUS
  <2>3. x \in Nat \ {0} /\ y \in Nat \ {0} BY <1>1, <2>2
  <2>a. \A n \in Nat \ {0} : Nth(e, a, n + 1) = NextFragment(Fragments[e], Nth(e, a, n)) BY NthHas
  <2>4. Nth(e, a, x + 1) = NextFragment(Fragments[e], Nth(e, a, x)) BY <2>3, <2>a
  <2>5. Nth(e, b, y + 1) = NextFragment(Fragments[e], Nth(e, b, y)) BY <2>3, NthHas
  <2>6. Nth(e, a, x) = Nth(e, b, y) BY <2>1, <2>2
  <2>7. Nth(e, a, x + 1) = Nth(e, b, y + 1) BY <2>4, <2>5, <2>6
  <2>8. Nth(e, a, (i + 1) + 1) = Nth(e, b, c + (i + 1)) BY <1>1, <2>2, <2>7
  <2>9. QED BY <2>8
<1>4. \A i \in Nat : i \in S
  <2> HIDE DEF S
  <2>1. QED BY <1>2, <1>3, AllNats
<1>5. ASSUME NEW n \in Nat \ {0} PROVE Nth(e, a, n) = Nth(e, b, c + n - 1)
  <2>1. n - 1 \in Nat /\ n - 1 + 1 = n /\ c + (n - 1) = c + n - 1 OBVIOUS
  <2>2. Nth(e, a, n - 1 + 1) = Nth(e, b, c + (n - 1)) BY <1>4, <2>1
  <2>3. QED BY <2>1, <2>2
<1>6. QED BY <1>5

\* A fragment of message x is among those from c to before d.
HasOneOf(e, b, c, d, x) == \E n \in c..(d - 1) : Nth(e, b, n)[1] = x

\* No message is left out.
LEMMA NthReaches ==
    ASSUME NEW e, NEW b \in Nat, NEW c \in Nat \ {0}, NEW d \in Nat \ {0}, c <= d,
           NEW x \in Nat, Nth(e, b, c)[1] <= x, x < Nth(e, b, d)[1]
    PROVE  HasOneOf(e, b, c, d, x)
<1> DEFINE T == {n \in c..d : x < Nth(e, b, n)[1]}
<1>1. \A n \in Nat \ {0} : Nth(e, b, n)[1] \in Nat BY NthHas
<1>2. PICK n \in T : \A y \in T : n <= y
  <2>1. T \subseteq Nat /\ d \in T OBVIOUS
  <2> HIDE DEF T
  <2>2. QED BY <2>1, LeastNat
<1>3. n \in c..d /\ x < Nth(e, b, n)[1] OBVIOUS
<1>4. n # c BY <1>1, <1>3
<1>5. n - 1 \in c..(d - 1) /\ n - 1 \in c..d /\ n - 1 \in Nat \ {0} /\ n - 1 + 1 = n BY <1>3, <1>4
<1>6. n - 1 \notin T
  <2> HIDE DEF T
  <2>1. QED BY <1>2, <1>5
<1>7. ~(x < Nth(e, b, n - 1)[1]) BY <1>5, <1>6
<1>8. Nth(e, b, n)[1] = Nth(e, b, n - 1)[1] \/ Nth(e, b, n)[1] = Nth(e, b, n - 1)[1] + 1
  BY <1>5, NthNext
<1>9. Nth(e, b, n)[1] \in Nat /\ Nth(e, b, n - 1)[1] \in Nat BY <1>1, <1>5
<1>10. Nth(e, b, n - 1)[1] = x BY <1>3, <1>7, <1>8, <1>9
<1>11. QED BY <1>5, <1>10 DEF HasOneOf

\* From fragment c on no message begins among k, and the indices go up.
NoneBegins(e, b, c, k) == \A n \in c..(c + k) : Nth(e, b, n)[2] # 1
IndexGrows(e, b, c, k) == \A i \in 0..k : Nth(e, b, c + i)[2] = Nth(e, b, c)[2] + i

\* As long as no message begins they do.
LEMMA NthIndices ==
    ASSUME NEW e, NEW b \in Nat, NEW c \in Nat \ {0}, NEW k \in Nat, NoneBegins(e, b, c, k)
    PROVE  IndexGrows(e, b, c, k)
<1> DEFINE S == {i \in 0..k : Nth(e, b, c + i)[2] = Nth(e, b, c)[2] + i}
<1>1. Nth(e, b, c)[2] \in Nat BY NthHas
<1>2. 0 \in S
  <2>1. c + 0 = c /\ Nth(e, b, c)[2] + 0 = Nth(e, b, c)[2] BY <1>1
  <2>2. QED BY <2>1
<1>3. ASSUME NEW i \in 0..(k - 1), i \in S PROVE i + 1 \in S
  <2>1. c + i \in Nat \ {0} /\ c + (i + 1) = (c + i) + 1 /\ (c + i) + 1 \in c..(c + k) /\ i + 1 \in 0..k
    OBVIOUS
  <2>2. Nth(e, b, (c + i) + 1)[2] = Nth(e, b, c + i)[2] + 1 BY <2>1, NthNext DEF NoneBegins
  <2>3. Nth(e, b, c + i)[2] = Nth(e, b, c)[2] + i BY <1>3
  <2>4. Nth(e, b, (c + i) + 1)[2] = Nth(e, b, c)[2] + (i + 1) BY <1>1, <2>2, <2>3
  <2>5. QED BY <2>1, <2>4
<1>4. \A i \in 0..k : i \in S
  <2> HIDE DEF S
  <2>1. QED BY <1>2, <1>3, AllUntil
<1>5. QED BY <1>4 DEF IndexGrows

\* From number h on the packets hold the fragments j, j + 1, ... of message m, and then the
\* first one of the next message.
RunsOn(e, b, h, m, j, k) ==
    \A i \in 0..k : Nth(e, b, h + i) = IF i = Fragments[e][m] - j + 1 THEN <<m + 1, 1>>
                                       ELSE <<m, j + i>>

\* The fragments from one of a message on, and what comes behind the last of them.
LEMMA NthPacked ==
    ASSUME NEW e, NEW b \in Nat, NEW h \in Nat \ {0}, NEW m \in Nat, NEW j \in Nat,
           Nth(e, b, h) = <<m, j>>, Fragments[e][m] \in Nat, j <= Fragments[e][m],
           NEW k \in Nat, k <= Fragments[e][m] - j + 1
    PROVE  RunsOn(e, b, h, m, j, k)
<1> DEFINE total == Fragments[e][m]
           At(i) == IF i = total - j + 1 THEN <<m + 1, 1>> ELSE <<m, j + i>>
           S == {i \in 0..k : Nth(e, b, h + i) = At(i)}
<1>1. 0 \in S
  <2>1. h + 0 = h /\ j + 0 = j /\ 0 # total - j + 1 OBVIOUS
  <2>2. QED BY <2>1
<1>2. ASSUME NEW i \in 0..(k - 1), i \in S PROVE i + 1 \in S
  <2>1. /\ h + i \in Nat \ {0} /\ h + (i + 1) = (h + i) + 1 /\ i + 1 \in 0..k
        /\ i # total - j + 1 /\ j + (i + 1) = (j + i) + 1
        /\ j + i = total <=> i + 1 = total - j + 1
    OBVIOUS
  <2>2. Nth(e, b, (h + i) + 1) = NextFragment(Fragments[e], Nth(e, b, h + i))
    <3>1. PICK y : y = h + i OBVIOUS
    <3>2. y \in Nat \ {0} BY <2>1, <3>1
    <3>3. Nth(e, b, y + 1) = NextFragment(Fragments[e], Nth(e, b, y)) BY <3>2, NthHas
    <3>4. QED BY <3>1, <3>3
  <2>3. Nth(e, b, h + i) = <<m, j + i>> BY <1>2, <2>1
  <2>4. NextFragment(Fragments[e], <<m, j + i>>) =
           IF j + i = total THEN <<m + 1, 1>> ELSE <<m, (j + i) + 1>>
    BY DEF NextFragment
  <2> HIDE DEF total
  <2>5. Nth(e, b, h + (i + 1)) = At(i + 1) BY <2>1, <2>2, <2>3, <2>4
  <2>6. QED BY <2>1, <2>5
<1>3. \A i \in 0..k : i \in S
  <2> HIDE DEF S
  <2>1. QED BY <1>1, <1>2, AllUntil
<1>4. QED BY <1>3 DEF RunsOn

\* The stream is the same one as long as the configuration is.
LEMMA StreamStays ==
    ASSUME it_conf' = it_conf
    PROVE  /\ Fragments' = Fragments
           /\ \A e, b, n : Nth(e, b, n)' = Nth(e, b, n)
<1>1. Fragments' = Fragments BY DEF Fragments
<1>2. QED BY <1>1 DEF Nth, FragmentsFrom, NextFragment

-----------------------------------------------------------------------------
(* What the steps over a list compute *)

\* Functions for n steps, each of which makes one member of S from another.
StepsOf(n, S) == [S \X (1..n) -> S]

\* f goes these steps from x on.
Walks(n, S, x, F, f) == f \in [0..n -> S] /\ f[0] = x /\ \A i \in 1..n : f[i] = F[<<f[i - 1], i>>]

\* There is a function of n steps, each from what the one before has made.
LEMMA StepsExist ==
    ASSUME NEW n \in Nat, NEW S, NEW x \in S, NEW F \in StepsOf(n, S)
    PROVE  \E f : Walks(n, S, x, F, f)
<1> DEFINE Makes(k, g) == g[0] = x /\ \A i \in 1..k : g[i] = F[<<g[i - 1], i>>]
           Far == {k \in 0..n : \E g \in [0..k -> S] : Makes(k, g)}
<1>1. 0 \in Far
  <2>1. PICK g : g = [i \in 0..0 |-> x] OBVIOUS
  <2>2. g \in [0..0 -> S] /\ Makes(0, g) BY <2>1
  <2>3. QED BY <2>2
<1>2. ASSUME NEW k \in 0..(n - 1), k \in Far PROVE k + 1 \in Far
  <2>1. PICK g \in [0..k -> S] : Makes(k, g) BY <1>2
  <2> DEFINE y == F[<<g[k], k + 1>>]
             h == [i \in 0..(k + 1) |-> IF i = k + 1 THEN y ELSE g[i]]
  <2>2. k \in 0..k /\ k + 1 \in 1..n /\ k + 1 \in 0..n /\ \A i \in 0..(k + 1) : i # k + 1 => i \in 0..k
    OBVIOUS
  <2>3. y \in S
    <3>1. <<g[k], k + 1>> \in S \X (1..n) BY <2>2
    <3>2. F \in [S \X (1..n) -> S] BY DEF StepsOf
    <3>3. QED BY <3>1, <3>2
  <2>4. y = F[<<g[k], k + 1>>] OBVIOUS
  <2> HIDE DEF y
  <2>5. h \in [0..(k + 1) -> S] BY <2>2, <2>3
  <2>6. h[0] = x
    <3>1. 0 \in 0..(k + 1) /\ 0 # k + 1 OBVIOUS
    <3>2. QED BY <2>1, <3>1
  <2>7. ASSUME NEW i \in 1..(k + 1) PROVE h[i] = F[<<h[i - 1], i>>]
    <3>1. i - 1 \in 0..(k + 1) /\ i - 1 # k + 1 /\ i \in 0..(k + 1) OBVIOUS
    <3>2. h[i - 1] = g[i - 1] BY <3>1
    <3>3. CASE i = k + 1
      <4>1. i - 1 = k BY <3>3
      <4>2. h[i] = y BY <3>1, <3>3
      <4>3. QED BY <2>4, <3>2, <3>3, <4>1, <4>2
    <3>4. CASE i # k + 1
      <4>1. i \in 1..k BY <3>4
      <4>2. h[i] = g[i] BY <3>1, <3>4
      <4>3. g[i] = F[<<g[i - 1], i>>] BY <2>1, <4>1
      <4>4. QED BY <3>2, <4>2, <4>3
    <3>5. QED BY <3>3, <3>4
  <2> HIDE DEF h
  <2>8. Makes(k + 1, h) BY <2>6, <2>7
  <2>9. QED BY <2>2, <2>5, <2>8
<1>3. n \in Far
  <2>1. \A k \in 0..n : k \in Far
    <3> HIDE DEF Far
    <3>1. QED BY <1>1, <1>2, AllUntil
  <2>2. n \in 0..n OBVIOUS
  <2> HIDE DEF Far
  <2>3. QED BY <2>1, <2>2
<1>4. QED BY <1>3 DEF Walks

\* What an end has put together: the fragments so far, the messages and whether it was wrong.
Gatherings == [parts : Seq(Pkt), got : Seq(Seq(Nat)), bad : BOOLEAN]

\* It is of the stream behind message b of end s, of which fragment n is the next one: got is
\* the messages behind b, in order, and parts the first fragments of the message behind them.
Gathered(s, b, n, acc) ==
    /\ acc \in Gatherings /\ acc.bad = FALSE
    /\ Nth(s, b, n) = <<b + Len(acc.got) + 1, Len(acc.parts) + 1>>
    /\ \A j \in 1..Len(acc.parts) : acc.parts[j][1] = b + Len(acc.got) + 1
    /\ \A i \in 1..Len(acc.got) : Len(acc.got[i]) = Fragments[s][b + i]
    /\ \A i \in 1..Len(acc.got) : \A j \in DOMAIN acc.got[i] : acc.got[i][j] = b + i

\* The fragment in a packet, without the nonce.
Fragment(p) == <<p[1], p[2]>>

\* The messages that fragments are of.
Firsts(parts) == [i \in DOMAIN parts |-> parts[i][1]]

\* The packet is the last one of parts, which are of message, and Build_Message_From_Fragments_IT
\* delivers message when it is complete.
Builds(e, acc, packet, parts, message) ==
    /\ parts \in Seq(Pkt) /\ Len(parts) = Len(acc.parts) + 1 /\ Len(acc.parts) \in Nat
    /\ \A j \in 1..Len(acc.parts) : parts[j] = acc.parts[j]
    /\ parts[Len(parts)] = packet
    /\ message \in Seq(Nat) /\ \A j \in 1..Len(parts) : message[j] = parts[j][1]
    /\ DOMAIN message = 1..Len(parts)
    /\ Build(e, acc, packet) \in Gatherings
    /\ /\ packet[2] = Len(parts)
       /\ Fragments[Other(e)][parts[1][1]] = Fragments[Other(e)][packet[1]]
       => Build(e, acc, packet) =
             IF packet[2] = Fragments[Other(e)][packet[1]]
             THEN [parts |-> <<>>, got |-> Append(acc.got, message), bad |-> acc.bad]
             ELSE [parts |-> parts, got |-> acc.got, bad |-> acc.bad]

\* What Build_Message_From_Fragments_IT does with a packet.
LEMMA BuildHas ==
    ASSUME NEW e, NEW acc \in Gatherings, NEW packet \in Pkt,
           NEW parts, parts = Append(acc.parts, packet), NEW message, message = Firsts(parts)
    PROVE  Builds(e, acc, packet, parts, message)
<1>1. acc.parts \in Seq(Pkt) /\ acc.got \in Seq(Seq(Nat)) /\ acc.bad \in BOOLEAN BY DEF Gatherings
<1>2. /\ parts \in Seq(Pkt) /\ Len(parts) = Len(acc.parts) + 1 /\ Len(acc.parts) \in Nat
      /\ \A j \in 1..Len(acc.parts) : parts[j] = acc.parts[j]
      /\ parts[Len(parts)] = packet
  BY <1>1
<1>3. DOMAIN parts = 1..Len(parts) /\ \A j \in 1..Len(parts) : parts[j] \in Pkt BY <1>2, PacketsAre
<1>4. \A j \in 1..Len(parts) : parts[j][1] \in Nat BY <1>3, PacketHas
<1>5. message \in Seq(Nat) /\ DOMAIN message = 1..Len(parts) /\ \A j \in 1..Len(parts) : message[j] = parts[j][1]
  <2>1. message = [j \in 1..Len(parts) |-> parts[j][1]] BY <1>3 DEF Firsts
  <2>2. Len(parts) \in Nat BY <1>2
  <2>3. message \in [1..Len(parts) -> Nat] BY <1>4, <2>1
  <2>4. QED BY <2>1, <2>2, <2>3
<1>6. acc = [parts |-> acc.parts, got |-> acc.got, bad |-> acc.bad] BY DEF Gatherings
<1>7. Append(acc.got, message) \in Seq(Seq(Nat)) BY <1>1, <1>5
<1> DEFINE total(p) == Fragments[Other(e)][p[1]]
<1>8. Build(e, acc, packet) =
         IF packet[2] # Len(parts) \/ total(parts[1]) # total(packet)
         THEN [acc EXCEPT !.bad = TRUE]
         ELSE IF packet[2] = total(packet)
              THEN [acc EXCEPT !.parts = <<>>, !.got = Append(@, message)]
              ELSE [acc EXCEPT !.parts = parts]
  BY DEF Build, Firsts
<1> HIDE DEF total
<1>9. /\ [acc EXCEPT !.parts = parts] = [parts |-> parts, got |-> acc.got, bad |-> acc.bad]
      /\ [acc EXCEPT !.parts = <<>>, !.got = Append(@, message)]
            = [parts |-> <<>>, got |-> Append(acc.got, message), bad |-> acc.bad]
  <2>1. PICK p, g, d, more, none :
           p = acc.parts /\ g = acc.got /\ d = acc.bad /\ more = Append(acc.got, message) /\ none = <<>>
    OBVIOUS
  <2>2. acc = [parts |-> p, got |-> g, bad |-> d] BY <1>6, <2>1
  <2>3. [acc EXCEPT !.parts = parts] = [parts |-> parts, got |-> g, bad |-> d] BY ONLY <2>2
  <2>4. [acc EXCEPT !.parts = none] = [parts |-> none, got |-> g, bad |-> d] BY ONLY <2>2
  <2>a. PICK x : x = [acc EXCEPT !.parts = none] OBVIOUS
  <2>b. x = [parts |-> none, got |-> g, bad |-> d] BY <2>4, <2>a
  <2>c. [x EXCEPT !.got = more] = [parts |-> none, got |-> more, bad |-> d] BY ONLY <2>b
  <2>5. [[acc EXCEPT !.parts = none] EXCEPT !.got = more] = [parts |-> none, got |-> more, bad |-> d]
    BY ONLY <2>a, <2>c
  <2>6. [acc EXCEPT !.parts = none, !.got = more] = [[acc EXCEPT !.parts = none] EXCEPT !.got = more]
    BY ONLY <2>2
  <2>7. [acc EXCEPT !.parts = <<>>, !.got = Append(@, message)] = [acc EXCEPT !.parts = none, !.got = more]
    BY ONLY <2>1
  <2>8. QED BY <2>1, <2>3, <2>5, <2>6, <2>7
<1>10. /\ [acc EXCEPT !.bad = TRUE] \in Gatherings
       /\ [parts |-> parts, got |-> acc.got, bad |-> acc.bad] \in Gatherings
       /\ [parts |-> <<>>, got |-> Append(acc.got, message), bad |-> acc.bad] \in Gatherings
  <2>1. acc \in Gatherings OBVIOUS
  <2>2. [acc EXCEPT !.bad = TRUE] \in Gatherings BY ONLY <2>1 DEF Gatherings
  <2>3. PICK more : more = Append(acc.got, message) OBVIOUS
  <2>4. more \in Seq(Seq(Nat)) /\ <<>> \in Seq(Pkt) BY <1>7, <2>3
  <2>5. [parts |-> parts, got |-> acc.got, bad |-> acc.bad] \in Gatherings BY ONLY <1>1, <1>2 DEF Gatherings
  <2>6. [parts |-> <<>>, got |-> more, bad |-> acc.bad] \in Gatherings BY ONLY <1>1, <2>4 DEF Gatherings
  <2>7. QED BY <2>2, <2>3, <2>5, <2>6
<1>11. Build(e, acc, packet) \in Gatherings BY <1>8, <1>9, <1>10
<1>12. packet[2] = Len(parts) /\ total(parts[1]) = total(packet)
          => Build(e, acc, packet) =
                IF packet[2] = total(packet)
                THEN [parts |-> <<>>, got |-> Append(acc.got, message), bad |-> acc.bad]
                ELSE [parts |-> parts, got |-> acc.got, bad |-> acc.bad]
  BY <1>8, <1>9
<1>13. QED BY <1>2, <1>5, <1>11, <1>12 DEF total, Builds

\* The next packet of the stream makes the gathering one of the stream again.
LEMMA BuildGathers ==
    ASSUME NEW e, NEW s, s = Other(e), NEW b \in Nat, NEW n \in Nat \ {0}, NEW acc,
           Gathered(s, b, n, acc), NEW packet \in Pkt, Fragment(packet) = Nth(s, b, n)
    PROVE  Gathered(s, b, n + 1, Build(e, acc, packet))
<1>1. /\ acc \in Gatherings /\ acc.bad = FALSE
      /\ Nth(s, b, n) = <<b + Len(acc.got) + 1, Len(acc.parts) + 1>>
      /\ \A j \in 1..Len(acc.parts) : acc.parts[j][1] = b + Len(acc.got) + 1
      /\ \A i \in 1..Len(acc.got) : Len(acc.got[i]) = Fragments[s][b + i]
      /\ \A i \in 1..Len(acc.got) : \A j \in DOMAIN acc.got[i] : acc.got[i][j] = b + i
  BY DEF Gathered
<1>2. PICK parts : parts = Append(acc.parts, packet) OBVIOUS
<1>3. PICK message : message = Firsts(parts) OBVIOUS
<1>4. PICK top, next : top = b + Len(acc.got) + 1 /\ next = Len(acc.parts) + 1 OBVIOUS
<1>5. /\ parts \in Seq(Pkt) /\ Len(parts) = next /\ Len(acc.parts) \in Nat
      /\ \A j \in 1..Len(acc.parts) : parts[j] = acc.parts[j]
      /\ parts[next] = packet
      /\ message \in Seq(Nat) /\ \A j \in 1..next : message[j] = parts[j][1]
      /\ DOMAIN message = 1..next
      /\ Build(e, acc, packet) \in Gatherings
      /\ /\ packet[2] = next /\ Fragments[s][parts[1][1]] = Fragments[s][packet[1]]
         => Build(e, acc, packet) =
               IF packet[2] = Fragments[s][packet[1]]
               THEN [parts |-> <<>>, got |-> Append(acc.got, message), bad |-> acc.bad]
               ELSE [parts |-> parts, got |-> acc.got, bad |-> acc.bad]
  <2>1. /\ parts \in Seq(Pkt) /\ Len(parts) = Len(acc.parts) + 1 /\ Len(acc.parts) \in Nat
        /\ \A j \in 1..Len(acc.parts) : parts[j] = acc.parts[j]
        /\ parts[Len(parts)] = packet
        /\ message \in Seq(Nat) /\ \A j \in 1..Len(parts) : message[j] = parts[j][1]
        /\ DOMAIN message = 1..Len(parts)
        /\ Build(e, acc, packet) \in Gatherings
        /\ /\ packet[2] = Len(parts)
           /\ Fragments[Other(e)][parts[1][1]] = Fragments[Other(e)][packet[1]]
           => Build(e, acc, packet) =
                 IF packet[2] = Fragments[Other(e)][packet[1]]
                 THEN [parts |-> <<>>, got |-> Append(acc.got, message), bad |-> acc.bad]
                 ELSE [parts |-> parts, got |-> acc.got, bad |-> acc.bad]
    <3>1. Builds(e, acc, packet, parts, message)
      BY ONLY <1>1, <1>2, <1>3, packet \in Pkt, BuildHas
    <3>2. QED BY ONLY <3>1 DEF Builds
  <2>2. Len(parts) = next BY <1>4, <2>1
  <2>3. QED BY <2>1, <2>2
<1>6. packet[1] = top /\ packet[2] = next BY <1>1, <1>4 DEF Fragment
<1>7. \A j \in 1..next : parts[j][1] = top
  <2>1. ASSUME NEW j \in 1..next PROVE parts[j][1] = top
    <3>1. CASE j = next BY <1>5, <1>6, <3>1
    <3>2. CASE j # next
      <4>1. j \in 1..Len(acc.parts) BY <1>4, <1>5, <3>2
      <4>2. QED BY <1>1, <1>4, <1>5, <4>1
    <3>3. QED BY <3>1, <3>2
  <2>2. QED BY <2>1
<1>8. 1 \in 1..next BY <1>4, <1>5
<1>9. Build(e, acc, packet) =
         IF next = Fragments[s][top]
         THEN [parts |-> <<>>, got |-> Append(acc.got, message), bad |-> FALSE]
         ELSE [parts |-> parts, got |-> acc.got, bad |-> FALSE]
  BY <1>1, <1>5, <1>6, <1>7, <1>8
<1>10. Nth(s, b, n + 1) = IF next = Fragments[s][top] THEN <<top + 1, 1>> ELSE <<top, next + 1>>
  <2>1. Nth(s, b, n + 1) = NextFragment(Fragments[s], Nth(s, b, n)) BY NthHas
  <2>2. Nth(s, b, n) = <<top, next>> BY <1>1, <1>4
  <2>3. QED BY <2>1, <2>2 DEF NextFragment
<1>11. acc.got \in Seq(Seq(Nat)) /\ Len(acc.got) \in Nat BY <1>1 DEF Gatherings
<1>12. CASE next = Fragments[s][top]
  <2>1. PICK got : got = Append(acc.got, message) OBVIOUS
  <2>2. Build(e, acc, packet) = [parts |-> <<>>, got |-> got, bad |-> FALSE] BY <1>9, <1>12, <2>1
  <2>3. /\ Len(got) = Len(acc.got) + 1 /\ got[Len(acc.got) + 1] = message
        /\ \A i \in 1..Len(acc.got) : got[i] = acc.got[i]
    BY <1>5, <1>11, <2>1
  <2>4. ASSUME NEW i \in 1..Len(got), NEW j \in DOMAIN got[i] PROVE got[i][j] = b + i
    <3>1. CASE i = Len(acc.got) + 1
      <4>1. j \in 1..next BY <1>5, <2>3, <2>4, <3>1
      <4>2. got[i][j] = top BY <1>5, <1>7, <2>3, <3>1, <4>1
      <4>3. QED BY <1>4, <1>11, <3>1, <4>2
    <3>2. CASE i # Len(acc.got) + 1
      <4>1. i \in 1..Len(acc.got) BY <1>11, <2>3, <3>2
      <4>2. QED BY <1>1, <2>3, <2>4, <4>1
    <3>3. QED BY <3>1, <3>2
  <2>c. ASSUME NEW i \in 1..Len(got) PROVE Len(got[i]) = Fragments[s][b + i]
    <3>1. CASE i = Len(acc.got) + 1
      <4>1. Len(message) = next BY <1>4, <1>5
      <4>2. b + i = top BY <1>4, <1>11, <3>1
      <4>3. QED BY <1>12, <2>3, <3>1, <4>1, <4>2
    <3>2. CASE i # Len(acc.got) + 1
      <4>1. i \in 1..Len(acc.got) BY <1>11, <2>3, <3>2
      <4>2. QED BY <1>1, <2>3, <4>1
    <3>3. QED BY <3>1, <3>2
  <2>a. Len(<<>>) + 1 = 1 OBVIOUS
  <2>b. b + Len(got) + 1 = top + 1 BY <1>4, <1>11, <2>3
  <2>5. Nth(s, b, n + 1) = <<b + Len(got) + 1, Len(<<>>) + 1>> BY <1>10, <1>12, <2>a, <2>b
  <2>6. \A j \in 1..Len(<<>>) : FALSE OBVIOUS
  <2>7. QED BY <1>5, <2>2, <2>4, <2>5, <2>6, <2>c DEF Gathered
<1>13. CASE next # Fragments[s][top]
  <2>1. Build(e, acc, packet) = [parts |-> parts, got |-> acc.got, bad |-> FALSE] BY <1>9, <1>13
  <2>2. Nth(s, b, n + 1) = <<b + Len(acc.got) + 1, Len(parts) + 1>> BY <1>4, <1>5, <1>10, <1>13
  <2>3. \A j \in 1..Len(parts) : parts[j][1] = b + Len(acc.got) + 1 BY <1>4, <1>5, <1>7
  <2>4. QED BY <1>1, <1>5, <2>1, <2>2, <2>3 DEF Gathered
<1>14. QED BY <1>12, <1>13

\* So do the next packets.
LEMMA BuiltGathers ==
    ASSUME NEW e, NEW s, s = Other(e), NEW b \in Nat, NEW n \in Nat \ {0},
           Gathered(s, b, n, [parts |-> in_message[e], got |-> it_got[e], bad |-> blacklisted[e]]),
           NEW packets \in Seq(Pkt),
           \A i \in 1..Len(packets) : Fragment(packets[i]) = Nth(s, b, n + i - 1)
    PROVE  Gathered(s, b, n + Len(packets), Built(e, packets))
<1> DEFINE k == Len(packets)
           first == [parts |-> in_message[e], got |-> it_got[e], bad |-> blacklisted[e]]
           F == [q \in Gatherings \X (1..k) |-> Build(e, q[1], packets[q[2]])]
           Whole(f) == f = [i \in 0..k |-> IF i = 0 THEN first ELSE Build(e, f[i - 1], packets[i])]
           built == CHOOSE f : Whole(f)
<1>1. k \in Nat /\ \A i \in 1..k : packets[i] \in Pkt BY PacketsAre
<1>2. first \in Gatherings BY DEF Gathered
<1>3. Built(e, packets) = built[k] BY DEF Built
<1> HIDE DEF k, first
<1>4. F \in StepsOf(k, Gatherings)
  <2>1. ASSUME NEW acc \in Gatherings, NEW i \in 1..k PROVE Build(e, acc, packets[i]) \in Gatherings
    <3>1. PICK parts : parts = Append(acc.parts, packets[i]) OBVIOUS
    <3>2. PICK message : message = Firsts(parts) OBVIOUS
    <3>3. packets[i] \in Pkt BY <1>1
    <3>4. Builds(e, acc, packets[i], parts, message) BY <3>1, <3>2, <3>3, BuildHas
    <3>5. QED BY <3>4 DEF Builds
  <2>2. QED BY <2>1 DEF StepsOf
<1>5. \E f : Whole(f)
  <2>1. \A acc \in Gatherings, i \in 1..k : F[<<acc, i>>] = Build(e, acc, packets[i]) OBVIOUS
  <2> HIDE DEF F, Whole, built
  <2>a. PICK f : Walks(k, Gatherings, first, F, f)
    <3>1. k \in Nat BY <1>1
    <3>2. QED BY ONLY <3>1, <1>2, <1>4, StepsExist
  <2>2. f \in [0..k -> Gatherings] /\ f[0] = first /\ \A i \in 1..k : f[i] = F[<<f[i - 1], i>>]
    BY <2>a DEF Walks
  <2>3. ASSUME NEW i \in 0..k
        PROVE  f[i] = IF i = 0 THEN first ELSE Build(e, f[i - 1], packets[i])
    <3>1. /\ i = 0 => f[i] = first
          /\ i # 0 => f[i] = F[<<f[i - 1], i>>]
      <4>1. i = 0 \/ i \in 1..k BY <1>1
      <4>2. QED BY <2>2, <4>1
    <3>2. i # 0 => i \in 1..k /\ f[i - 1] \in Gatherings BY <1>1, <2>2
    <3>3. QED BY <2>1, <3>1, <3>2
  <2>4. f = [i \in 0..k |-> f[i]] BY <2>2
  <2>5. Whole(f) BY <2>3, <2>4 DEF Whole
  <2>6. QED BY <2>5
<1>6. Whole(built)
  <2> HIDE DEF Whole
  <2>1. QED BY <1>5
<1> HIDE DEF F, built
<1>7. built[0] = first BY <1>1, <1>6
<1>8. \A i \in 1..k : built[i] = Build(e, built[i - 1], packets[i]) BY <1>1, <1>6
<1> HIDE DEF Whole
<1> DEFINE T == {i \in 0..k : Gathered(s, b, n + i, built[i])}
<1>9. 0 \in T
  <2>1. n + 0 = n /\ 0 \in 0..k BY <1>1
  <2>2. Gathered(s, b, n, first) BY DEF first
  <2>3. QED BY <1>7, <2>1, <2>2
<1>10. ASSUME NEW i \in 0..(k - 1), i \in T PROVE i + 1 \in T
  <2>1. /\ i + 1 \in 1..k /\ i + 1 \in 0..k /\ (i + 1) - 1 = i /\ n + (i + 1) = (n + i) + 1
        /\ n + i \in Nat \ {0} /\ n + (i + 1) - 1 = n + i
    BY <1>1
  <2>2. built[i + 1] = Build(e, built[i], packets[i + 1]) BY <1>8, <2>1
  <2>3. Fragment(packets[i + 1]) = Nth(s, b, n + i) BY <2>1 DEF k
  <2>4. Gathered(s, b, n + i, built[i]) BY <1>10
  <2>5. PICK packet, x, acc : packet = packets[i + 1] /\ x = n + i /\ acc = built[i] OBVIOUS
  <2>6. packet \in Pkt /\ x \in Nat \ {0} BY <1>1, <2>1, <2>5
  <2>7. Gathered(s, b, x + 1, Build(e, acc, packet)) BY <2>3, <2>4, <2>5, <2>6, BuildGathers
  <2>8. Gathered(s, b, n + (i + 1), built[i + 1]) BY <2>1, <2>2, <2>5, <2>7
  <2>9. QED BY <2>1, <2>8
<1>11. \A i \in 0..k : i \in T
  <2> HIDE DEF T
  <2>1. QED BY <1>1, <1>9, <1>10, AllUntil
<1>12. Gathered(s, b, n + k, built[k]) BY <1>1, <1>11
<1>13. QED BY <1>3, <1>12 DEF k

\* The list counts up from the number after a.
CountsUp(list, a) == list \in Seq(Nat) /\ \A i \in 1..Len(list) : list[i] = a + i

\* Of the numbers from low to high the set has the ones after a.
HasAbove(set, low, high, a) == \A x \in low..high : x \in set <=> a < x

\* What of a list that counts up is in a set that has the last ones of its numbers.
LEMMA AmongHas ==
    ASSUME NEW list, NEW a \in Nat, CountsUp(list, a), NEW k \in 0..Len(list), NEW set,
           HasAbove(set, a + 1, a + Len(list), a + k)
    PROVE  CountsUp(Among(list, set), a + k) /\ Len(Among(list, set)) = Len(list) - k
<1> DEFINE n == Len(list)
           F == [q \in Seq(Nat) \X (1..n) |->
                    IF list[q[2]] \in set THEN Append(q[1], list[q[2]]) ELSE q[1]]
           Whole(f) == f = [i \in 0..n |-> IF i = 0 THEN <<>>
                               ELSE IF list[i] \in set THEN Append(f[i - 1], list[i]) ELSE f[i - 1]]
           kept == CHOOSE f : Whole(f)
           Right(i, v) == /\ v \in Seq(Nat) /\ Len(v) = (IF i <= k THEN 0 ELSE i - k)
                          /\ \A j \in 1..Len(v) : v[j] = a + k + j
<1>a. list \in Seq(Nat) /\ \A i \in 1..Len(list) : list[i] = a + i BY DEF CountsUp
<1>b. \A x \in (a + 1)..(a + Len(list)) : x \in set <=> a + k < x BY DEF HasAbove
<1>1. n \in Nat /\ k \in 0..n /\ \A i \in 1..n : list[i] = a + i /\ list[i] \in Nat BY <1>a
<1>2. Among(list, set) = kept[n] BY DEF Among
<1>3. \A i \in 1..n : list[i] \in set <=> k < i
  <2>1. ASSUME NEW i \in 1..n PROVE list[i] \in set <=> k < i
    <3>1. list[i] = a + i /\ a + i \in (a + 1)..(a + Len(list)) BY <1>a
    <3>2. a + i \in set <=> a + k < a + i BY <1>b, <3>1
    <3>3. QED BY <1>1, <3>1, <3>2
  <2>2. QED BY <2>1
<1> HIDE DEF n
<1>4. F \in StepsOf(n, Seq(Nat))
  <2>1. ASSUME NEW v \in Seq(Nat), NEW i \in 1..n PROVE Append(v, list[i]) \in Seq(Nat) BY <1>1
  <2>2. QED BY <2>1 DEF StepsOf
<1>5. \E f : Whole(f)
  <2>1. \A v \in Seq(Nat), i \in 1..n :
           F[<<v, i>>] = IF list[i] \in set THEN Append(v, list[i]) ELSE v
    OBVIOUS
  <2>2. <<>> \in Seq(Nat) OBVIOUS
  <2> HIDE DEF F, Whole, kept, Right
  <2>a. PICK f : Walks(n, Seq(Nat), <<>>, F, f)
    <3>1. n \in Nat BY <1>1
    <3>2. QED BY ONLY <3>1, <1>4, <2>2, StepsExist
  <2>3. f \in [0..n -> Seq(Nat)] /\ f[0] = <<>> /\ \A i \in 1..n : f[i] = F[<<f[i - 1], i>>]
    BY <2>a DEF Walks
  <2>4. ASSUME NEW i \in 0..n
        PROVE  f[i] = IF i = 0 THEN <<>>
                      ELSE IF list[i] \in set THEN Append(f[i - 1], list[i]) ELSE f[i - 1]
    <3>1. /\ i = 0 => f[i] = <<>>
          /\ i # 0 => f[i] = F[<<f[i - 1], i>>]
      <4>1. i = 0 \/ i \in 1..n BY <1>1
      <4>2. QED BY <2>3, <4>1
    <3>2. i # 0 => i \in 1..n /\ f[i - 1] \in Seq(Nat) BY <1>1, <2>3
    <3>3. QED BY <2>1, <3>1, <3>2
  <2>5. f = [i \in 0..n |-> f[i]] BY <2>3
  <2>6. Whole(f) BY <2>4, <2>5 DEF Whole
  <2>7. QED BY <2>6
<1>6. Whole(kept)
  <2> HIDE DEF Whole
  <2>1. QED BY <1>5
<1> HIDE DEF F, kept
<1>7. kept[0] = <<>> BY <1>1, <1>6
<1>8. ASSUME NEW i \in 1..n
      PROVE  kept[i] = IF list[i] \in set THEN Append(kept[i - 1], list[i]) ELSE kept[i - 1]
  <2>1. i \in 0..n /\ i # 0 BY <1>1
  <2>2. kept = [q \in 0..n |-> IF q = 0 THEN <<>>
                               ELSE IF list[q] \in set THEN Append(kept[q - 1], list[q]) ELSE kept[q - 1]]
    BY ONLY <1>6 DEF Whole
  <2>3. QED BY ONLY <2>1, <2>2
<1> HIDE DEF Whole
<1> DEFINE T == {i \in 0..n : Right(i, kept[i])}
<1>9. 0 \in T
  <2>1. 0 \in 0..n /\ 0 <= k BY <1>1
  <2>2. <<>> \in Seq(Nat) /\ Len(<<>>) = 0 /\ \A j \in 1..Len(<<>>) : FALSE OBVIOUS
  <2>3. Right(0, <<>>) BY <2>1, <2>2
  <2> HIDE DEF Right
  <2>4. QED BY <1>7, <2>1, <2>3
<1>10. ASSUME NEW i \in 0..(n - 1), i \in T PROVE i + 1 \in T
  <2>1. i + 1 \in 1..n /\ i + 1 \in 0..n /\ (i + 1) - 1 = i BY <1>1
  <2>2. PICK v : v = kept[i] OBVIOUS
  <2>3. /\ v \in Seq(Nat) /\ Len(v) = (IF i <= k THEN 0 ELSE i - k)
        /\ \A j \in 1..Len(v) : v[j] = a + k + j
    BY <1>10, <2>2
  <2>4. kept[i + 1] = IF k < i + 1 THEN Append(v, a + (i + 1)) ELSE v
    BY <1>1, <1>3, <1>8, <2>1, <2>2
  <2>5. CASE k < i + 1
    <3>1. PICK w : w = Append(v, a + (i + 1)) OBVIOUS
    <3>2. Len(v) = i - k /\ k \in Nat /\ i \in Nat BY <1>1, <2>3, <2>5
    <3>3. a + (i + 1) \in Nat BY <3>2
    <3>4. /\ w \in Seq(Nat) /\ Len(w) = Len(v) + 1 /\ w[Len(v) + 1] = a + (i + 1)
          /\ \A j \in 1..Len(v) : w[j] = v[j]
      BY <2>3, <3>1, <3>3
    <3>5. ASSUME NEW j \in 1..Len(w) PROVE w[j] = a + k + j
      <4>1. CASE j = Len(v) + 1
        <5>1. w[j] = a + (i + 1) BY <3>4, <4>1
        <5>2. QED BY <3>2, <4>1, <5>1
      <4>2. CASE j # Len(v) + 1
        <5>1. j \in 1..Len(v) BY <3>2, <3>4, <4>2
        <5>2. QED BY <2>3, <3>4, <5>1
      <4>3. QED BY <4>1, <4>2
    <3>6. Len(w) = (IF i + 1 <= k THEN 0 ELSE (i + 1) - k) BY <2>5, <3>2, <3>4
    <3>7. Right(i + 1, w) BY <3>4, <3>5, <3>6
    <3>8. kept[i + 1] = w BY <2>4, <2>5, <3>1
    <3> HIDE DEF Right
    <3>9. QED BY <2>1, <3>7, <3>8
  <2>6. CASE ~(k < i + 1)
    <3>1. kept[i + 1] = v BY <2>4, <2>6
    <3>2. i <= k /\ i + 1 <= k BY <1>1, <2>6
    <3>3. Right(i + 1, v) BY <2>3, <3>2
    <3> HIDE DEF Right
    <3>4. QED BY <2>1, <3>1, <3>3
  <2>7. QED BY <2>5, <2>6
<1>11. \A i \in 0..n : i \in T
  <2> HIDE DEF T
  <2>1. QED BY <1>1, <1>9, <1>10, AllUntil
<1>12. Right(n, kept[n]) BY <1>1, <1>11
<1>13. Len(kept[n]) = n - k BY <1>1, <1>12
<1>14. PICK again : again = kept[n] OBVIOUS
<1>15. again \in Seq(Nat) /\ \A i \in 1..Len(again) : again[i] = a + k + i BY <1>12, <1>14
<1>16. CountsUp(again, a + k) /\ Len(again) = n - k BY <1>13, <1>14, <1>15 DEF CountsUp
<1>17. QED BY <1>2, <1>14, <1>16 DEF n

-----------------------------------------------------------------------------
(* The sending end and the stream *)

\* What is packed next: what waits outside the window, or the next message.
Coming(message, next) == IF message = NoMessage THEN <<next + 1, 1>> ELSE message

\* The packets of w, from number tail on, are of the stream behind message b, and so is what
\* comes next; what waits is of the last message.
OnStream(e, b, tail, w, message, next) ==
    /\ \A i \in 1..Len(w) : Fragment(w[i]) = Nth(e, b, tail + i - 1)
    /\ Nth(e, b, tail + Len(w)) = Coming(message, next)
    /\ message # NoMessage => message[1] = next

\* The last message before those that were sent to this incarnation of the neighbour.
Start(e) == next_message[e] - Len(it_sent[e])

\* These are the messages behind it, and the window is of their stream.
Streams(e) ==
    /\ it_sent[e] \in Seq(Nat) /\ Start(e) \in Nat
    /\ \A i \in 1..Len(it_sent[e]) : it_sent[e][i] = Start(e) + i
    /\ OnStream(e, Start(e), out_tail[e], outgoing[e], out_message[e], next_message[e])

\* The window is of the stream after a step that makes these values.
LEMMA StreamsBecome ==
    ASSUME it_conf' = it_conf, NEW e, NEW b \in Nat, NEW tail, NEW w, NEW message, NEW next \in Nat,
           NEW sent \in Seq(Nat), next - Len(sent) = b, \A i \in 1..Len(sent) : sent[i] = b + i,
           out_tail'[e] = tail, outgoing'[e] = w, out_message'[e] = message,
           next_message'[e] = next, it_sent'[e] = sent, OnStream(e, b, tail, w, message, next)
    PROVE  Streams(e)' /\ Start(e)' = b
<1>1. Start(e)' = b BY DEF Start
<1>2. Fragments' = Fragments BY StreamStays
<1>3. /\ \A i \in 1..Len(w) : Fragment(w[i]) = Nth(e, b, tail + i - 1)
      /\ Nth(e, b, tail + Len(w)) = Coming(message, next)
      /\ message # NoMessage => message[1] = next
  BY DEF OnStream
<1>4. OnStream(e, Start(e), out_tail[e], outgoing[e], out_message[e], next_message[e])'
  BY <1>1, <1>2, <1>3 DEF OnStream, Nth
<1>5. QED BY <1>1, <1>4 DEF Streams

\* What is packed continues the stream.
LEMMA PackStreams ==
    ASSUME OutTypes, NEW e \in ItEnds, NEW tail \in Nat \ {0},
           NEW window \in Seq(Pkt), Len(window) <= MAX_SEND_ON_LINK, NEW digest, NEW inc \in Nat,
           NEW message \in {NoMessage} \cup Nat \X Nat,
           message # NoMessage =>
              /\ message[1] \in 1..Len(Fragments[e])
              /\ message[2] \in 1..Fragments[e][message[1]],
           Pack(e, tail, window, digest, message, inc),
           NEW b \in Nat, NEW next \in Nat, OnStream(e, b, tail, window, message, next)
    PROVE  OnStream(e, b, tail, outgoing'[e], out_message'[e], next)
<1>1. it_conf \in Configurations BY DEF OutTypes
<1>2. PICK new \in Seq(Pkt), rest \in {NoMessage} \cup Nat \X Nat :
         Adds(e, tail, window, digest, message, new, rest)
  BY <1>1, PackHas
<1>3. PICK w : w = window \o new OBVIOUS
<1>4. outgoing'[e] = w /\ out_message'[e] = rest /\ Packed(Fragments[e], window, message, new, rest)
  BY <1>2, <1>3 DEF Adds, OutTypes
<1>5. PICK h, k : h = tail + Len(window) /\ k = Len(new) OBVIOUS
<1>6. /\ Len(w) = Len(window) + k /\ Len(window) \in Nat /\ k \in Nat /\ h \in Nat \ {0}
      /\ \A i \in 1..Len(window) : w[i] = window[i]
      /\ \A i \in 1..k : w[Len(window) + i] = new[i]
  BY <1>3, <1>5, ConcatItems
<1>7. /\ \A i \in 1..Len(window) : Fragment(window[i]) = Nth(e, b, tail + i - 1)
      /\ Nth(e, b, h) = Coming(message, next)
      /\ message # NoMessage => message[1] = next
  BY <1>5 DEF OnStream
<1>8. SUFFICES /\ \A i \in 1..k : Fragment(new[i]) = Nth(e, b, h + i - 1)
               /\ Nth(e, b, h + k) = Coming(rest, next)
               /\ rest # NoMessage => rest[1] = next
  <2>1. ASSUME NEW i \in 1..Len(w), \A j \in 1..k : Fragment(new[j]) = Nth(e, b, h + j - 1)
        PROVE  Fragment(w[i]) = Nth(e, b, tail + i - 1)
    <3>1. CASE i <= Len(window)
      <4>1. i \in 1..Len(window) BY <1>6, <3>1
      <4>2. QED BY <1>6, <1>7, <4>1
    <3>2. CASE ~(i <= Len(window))
      <4>1. PICK j : j = i - Len(window) OBVIOUS
      <4>2. j \in 1..k /\ i = Len(window) + j /\ h + j - 1 = tail + i - 1 BY <1>5, <1>6, <3>2, <4>1
      <4>3. Fragment(new[j]) = Nth(e, b, h + j - 1) BY <2>1, <4>2
      <4>4. QED BY <1>6, <4>2, <4>3
    <3>3. QED BY <3>1, <3>2
  <2>2. h + k = tail + Len(w) BY <1>5, <1>6
  <2>3. QED BY <1>4, <2>1, <2>2 DEF OnStream
<1>9. CASE message = NoMessage
  <2>1. k = 0
    <3>1. \A i \in 1..k : FALSE BY <1>4, <1>5, <1>9 DEF Packed
    <3>2. QED BY <1>6, <3>1
  <2>2. rest = NoMessage BY <1>4, <1>9 DEF Packed
  <2>3. h + k = h /\ \A i \in 1..k : FALSE BY <1>6, <2>1
  <2>4. QED BY <1>7, <1>9, <2>2, <2>3
<1>10. CASE message # NoMessage
  <2>1. PICK m, j : m = message[1] /\ j = message[2] OBVIOUS
  <2>2. message = <<m, j>> /\ m \in Nat /\ j \in Nat BY <1>10, <2>1
  <2>3. PICK total : total = Fragments[e][m] OBVIOUS
  <2>4. m \in 1..Len(Fragments[e]) /\ j \in 1..total BY <1>10, <2>1, <2>3
  <2>5. total \in Nat /\ j <= total BY <1>1, <2>3, <2>4, FragmentsHave
  <2>6. \A i \in 1..k : new[i][1] = m /\ new[i][2] = j + i - 1 BY <1>4, <1>5, <2>1 DEF Packed
  <2>b. ASSUME Nth(e, b, h) = <<m, j>>, k <= total - j + 1
        PROVE  \A i \in 0..k : Nth(e, b, h + i) = IF i = total - j + 1 THEN <<m + 1, 1>> ELSE <<m, j + i>>
    <3>1. Fragments[e][m] \in Nat /\ j <= Fragments[e][m] /\ k <= Fragments[e][m] - j + 1
      BY <2>3, <2>5, <2>b
    <3>2. RunsOn(e, b, h, m, j, k) BY ONLY <1>6, <2>2, <2>b, <3>1, b \in Nat, NthPacked
    <3>3. QED BY <2>3, <3>2 DEF RunsOn
  <2>7. CASE rest = NoMessage
    <3>1. k = total - j + 1 BY <1>4, <1>5, <1>10, <2>1, <2>3, <2>7 DEF Packed
    <3>2. Nth(e, b, h) = <<m, j>> BY <1>7, <1>10, <2>2 DEF Coming
    <3>3. k <= total - j + 1 BY <1>6, <3>1
    <3>4. \A i \in 0..k : Nth(e, b, h + i) = IF i = total - j + 1 THEN <<m + 1, 1>> ELSE <<m, j + i>>
      BY <2>b, <3>2, <3>3
    <3>5. Nth(e, b, h + k) = <<m + 1, 1>>
      <4>1. k \in 0..k BY <1>6
      <4>2. QED BY <3>1, <3>4, <4>1
    <3>6. ASSUME NEW i \in 1..k PROVE Fragment(new[i]) = Nth(e, b, h + i - 1)
      <4>1. /\ i - 1 \in 0..k /\ i - 1 # total - j + 1 /\ h + (i - 1) = h + i - 1
            /\ j + (i - 1) = j + i - 1
        BY <1>6, <2>2, <2>5, <3>1
      <4>2. Nth(e, b, h + (i - 1)) = <<m, j + (i - 1)>> BY <3>4, <4>1
      <4>3. QED BY <2>6, <4>1, <4>2 DEF Fragment
    <3>7. m = next BY <1>7, <1>10, <2>1
    <3>8. QED BY <2>7, <3>5, <3>6, <3>7 DEF Coming
  <2>8. CASE rest # NoMessage
    <3>1. rest[1] = m /\ rest[2] = j + k /\ rest[2] \in 1..Fragments[e][rest[1]]
      BY <1>4, <1>5, <2>1, <2>8 DEF Packed
    <3>2. rest = <<rest[1], rest[2]>> BY <2>8
    <3>3. j + k <= total BY <2>3, <3>1
    <3>4. k <= total - j + 1 /\ \A i \in 0..k : i # total - j + 1
      BY <1>6, <2>2, <2>5, <3>3
    <3>5. Nth(e, b, h) = <<m, j>> BY <1>7, <1>10, <2>2 DEF Coming
    <3>6. \A i \in 0..k : Nth(e, b, h + i) = IF i = total - j + 1 THEN <<m + 1, 1>> ELSE <<m, j + i>>
      BY <2>b, <3>4, <3>5
    <3>7. \A i \in 0..k : Nth(e, b, h + i) = <<m, j + i>> BY <3>4, <3>6
    <3>8. Nth(e, b, h + k) = rest
      <4>1. k \in 0..k BY <1>6
      <4>2. Nth(e, b, h + k) = <<m, j + k>> BY <3>7, <4>1
      <4>3. QED BY <3>1, <3>2, <4>2
    <3>9. ASSUME NEW i \in 1..k PROVE Fragment(new[i]) = Nth(e, b, h + i - 1)
      <4>1. /\ i - 1 \in 0..k /\ h + (i - 1) = h + i - 1 /\ j + (i - 1) = j + i - 1
        BY <1>6, <2>2
      <4>2. Nth(e, b, h + (i - 1)) = <<m, j + (i - 1)>> BY <3>7, <4>1
      <4>3. QED BY <2>6, <4>1, <4>2 DEF Fragment
    <3>10. rest[1] = next BY <1>7, <1>10, <2>1, <3>1
    <3>11. QED BY <2>8, <3>8, <3>9, <3>10 DEF Coming
  <2>9. QED BY <2>7, <2>8
<1>11. QED BY <1>9, <1>10

\* What is left of the window is of the stream.
LEMMA WindowFromStreams ==
    ASSUME OutTypes, NEW e \in ItEnds, NEW tail \in Nat, out_tail[e] <= tail, tail <= OutHead(e),
           NEW b \in Nat, NEW message, NEW next,
           OnStream(e, b, out_tail[e], outgoing[e], message, next)
    PROVE  OnStream(e, b, tail, WindowFrom(e, tail), message, next)
<1> DEFINE w == outgoing[e]
           t == out_tail[e]
           top == OutHead(e)
           v == WindowFrom(e, tail)
<1>1. t \in Nat \ {0} /\ Len(w) \in Nat /\ top = t + Len(w) BY OutHas
<1>2. /\ Len(v) = top - tail
      /\ \A j \in 1..Len(v) : j + (tail - t) \in 1..Len(w) /\ v[j] = w[j + (tail - t)]
  BY WindowFromHas
<1>3. /\ \A i \in 1..Len(w) : Fragment(w[i]) = Nth(e, b, t + i - 1)
      /\ Nth(e, b, t + Len(w)) = Coming(message, next)
      /\ message # NoMessage => message[1] = next
  BY DEF OnStream
<1> HIDE DEF w, t, top, v
<1>4. tail + Len(v) = t + Len(w) BY <1>1, <1>2
<1>5. ASSUME NEW j \in 1..Len(v) PROVE Fragment(v[j]) = Nth(e, b, tail + j - 1)
  <2>1. PICK i : i = j + (tail - t) OBVIOUS
  <2>2. i \in 1..Len(w) /\ v[j] = w[i] BY <1>2, <2>1
  <2>3. t + i - 1 = tail + j - 1 BY <1>1, <2>1
  <2>4. QED BY <1>3, <2>2, <2>3
<1>6. QED BY <1>3, <1>4, <1>5 DEF OnStream, v

\* Packet n of the window.
LEMMA OnStreamAt ==
    ASSUME NEW e, NEW b, NEW tail \in Nat, NEW w, Len(w) \in Nat, NEW message, NEW next,
           OnStream(e, b, tail, w, message, next), NEW n \in tail..(tail + Len(w) - 1)
    PROVE  Fragment(w[n - tail + 1]) = Nth(e, b, n)
<1>1. PICK i : i = n - tail + 1 OBVIOUS
<1>2. i \in 1..Len(w) /\ tail + i - 1 = n BY <1>1
<1>3. Fragment(w[i]) = Nth(e, b, tail + i - 1) BY <1>2 DEF OnStream
<1>4. QED BY <1>1, <1>2, <1>3

-----------------------------------------------------------------------------
(* What follows the stream of the other end *)

\* What was put together of the packets below tail, and the packets from there on, are of the
\* stream behind message b of end s.
Follows(s, b, tail, head, cells, acc) ==
    /\ Gathered(s, b, tail, acc)
    /\ \A n \in tail..(head - 1) :
          cells[ItSlot(n)] = Nack \/ Fragment(cells[ItSlot(n)]) = Nth(s, b, n)

\* What end r has put together, and what it has received of that stream.
GatheredBy(r) == [parts |-> in_message[r], got |-> it_got[r], bad |-> blacklisted[r]]

Received(s, r, b) == Follows(s, b, in_tail[r], in_head[r], incoming[r], GatheredBy(r))

\* Incarnation i of end s sends the present incarnation of the other end the stream behind
\* message b: so are the packets under way, and what was received if it is the known one.
Link(s, i, b) ==
    /\ \A m \in it_net[Other(s)] :
          /\ m.type = "data" /\ m.inc = i /\ m.aru_inc = my_incarnation[Other(s)] /\ m.seq > 0
          => Fragment(m.packet) = Nth(s, b, m.seq)
    /\ ngbr_incarnation[Other(s)] = i => Received(s, Other(s), b)
    /\ i = my_incarnation[s] /\ ngbr_incarnation[s] = my_incarnation[Other(s)] => b = Start(s)

\* The variables of the messages are of both ends.
HistTypes ==
    /\ DOMAIN it_sent = ItEnds /\ DOMAIN in_message = ItEnds
    /\ DOMAIN it_got = ItEnds /\ DOMAIN blacklisted = ItEnds

StreamInv ==
    /\ HistTypes
    /\ \A e \in ItEnds : Streams(e) /\ \A i \in Nat : \E b \in Nat : Link(e, i, b)

\* The messages of end e are left alone.
HistRests(e) ==
    /\ it_sent'[e] = it_sent[e] /\ in_message'[e] = in_message[e]
    /\ it_got'[e] = it_got[e] /\ blacklisted'[e] = blacklisted[e]

\* End e receives nothing, or takes a packet and puts together what is in order.
Reads(e) ==
    \/ /\ InRests(e) /\ in_message'[e] = in_message[e]
       /\ it_got'[e] = it_got[e] /\ blacklisted'[e] = blacklisted[e]
    \/ \E m \in it_net[e] :
          /\ Accepts(e, m) /\ m.seq > 0
          /\ \E tail \in Nat \ {0}, head \in Nat \ {0}, cells \in [ItSlots -> InCells] :
                Passed(e, m, tail, head, cells) /\ Assembles(e, m, tail)

\* It has nothing of the messages of the other end.
Empties(e) ==
    /\ in_message'[e] = <<>> /\ it_got'[e] = <<>>
    /\ blacklisted'[e] = blacklisted[e] \/ blacklisted'[e] = FALSE

\* A step of end e, as the streams see it.
StreamStep(e) ==
    /\ HistTypes' /\ Streams(e)' /\ HistRests(Other(e))
    /\ \/ Goes(e) /\ Reads(e) /\ Start(e)' = Start(e)
       \/ (Renews(e) \/ Restarts(e)) /\ Empties(e)

\* What the invariant says of an end.
LEMMA StreamInvHas ==
    ASSUME StreamInv, NEW e \in ItEnds
    PROVE  /\ HistTypes /\ Streams(e) /\ Start(e) \in Nat
           /\ \A i \in Nat : \E b \in Nat : Link(e, i, b)
BY DEF StreamInv, Streams

\* An end that is left alone has the same stream.
LEMMA StreamRests ==
    ASSUME it_conf' = it_conf, NEW e \in ItEnds, Streams(e), OutRests(e), HistRests(e)
    PROVE  Streams(e)' /\ Start(e)' = Start(e)
<1>1. /\ out_tail'[e] = out_tail[e] /\ outgoing'[e] = outgoing[e] /\ out_message'[e] = out_message[e]
      /\ next_message'[e] = next_message[e] /\ it_sent'[e] = it_sent[e]
  BY DEF OutRests, HistRests
<1>2. Start(e)' = Start(e) BY <1>1 DEF Start
<1>3. Fragments' = Fragments BY StreamStays
<1>4. QED BY <1>1, <1>2, <1>3 DEF Streams, OnStream, Nth

\* What follows a stream after a step, told by the values.
LEMMA ReceivedBecomes ==
    ASSUME it_conf' = it_conf, NEW s, NEW r, NEW b, NEW tail, NEW head, NEW cells, NEW acc,
           in_tail'[r] = tail, in_head'[r] = head, incoming'[r] = cells, GatheredBy(r)' = acc,
           Follows(s, b, tail, head, cells, acc)
    PROVE  Received(s, r, b)'
<1>1. \A n : Nth(s, b, n)' = Nth(s, b, n) BY StreamStays
<1>2. Gathered(s, b, tail, acc) /\ \A n \in tail..(head - 1) :
         cells[ItSlot(n)] = Nack \/ Fragment(cells[ItSlot(n)]) = Nth(s, b, n)
  BY DEF Follows
<1>a. Fragments' = Fragments BY StreamStays
<1>3. Gathered(s, b, in_tail[r], GatheredBy(r))' BY <1>1, <1>2, <1>a DEF Gathered
<1>4. QED BY <1>1, <1>2, <1>3 DEF Received, Follows

\* An end that is left alone follows what it followed.
LEMMA ReceivedRests ==
    ASSUME it_conf' = it_conf, NEW s, NEW r, NEW b, InRests(r), in_message'[r] = in_message[r],
           it_got'[r] = it_got[r], blacklisted'[r] = blacklisted[r], Received(s, r, b)
    PROVE  Received(s, r, b)'
<1>1. PICK tail, head, cells, acc :
         tail = in_tail[r] /\ head = in_head[r] /\ cells = incoming[r] /\ acc = GatheredBy(r)
  OBVIOUS
<1>2. in_tail'[r] = tail /\ in_head'[r] = head /\ incoming'[r] = cells BY <1>1 DEF InRests
<1>3. GatheredBy(r)' = acc BY <1>1 DEF GatheredBy
<1>4. Follows(s, b, tail, head, cells, acc) BY <1>1 DEF Received
<1>5. QED BY <1>2, <1>3, <1>4, ReceivedBecomes

\* Who has nothing follows every stream.
LEMMA NothingFollows ==
    ASSUME NEW s, NEW b \in Nat, NEW cells, NEW acc,
           acc = [parts |-> <<>>, got |-> <<>>, bad |-> FALSE]
    PROVE  Follows(s, b, 1, 1, cells, acc)
<1>1. acc \in Gatherings /\ acc.bad = FALSE /\ acc.parts = <<>> /\ acc.got = <<>> BY DEF Gatherings
<1>2. Len(acc.parts) = 0 /\ Len(acc.got) = 0 BY <1>1
<1>3. Nth(s, b, 1) = <<b + 1, 1>> BY NthHas
<1>4. b + 0 + 1 = b + 1 /\ 0 + 1 = 1 /\ (\A j \in 1..0 : FALSE) /\ \A n \in 1..(1 - 1) : FALSE OBVIOUS
<1>5. Nth(s, b, 1) = <<b + Len(acc.got) + 1, Len(acc.parts) + 1>> BY <1>2, <1>3, <1>4
<1>6. Gathered(s, b, 1, acc) BY <1>1, <1>2, <1>4, <1>5 DEF Gathered
<1>7. QED BY <1>4, <1>6 DEF Follows

\* Who follows a stream up to nothing has nothing.
LEMMA NothingGathered ==
    ASSUME NEW s, NEW b \in Nat, NEW acc, Gathered(s, b, 1, acc)
    PROVE  acc = [parts |-> <<>>, got |-> <<>>, bad |-> FALSE]
<1>1. /\ acc \in Gatherings /\ acc.bad = FALSE
      /\ Nth(s, b, 1) = <<b + Len(acc.got) + 1, Len(acc.parts) + 1>>
  BY DEF Gathered
<1>2. Nth(s, b, 1) = <<b + 1, 1>> BY NthHas
<1>3. acc.parts \in Seq(Pkt) /\ acc.got \in Seq(Seq(Nat)) BY <1>1 DEF Gatherings
<1>4. PICK p, g : p = Len(acc.parts) /\ g = Len(acc.got) OBVIOUS
<1>5. p \in Nat /\ g \in Nat BY <1>3, <1>4
<1>6. b + g + 1 = b + 1 /\ p + 1 = 1 BY <1>1, <1>2, <1>4
<1>7. p = 0 /\ g = 0 BY <1>5, <1>6
<1>8. acc.parts = <<>> /\ acc.got = <<>>
  <2>1. PICK x, y : x = acc.parts /\ y = acc.got OBVIOUS
  <2>2. x \in Seq(Pkt) /\ Len(x) = 0 BY <1>3, <1>4, <1>7, <2>1
  <2>3. x = <<>> BY ONLY <2>2
  <2>4. y \in Seq(Seq(Nat)) /\ Len(y) = 0 BY <1>3, <1>4, <1>7, <2>1
  <2>5. y = <<>> BY ONLY <2>4
  <2>6. QED BY <2>1, <2>3, <2>5
<1>9. acc = [parts |-> acc.parts, got |-> acc.got, bad |-> acc.bad] BY <1>1 DEF Gatherings
<1>10. QED BY <1>1, <1>8, <1>9

\* Packet n of the window, told by the state.
LEMMA StreamsAt ==
    ASSUME ItTypes, NEW e \in ItEnds, Streams(e)
    PROVE  \A n \in out_tail[e]..(OutHead(e) - 1) : Fragment(PacketNo(e, n)) = Nth(e, Start(e), n)
<1>1. OutTypes BY DEF ItTypes
<1>2. out_tail[e] \in Nat /\ Len(outgoing[e]) \in Nat /\ OutHead(e) = out_tail[e] + Len(outgoing[e])
  BY <1>1, OutHas
<1>3. OnStream(e, Start(e), out_tail[e], outgoing[e], out_message[e], next_message[e]) BY DEF Streams
<1>4. ASSUME NEW n \in out_tail[e]..(OutHead(e) - 1)
      PROVE  Fragment(PacketNo(e, n)) = Nth(e, Start(e), n)
  <2>1. n \in out_tail[e]..(out_tail[e] + Len(outgoing[e]) - 1) BY <1>2
  <2>2. Fragment(outgoing[e][n - out_tail[e] + 1]) = Nth(e, Start(e), n)
    BY <1>2, <1>3, <2>1, OnStreamAt
  <2>3. QED BY <2>2 DEF PacketNo
<1>5. QED BY <1>4

\* No end is found to misbehave.
LEMMA NobodyIsBlacklisted ==
    ASSUME ItTypes, StreamInv, NEW e \in ItEnds
    PROVE  blacklisted[e] = FALSE
<1> DEFINE o == Other(e)
<1>1. o \in ItEnds /\ Other(o) = e BY TwoEnds
<1>2. ngbr_incarnation[e] \in Nat BY EndHas
<1>3. PICK b \in Nat : Link(o, ngbr_incarnation[e], b) BY <1>1, <1>2, StreamInvHas
<1>4. Received(o, e, b) BY <1>1, <1>3 DEF Link
<1>5. GatheredBy(e).bad = FALSE BY <1>4 DEF Received, Follows, Gathered
<1>6. QED BY <1>5 DEF GatheredBy

\* Who begins to receive follows every stream.
LEMMA StartsFollow ==
    ASSUME ItTypes, StreamInv, it_conf' = it_conf, NEW s, NEW e \in ItEnds, NEW b \in Nat,
           Starts(e), Empties(e)
    PROVE  Received(s, e, b)'
<1>1. in_tail'[e] = 1 /\ in_head'[e] = 1 BY DEF Starts
<1>2. in_message'[e] = <<>> /\ it_got'[e] = <<>> /\ blacklisted'[e] = FALSE
  BY NobodyIsBlacklisted DEF Empties
<1>3. PICK cells, acc : cells = incoming'[e] /\ acc = [parts |-> <<>>, got |-> <<>>, bad |-> FALSE]
  OBVIOUS
<1>4. GatheredBy(e)' = acc BY <1>2, <1>3 DEF GatheredBy
<1>5. Follows(s, b, 1, 1, cells, acc) BY <1>3, NothingFollows
<1>6. incoming'[e] = cells BY <1>3
<1>7. QED BY <1>1, <1>4, <1>5, <1>6, ReceivedBecomes

\* In a step within the incarnations end e sends what is of the stream.
LEMMA GoesSendStream ==
    ASSUME ItInv, NEW e \in ItEnds, Step(e), StreamStep(e), Goes(e), Start(e)' = Start(e),
           NEW i \in Nat, NEW b \in Nat, Link(e, i, b)
    PROVE  Link(e, i, b)'
<1> DEFINE o == Other(e)
<1>1. o \in ItEnds /\ Other(o) = e BY TwoEnds
<1>2. /\ ItTypes' /\ WindowsOf(e)' /\ Rests(o) /\ it_conf' = it_conf /\ HistRests(o) /\ Streams(e)'
  BY StepHas DEF StreamStep
<1>3. my_incarnation' = my_incarnation /\ ngbr_incarnation' = ngbr_incarnation /\ NetMoves(e)
  BY DEF Goes
<1>4. /\ \A m \in it_net[o] :
            m.type = "data" /\ m.inc = i /\ m.aru_inc = my_incarnation[o] /\ m.seq > 0
            => Fragment(m.packet) = Nth(e, b, m.seq)
      /\ ngbr_incarnation[o] = i => Received(e, o, b)
      /\ i = my_incarnation[e] /\ ngbr_incarnation[e] = my_incarnation[o] => b = Start(e)
  BY DEF Link
<1>5. \A n : Nth(e, b, n)' = Nth(e, b, n) BY <1>2, StreamStays
<1>6. /\ out_tail'[e] \in Nat /\ tcp_head'[e] \in Nat /\ OutHead(e)' \in Nat
      /\ tcp_head'[e] <= OutHead(e)'
  <2>1. (out_tail[e] \in Nat /\ tcp_head[e] \in Nat /\ OutHead(e) \in Nat)' BY <1>2, EndHas, PTL
  <2>2. (tcp_head[e] <= OutHead(e))' BY <1>2, WindowsHave, PTL
  <2>3. QED BY <2>1, <2>2
<1>7. \A n \in out_tail'[e]..(OutHead(e)' - 1) :
         Fragment(PacketNo(e, n)') = Nth(e, Start(e)', n)
  <2>1. (\A n \in out_tail[e]..(OutHead(e) - 1) : Fragment(PacketNo(e, n)) = Nth(e, Start(e), n))'
    BY <1>2, StreamsAt, PTL
  <2>2. Fragments' = Fragments BY <1>2, StreamStays
  <2>3. QED BY <2>1, <2>2 DEF Fragment, Nth
<1>8. ASSUME NEW m \in it_net'[o],
             m.type = "data", m.inc = i, m.aru_inc = my_incarnation[o], m.seq > 0
      PROVE  Fragment(m.packet) = Nth(e, b, m.seq)
  <2>1. CASE m \in it_net[o] BY <1>4, <1>8, <2>1
  <2>2. CASE SentNow(e, m)
    <3>1. /\ m.inc = my_incarnation[e] /\ m.aru_inc = ngbr_incarnation[e]
          /\ m.seq \in out_tail'[e]..(tcp_head'[e] - 1) /\ m.packet = PacketNo(e, m.seq)'
      BY <1>8, <2>2 DEF SentNow
    <3>2. b = Start(e)' BY <1>4, <1>8, <3>1
    <3>3. PICK n : n = m.seq OBVIOUS
    <3>4. n \in out_tail'[e]..(OutHead(e)' - 1) BY <1>6, <3>1, <3>3
    <3>5. Fragment(PacketNo(e, n)') = Nth(e, Start(e)', n) BY <1>7, <3>4
    <3>6. QED BY <3>1, <3>2, <3>3, <3>5
  <2>3. QED BY <1>3, <2>1, <2>2 DEF NetMoves
<1>9. ngbr_incarnation[o] = i => Received(e, o, b)'
  BY <1>2, <1>4, ReceivedRests DEF Rests, HistRests
<1>10. QED BY <1>3, <1>4, <1>5, <1>8, <1>9 DEF Link

\* A packet that end e takes continues what it follows.
LEMMA TakenFollows ==
    ASSUME ItTypes, it_conf' = it_conf, HistTypes, NEW e \in ItEnds, NEW b \in Nat,
           Received(Other(e), e, b), NEW m, Fragment(m.packet) = Nth(Other(e), b, m.seq),
           NEW tail \in Nat \ {0}, NEW head \in Nat \ {0}, NEW cells \in [ItSlots -> InCells],
           Passed(e, m, tail, head, cells), Assembles(e, m, tail)
    PROVE  Received(Other(e), e, b)'
<1> DEFINE o == Other(e)
<1>1. /\ in_tail' = [in_tail EXCEPT ![e] = tail] /\ in_head' = [in_head EXCEPT ![e] = head]
      /\ incoming' = [incoming EXCEPT ![e] = cells]
      /\ in_tail[e] <= tail
      /\ \A n \in in_tail[e]..(tail - 1) :
            Stored(e, m, n) \in Pkt /\ (n = m.seq \/ n < in_head[e])
      /\ \A n \in tail..(head - 1) :
            \/ cells[ItSlot(n)] = Nack
            \/ cells[ItSlot(n)] = Stored(e, m, n) /\ (n = m.seq \/ n < in_head[e])
  BY DEF Passed
<1>2. /\ in_tail'[e] = tail /\ in_head'[e] = head /\ incoming'[e] = cells
      /\ in_tail[e] \in Nat \ {0} /\ in_head[e] \in Nat
  BY <1>1 DEF ItTypes, InTypes
<1>3. /\ Gathered(o, b, in_tail[e], GatheredBy(e))
      /\ \A n \in in_tail[e]..(in_head[e] - 1) :
            incoming[e][ItSlot(n)] = Nack \/ Fragment(incoming[e][ItSlot(n)]) = Nth(o, b, n)
  BY DEF Received, Follows
<1>4. ASSUME NEW n \in Nat, n >= in_tail[e], n = m.seq \/ n < in_head[e]
      PROVE  Stored(e, m, n) = Nack \/ Fragment(Stored(e, m, n)) = Nth(o, b, n)
  <2>1. CASE n = m.seq BY <2>1 DEF Stored
  <2>2. CASE n # m.seq
    <3>1. n \in in_tail[e]..(in_head[e] - 1) BY <1>2, <1>4, <2>2
    <3>2. incoming[e][ItSlot(n)] = Nack \/ Fragment(incoming[e][ItSlot(n)]) = Nth(o, b, n)
      BY <1>3, <3>1
    <3>3. QED BY <2>2, <3>2 DEF Stored
  <2>3. QED BY <2>1, <2>2
<1>5. PICK packets \in Seq(Pkt) :
         /\ Len(packets) = tail - in_tail[e]
         /\ \A i \in 1..Len(packets) : packets[i] = Stored(e, m, in_tail[e] + i - 1)
         /\ in_message' = [in_message EXCEPT ![e] = Built(e, packets).parts]
         /\ it_got' = [it_got EXCEPT ![e] = Built(e, packets).got]
         /\ blacklisted' = [blacklisted EXCEPT ![e] = Built(e, packets).bad]
  BY DEF Assembles
<1>6. PICK acc : acc = Built(e, packets) OBVIOUS
<1>7. ASSUME NEW i \in 1..Len(packets) PROVE Fragment(packets[i]) = Nth(o, b, in_tail[e] + i - 1)
  <2>1. PICK n : n = in_tail[e] + i - 1 OBVIOUS
  <2>2. n \in in_tail[e]..(tail - 1) /\ n \in Nat /\ n >= in_tail[e] BY <1>2, <1>5, <2>1
  <2>3. Stored(e, m, n) \in Pkt /\ (n = m.seq \/ n < in_head[e]) BY <1>1, <2>2
  <2>4. Fragment(Stored(e, m, n)) = Nth(o, b, n) BY <1>4, <2>2, <2>3, MarksAreNoPackets
  <2>5. QED BY <1>5, <2>1, <2>4
<1>8. in_tail[e] + Len(packets) = tail BY <1>2, <1>5
<1>9. Gathered(o, b, tail, acc)
  <2>1. Gathered(o, b, in_tail[e],
                 [parts |-> in_message[e], got |-> it_got[e], bad |-> blacklisted[e]])
    BY <1>3 DEF GatheredBy
  <2>2. Gathered(o, b, in_tail[e] + Len(packets), Built(e, packets))
    BY <1>2, <1>5, <1>7, <2>1, BuiltGathers
  <2>3. QED BY <1>6, <1>8, <2>2
<1>10. GatheredBy(e)' = acc
  <2>1. acc = [parts |-> acc.parts, got |-> acc.got, bad |-> acc.bad]
    BY <1>9 DEF Gathered, Gatherings
  <2>2. in_message'[e] = acc.parts /\ it_got'[e] = acc.got /\ blacklisted'[e] = acc.bad
    BY <1>5, <1>6 DEF HistTypes
  <2>3. QED BY <2>1, <2>2 DEF GatheredBy
<1>11. ASSUME NEW n \in tail..(head - 1)
       PROVE  cells[ItSlot(n)] = Nack \/ Fragment(cells[ItSlot(n)]) = Nth(o, b, n)
  <2>1. n \in Nat /\ n >= in_tail[e] BY <1>1, <1>2
  <2>2. \/ cells[ItSlot(n)] = Nack
        \/ cells[ItSlot(n)] = Stored(e, m, n) /\ (n = m.seq \/ n < in_head[e])
    BY <1>1
  <2>3. QED BY <1>4, <2>1, <2>2
<1>12. Follows(o, b, tail, head, cells, acc) BY <1>9, <1>11 DEF Follows
<1>13. QED BY <1>2, <1>10, <1>12, ReceivedBecomes

\* In a step within the incarnations end e goes on following the stream of the other one.
LEMMA GoesTakeStream ==
    ASSUME ItInv, StreamInv, NEW e \in ItEnds, Step(e), StreamStep(e), Goes(e), Reads(e),
           NEW i \in Nat, NEW b \in Nat, Link(Other(e), i, b)
    PROVE  Link(Other(e), i, b)'
<1> DEFINE o == Other(e)
<1>1. o \in ItEnds /\ Other(o) = e BY TwoEnds
<1>2. /\ ItTypes /\ Rests(o) /\ it_conf' = it_conf /\ HistRests(o) /\ Streams(o) /\ HistTypes
  BY <1>1, StepHas, InvHas, StreamInvHas DEF StreamStep
<1>3. my_incarnation' = my_incarnation /\ ngbr_incarnation' = ngbr_incarnation /\ NetMoves(e)
  BY DEF Goes
<1>4. /\ \A m \in it_net[e] :
            m.type = "data" /\ m.inc = i /\ m.aru_inc = my_incarnation[e] /\ m.seq > 0
            => Fragment(m.packet) = Nth(o, b, m.seq)
      /\ ngbr_incarnation[e] = i => Received(o, e, b)
      /\ i = my_incarnation[o] /\ ngbr_incarnation[o] = my_incarnation[e] => b = Start(o)
  BY <1>1 DEF Link
<1>5. \A n : Nth(o, b, n)' = Nth(o, b, n) BY <1>2, StreamStays
<1>6. Start(o)' = Start(o) BY <1>1, <1>2, StreamRests DEF Rests
<1>7. ASSUME ngbr_incarnation[e] = i PROVE Received(o, e, b)'
  <2>1. Received(o, e, b) BY <1>4, <1>7
  <2>2. CASE /\ InRests(e) /\ in_message'[e] = in_message[e]
             /\ it_got'[e] = it_got[e] /\ blacklisted'[e] = blacklisted[e]
    BY <1>2, <2>1, <2>2, ReceivedRests
  <2>3. ASSUME NEW m \in it_net[e], Accepts(e, m), m.seq > 0,
               NEW tail \in Nat \ {0}, NEW head \in Nat \ {0}, NEW cells \in [ItSlots -> InCells],
               Passed(e, m, tail, head, cells), Assembles(e, m, tail)
        PROVE  Received(o, e, b)'
    <3>1. m.type = "data" /\ m.inc = i /\ m.aru_inc = my_incarnation[e]
      BY <1>7, <2>3 DEF Accepts, SameIncarnations
    <3>2. Fragment(m.packet) = Nth(o, b, m.seq) BY <1>4, <2>3, <3>1
    <3>3. QED BY <1>2, <2>1, <2>3, <3>2, TakenFollows
  <2>4. QED BY <2>2, <2>3 DEF Reads
<1>8. it_net'[e] \subseteq it_net[e] BY <1>3 DEF NetMoves
<1>9. QED BY <1>1, <1>3, <1>4, <1>5, <1>6, <1>7, <1>8 DEF Link

\* When end e learns of a new incarnation, a new stream to it begins, of which nothing is
\* under way.
LEMMA RenewsSendStream ==
    ASSUME ItInv, StreamInv, NEW e \in ItEnds, Step(e), StreamStep(e), Renews(e), NEW i \in Nat
    PROVE  \E b \in Nat : Link(e, i, b)'
<1> DEFINE o == Other(e)
<1>1. o \in ItEnds /\ Other(o) = e /\ e # o BY TwoEnds
<1>2. /\ ItTypes /\ Rests(o) /\ it_conf' = it_conf /\ HistRests(o) /\ Streams(e)' /\ Clean(o)
  BY <1>1, StepHas, InvHas DEF StreamStep
<1>3. PICK inc \in Nat :
         /\ ngbr_incarnation' = [ngbr_incarnation EXCEPT ![e] = inc]
         /\ ngbr_incarnation[e] < inc /\ inc <= my_incarnation[o]
  BY DEF Renews
<1>4. my_incarnation' = my_incarnation /\ \A m \in it_net'[o] : m \in it_net[o] \/ m.type # "data"
  BY DEF Renews
<1>5. /\ ngbr_incarnation'[e] = inc /\ ngbr_incarnation'[o] = ngbr_incarnation[o]
      /\ ngbr_incarnation[e] \in Nat
  BY <1>1, <1>2, <1>3 DEF ItTypes, IncTypes
<1>6. PICK a \in Nat : Link(e, i, a) BY StreamInvHas
<1>7. /\ \A m \in it_net[o] :
            m.type = "data" /\ m.inc = i /\ m.aru_inc = my_incarnation[o] /\ m.seq > 0
            => Fragment(m.packet) = Nth(e, a, m.seq)
      /\ ngbr_incarnation[o] = i => Received(e, o, a)
  BY <1>6 DEF Link
<1>8. CASE i = my_incarnation[e] /\ inc = my_incarnation[o]
  <2>1. PICK b \in Nat : b = Start(e)' BY <1>2 DEF Streams
  <2>2. ASSUME NEW m \in it_net'[o], m.type = "data", m.inc = i, m.aru_inc = my_incarnation[o]
        PROVE  FALSE
    <3>1. m \in it_net[o] BY <1>4, <2>2
    <3>2. m.aru_inc <= ngbr_incarnation[e] BY <1>8, <2>2, <3>1, InvHas DEF AsSent
    <3>3. QED BY <1>3, <1>5, <1>8, <2>2, <3>2
  <2>3. ASSUME ngbr_incarnation[o] = i PROVE Received(e, o, b)'
    <3>1. in_tail[o] = 1 /\ in_head[o] = 1 BY <1>1, <1>2, <1>3, <1>5, <1>8, <2>3 DEF Clean
    <3>2. Gathered(e, a, 1, GatheredBy(o)) BY <1>7, <2>3, <3>1 DEF Received, Follows
    <3>3. GatheredBy(o) = [parts |-> <<>>, got |-> <<>>, bad |-> FALSE] BY <3>2, NothingGathered
    <3>4. Follows(e, b, 1, 1, incoming[o], GatheredBy(o)) BY <3>3, NothingFollows
    <3>5. Received(e, o, b) BY <3>1, <3>4 DEF Received
    <3>6. QED BY <1>2, <3>5, ReceivedRests DEF Rests, HistRests
  <2>4. Link(e, i, b)' BY <1>4, <1>5, <2>1, <2>2, <2>3 DEF Link
  <2>5. QED BY <2>4
<1>9. CASE ~(i = my_incarnation[e] /\ inc = my_incarnation[o])
  <2>1. \A n : Nth(e, a, n)' = Nth(e, a, n) BY <1>2, StreamStays
  <2>2. ngbr_incarnation[o] = i => Received(e, o, a)'
    BY <1>2, <1>7, ReceivedRests DEF Rests, HistRests
  <2>3. Link(e, i, a)' BY <1>4, <1>5, <1>7, <1>9, <2>1, <2>2 DEF Link
  <2>4. QED BY <2>3
<1>10. QED BY <1>8, <1>9

\* It follows from the beginning what the new incarnation sends.
LEMMA RenewsTakeStream ==
    ASSUME ItInv, StreamInv, NEW e \in ItEnds, Step(e), StreamStep(e), Renews(e), Empties(e),
           NEW i \in Nat, NEW b \in Nat, Link(Other(e), i, b)
    PROVE  Link(Other(e), i, b)'
<1> DEFINE o == Other(e)
<1>1. o \in ItEnds /\ Other(o) = e /\ e # o BY TwoEnds
<1>2. /\ ItTypes /\ Rests(o) /\ it_conf' = it_conf /\ HistRests(o) /\ Streams(o)
  BY <1>1, StepHas, InvHas, StreamInvHas DEF StreamStep
<1>3. PICK inc \in Nat : ngbr_incarnation' = [ngbr_incarnation EXCEPT ![e] = inc] BY DEF Renews
<1>4. my_incarnation' = my_incarnation /\ Starts(e) /\ it_net'[e] \subseteq it_net[e]
  BY DEF Renews, NetMoves
<1>5. ngbr_incarnation'[o] = ngbr_incarnation[o] BY <1>1, <1>3
<1>6. /\ \A m \in it_net[e] :
            m.type = "data" /\ m.inc = i /\ m.aru_inc = my_incarnation[e] /\ m.seq > 0
            => Fragment(m.packet) = Nth(o, b, m.seq)
      /\ i = my_incarnation[o] /\ ngbr_incarnation[o] = my_incarnation[e] => b = Start(o)
  BY <1>1 DEF Link
<1>7. \A n : Nth(o, b, n)' = Nth(o, b, n) BY <1>2, StreamStays
<1>8. Start(o)' = Start(o) BY <1>1, <1>2, StreamRests DEF Rests
<1>9. Received(o, e, b)' BY <1>2, <1>4, StartsFollow
<1>10. QED BY <1>1, <1>4, <1>5, <1>6, <1>7, <1>8, <1>9 DEF Link

\* When end e starts again, nothing is under way from its new incarnation.
LEMMA RestartsSendStream ==
    ASSUME ItInv, StreamInv, NEW e \in ItEnds, Step(e), StreamStep(e), Restarts(e), NEW i \in Nat
    PROVE  \E b \in Nat : Link(e, i, b)'
<1> DEFINE o == Other(e)
<1>1. o \in ItEnds /\ Other(o) = e /\ e # o BY TwoEnds
<1>2. /\ ItTypes /\ Rests(o) /\ it_conf' = it_conf /\ HistRests(o) /\ Streams(e)' /\ Known(o)
  BY <1>1, StepHas, InvHas DEF StreamStep
<1>3. /\ my_incarnation' = [my_incarnation EXCEPT ![e] = @ + 1]
      /\ ngbr_incarnation' = [ngbr_incarnation EXCEPT ![e] = 0] /\ it_net' = it_net
  BY DEF Restarts
<1>4. /\ ngbr_incarnation'[o] = ngbr_incarnation[o] /\ my_incarnation'[o] = my_incarnation[o]
      /\ my_incarnation'[e] = my_incarnation[e] + 1
  BY <1>1, <1>2, <1>3 DEF ItTypes, IncTypes
<1>5. my_incarnation[e] \in Nat /\ ngbr_incarnation[o] \in Nat BY <1>1, <1>2, EndHas
<1>6. PICK a \in Nat : Link(e, i, a) BY StreamInvHas
<1>7. /\ \A m \in it_net[o] :
            m.type = "data" /\ m.inc = i /\ m.aru_inc = my_incarnation[o] /\ m.seq > 0
            => Fragment(m.packet) = Nth(e, a, m.seq)
      /\ ngbr_incarnation[o] = i => Received(e, o, a)
  BY <1>6 DEF Link
<1>8. CASE i = my_incarnation[e] + 1
  <2>1. PICK b \in Nat : b = Start(e)' BY <1>2 DEF Streams
  <2>2. ASSUME NEW m \in it_net[o], m.inc = i PROVE FALSE
    <3>1. m.inc \in 0..my_incarnation[e] BY InvHas DEF AsSent
    <3>2. QED BY <1>5, <1>8, <2>2, <3>1
  <2>3. ngbr_incarnation[o] # i BY <1>1, <1>2, <1>5, <1>8 DEF Known
  <2>4. Link(e, i, b)' BY <1>3, <1>4, <2>1, <2>2, <2>3 DEF Link
  <2>5. QED BY <2>4
<1>9. CASE i # my_incarnation[e] + 1
  <2>1. \A n : Nth(e, a, n)' = Nth(e, a, n) BY <1>2, StreamStays
  <2>2. ngbr_incarnation[o] = i => Received(e, o, a)'
    BY <1>2, <1>7, ReceivedRests DEF Rests, HistRests
  <2>3. Link(e, i, a)' BY <1>3, <1>4, <1>7, <1>9, <2>1, <2>2 DEF Link
  <2>4. QED BY <2>3
<1>10. QED BY <1>8, <1>9

\* And nothing is under way to it.
LEMMA RestartsTakeStream ==
    ASSUME ItInv, StreamInv, NEW e \in ItEnds, Step(e), StreamStep(e), Restarts(e), Empties(e),
           NEW i \in Nat, NEW b \in Nat
    PROVE  Link(Other(e), i, b)'
<1> DEFINE o == Other(e)
<1>1. o \in ItEnds /\ Other(o) = e /\ e # o BY TwoEnds
<1>2. ItTypes /\ it_conf' = it_conf /\ Known(o) BY <1>1, StepHas, InvHas
<1>3. /\ my_incarnation' = [my_incarnation EXCEPT ![e] = @ + 1]
      /\ ngbr_incarnation' = [ngbr_incarnation EXCEPT ![e] = 0] /\ it_net' = it_net /\ Starts(e)
  BY DEF Restarts
<1>4. /\ ngbr_incarnation'[o] = ngbr_incarnation[o]
      /\ my_incarnation'[e] = my_incarnation[e] + 1
  BY <1>1, <1>2, <1>3 DEF ItTypes, IncTypes
<1>5. my_incarnation[e] \in Nat /\ ngbr_incarnation[o] \in Nat BY <1>1, <1>2, EndHas
<1>6. ASSUME NEW m \in it_net[e], m.type = "data", m.aru_inc = my_incarnation[e] + 1 PROVE FALSE
  <2>1. m.aru_inc \in 0..my_incarnation[e] BY <1>1, <1>6, InvHas DEF AsSent
  <2>2. QED BY <1>5, <1>6, <2>1
<1>7. ngbr_incarnation[o] # my_incarnation[e] + 1 BY <1>1, <1>2, <1>5 DEF Known
<1>8. Received(o, e, b)' BY <1>2, <1>3, StartsFollow
<1>9. QED BY <1>1, <1>3, <1>4, <1>6, <1>7, <1>8 DEF Link

\* A step keeps the streams.
LEMMA StreamStepKeeps ==
    ASSUME ItInv, StreamInv, NEW e \in ItEnds, Step(e), StreamStep(e)
    PROVE  StreamInv'
<1> DEFINE o == Other(e)
<1>1. o \in ItEnds /\ Other(o) = e /\ \A d \in ItEnds : d = e \/ d = o BY TwoEnds
<1>2. Rests(o) /\ it_conf' = it_conf /\ Streams(o) BY <1>1, StepHas, StreamInvHas
<1>3. /\ HistTypes' /\ Streams(e)' /\ HistRests(o)
      /\ \/ Goes(e) /\ Reads(e) /\ Start(e)' = Start(e)
         \/ (Renews(e) \/ Restarts(e)) /\ Empties(e)
  BY DEF StreamStep
<1>4. Streams(o)' BY <1>1, <1>2, <1>3, StreamRests DEF Rests
<1>5. ASSUME NEW i \in Nat PROVE \E b \in Nat : Link(e, i, b)'
  <2>1. PICK b \in Nat : Link(e, i, b) BY StreamInvHas
  <2>2. CASE Goes(e) /\ Start(e)' = Start(e) BY <2>1, <2>2, GoesSendStream
  <2>3. CASE Renews(e) BY <2>3, RenewsSendStream
  <2>4. CASE Restarts(e) BY <2>4, RestartsSendStream
  <2>5. QED BY <1>3, <2>2, <2>3, <2>4
<1>6. ASSUME NEW i \in Nat PROVE \E b \in Nat : Link(o, i, b)'
  <2>1. PICK b \in Nat : Link(o, i, b) BY <1>1, StreamInvHas
  <2>2. CASE Goes(e) /\ Reads(e) BY <2>1, <2>2, GoesTakeStream
  <2>3. CASE Renews(e) /\ Empties(e) BY <2>1, <2>3, RenewsTakeStream
  <2>4. CASE Restarts(e) /\ Empties(e) BY <2>4, RestartsTakeStream
  <2>5. QED BY <1>3, <2>2, <2>3, <2>4
<1>7. \A d \in ItEnds : Streams(d)' /\ \A i \in Nat : \E b \in Nat : Link(d, i, b)'
  BY <1>1, <1>3, <1>4, <1>5, <1>6
<1>8. QED BY <1>3, <1>7 DEF StreamInv

-----------------------------------------------------------------------------
(* The actions and the streams *)

\* A step that leaves the incarnations alone is one within them.
LEMMA StepGoes ==
    ASSUME ItTypes, NEW e \in ItEnds, Step(e), UNCHANGED incVars
    PROVE  Goes(e)
<1>1. my_incarnation' = my_incarnation /\ ngbr_incarnation' = ngbr_incarnation BY DEF incVars
<1>2. my_incarnation[e] \in Nat /\ ngbr_incarnation[e] \in Nat BY EndHas
<1>3. ~Renews(e) BY <1>1, <1>2 DEF Renews, ItTypes, IncTypes
<1>4. ~Restarts(e) BY <1>1, <1>2 DEF Restarts, ItTypes, IncTypes
<1>5. QED BY <1>3, <1>4 DEF Step

\* A step that touches no message.
LEMMA QuietStreams ==
    ASSUME ItInv, StreamInv, NEW e \in ItEnds, Step(e),
           UNCHANGED <<it_conf, outVars, inVars, incVars, upVars>>
    PROVE  StreamStep(e)
<1>1. ItTypes /\ HistTypes /\ Streams(e) BY InvHas, StreamInvHas
<1>2. Goes(e) BY <1>1, StepGoes
<1>3. /\ it_conf' = it_conf /\ in_message' = in_message /\ it_got' = it_got
      /\ blacklisted' = blacklisted /\ it_sent' = it_sent
  BY DEF inVars, upVars
<1>4. OutRests(e) /\ InRests(e) BY DEF outVars, inVars, upVars, OutRests, InRests
<1>5. HistRests(e) /\ HistRests(Other(e)) /\ HistTypes' BY <1>1, <1>3 DEF HistRests, HistTypes
<1>6. Streams(e)' /\ Start(e)' = Start(e) BY <1>1, <1>3, <1>4, <1>5, StreamRests
<1>7. Reads(e) BY <1>3, <1>4 DEF Reads
<1>8. QED BY <1>2, <1>5, <1>6, <1>7 DEF StreamStep

\* A new message continues the stream.
LEMMA ForwardITStreams ==
    ASSUME ItInv, StreamInv, NEW e \in ItEnds, ForwardIT(e)
    PROVE  StreamStep(e)
<1> DEFINE o == Other(e)
<1>1. o \in ItEnds /\ o # e BY TwoEnds
<1>2. ItTypes /\ OutTypes /\ WindowsOf(e) /\ OutWindow(e) /\ HistTypes /\ Streams(e)
  BY InvHas, StreamInvHas DEF ItTypes, WindowsOf
<1>3. Step(e) BY ForwardITStep
<1>4. PICK m : m = next_message[e] + 1 OBVIOUS
<1>5. /\ next_message[e] < Len(Fragments[e]) /\ Len(outgoing[e]) < MAX_SEND_ON_LINK
      /\ next_message' = [next_message EXCEPT ![e] = m]
      /\ it_sent' = [it_sent EXCEPT ![e] = Append(it_sent[e], m)]
      /\ Pack(e, out_tail[e], outgoing[e], out_nonce_digest[e], <<m, 1>>, ngbr_incarnation[e])
      /\ UNCHANGED <<it_conf, out_tail, cwnd, inVars, incVars, dhVars, retransmVars>>
  BY <1>2, <1>4 DEF ForwardIT, OutTypes, HistTypes
<1>6. /\ out_tail[e] \in Nat \ {0} /\ outgoing[e] \in Seq(Pkt) /\ Len(outgoing[e]) \in Nat
      /\ next_message[e] \in Nat /\ ngbr_incarnation[e] \in Nat
  BY <1>2, OutHas, EndHas
<1>7. MAX_SEND_ON_LINK \in Nat /\ Len(outgoing[e]) <= MAX_SEND_ON_LINK /\ out_message[e] = NoMessage
  BY <1>2, <1>5, <1>6, ItConstants DEF OutWindow, MessageWaits
<1>8. m \in 1..Len(Fragments[e]) /\ 1 \in 1..Fragments[e][m] /\ m \in Nat
  <2>1. it_conf \in Configurations BY <1>2 DEF OutTypes
  <2>2. Len(Fragments[e]) \in Nat /\ m \in 1..Len(Fragments[e])
    BY <1>4, <1>5, <1>6, <2>1, FragmentsHave
  <2>3. QED BY <2>1, <2>2, FragmentsHave
<1>9. PICK message : message = <<m, 1>> OBVIOUS
<1>10. message \in Nat \X Nat /\ message # NoMessage /\ message[1] = m /\ message[2] = 1
  BY <1>8, <1>9 DEF NoMessage
<1>11. PICK b \in Nat, sent \in Seq(Nat) : b = Start(e) /\ sent = it_sent[e] BY <1>2 DEF Streams
<1>12. /\ \A i \in 1..Len(sent) : sent[i] = b + i
       /\ OnStream(e, b, out_tail[e], outgoing[e], out_message[e], next_message[e])
       /\ b = next_message[e] - Len(sent)
  BY <1>2, <1>11 DEF Streams, Start
<1>13. OnStream(e, b, out_tail[e], outgoing[e], message, m)
  BY <1>4, <1>7, <1>9, <1>10, <1>12 DEF OnStream, Coming
<1>14. OnStream(e, b, out_tail[e], outgoing'[e], out_message'[e], m)
  BY <1>2, <1>5, <1>6, <1>7, <1>8, <1>9, <1>10, <1>13, PackStreams
<1>15. PICK more : more = Append(sent, m) OBVIOUS
<1>16. more \in Seq(Nat) /\ m - Len(more) = b /\ \A i \in 1..Len(more) : more[i] = b + i
  <2>1. more \in Seq(Nat) /\ Len(more) = Len(sent) + 1 /\ Len(sent) \in Nat
    BY <1>8, <1>15
  <2>2. \A i \in 1..Len(more) : more[i] = IF i = Len(sent) + 1 THEN m ELSE sent[i] BY <1>15
  <2>3. PICK k \in Nat : k = Len(sent) BY <2>1
  <2>4. m = b + (k + 1) /\ m - (k + 1) = b BY <1>4, <1>6, <1>12, <2>3
  <2>5. ASSUME NEW i \in 1..(k + 1) PROVE more[i] = b + i
    <3>1. CASE i = k + 1 BY <2>1, <2>2, <2>3, <2>4, <3>1
    <3>2. CASE i # k + 1
      <4>1. i \in 1..k BY <2>3, <3>2
      <4>2. sent[i] = b + i BY <1>12, <2>3, <4>1
      <4>3. more[i] = sent[i] BY <2>1, <2>2, <2>3, <3>2
      <4>4. QED BY <4>2, <4>3
    <3>3. QED BY <3>1, <3>2
  <2>6. QED BY <2>1, <2>3, <2>4, <2>5
<1>17. /\ out_tail'[e] = out_tail[e] /\ next_message'[e] = m /\ it_sent'[e] = more
       /\ it_sent'[o] = it_sent[o] /\ DOMAIN it_sent' = ItEnds /\ it_conf' = it_conf
  BY <1>1, <1>2, <1>5, <1>11, <1>15 DEF OutTypes, HistTypes
<1>18. PICK w, rest : w = outgoing'[e] /\ rest = out_message'[e] OBVIOUS
<1>19. Streams(e)' /\ Start(e)' = b
  BY <1>8, <1>14, <1>16, <1>17, <1>18, StreamsBecome
<1>20. in_message' = in_message /\ it_got' = it_got /\ blacklisted' = blacklisted /\ InRests(e)
  BY <1>5 DEF inVars, InRests
<1>21. HistRests(o) /\ HistTypes' /\ Reads(e) BY <1>2, <1>17, <1>20 DEF HistRests, HistTypes, Reads
<1>22. Goes(e) BY <1>2, <1>3, <1>5, StepGoes
<1>23. QED BY <1>11, <1>19, <1>21, <1>22 DEF StreamStep

\* The window that an acknowledgement leaves is of the same stream.
LEMMA AckStreams ==
    ASSUME ItInv, NEW e \in ItEnds, Streams(e), NEW m, m.aru \in Nat, TakeITAck(e, m),
           UNCHANGED <<it_conf, upVars>>
    PROVE  Streams(e)' /\ Start(e)' = Start(e)
<1>1. ItTypes /\ OutTypes /\ WindowsOf(e) /\ OutWindow(e) BY InvHas DEF ItTypes, WindowsOf
<1>2. PICK tail, head, new, resent, left : AckTakes(e, m, tail, head, new, resent, left)
  BY <1>1, TakeITAckHas
<1>3. PICK b \in Nat, sent \in Seq(Nat) : b = Start(e) /\ sent = it_sent[e] BY DEF Streams
<1>4. /\ \A i \in 1..Len(sent) : sent[i] = b + i
      /\ OnStream(e, b, out_tail[e], outgoing[e], out_message[e], next_message[e])
      /\ b = next_message[e] - Len(sent)
  BY <1>3 DEF Streams, Start
<1>5. /\ out_tail[e] \in Nat \ {0} /\ tcp_head[e] \in Nat /\ outgoing[e] \in Seq(Pkt)
      /\ OutHead(e) \in Nat /\ next_message[e] \in Nat /\ ngbr_incarnation[e] \in Nat
      /\ out_message[e] \in {NoMessage} \cup Nat \X Nat
  BY <1>1, OutHas, EndHas
<1>6. out_tail'[e] = tail /\ next_message'[e] = next_message[e] /\ it_sent'[e] = sent
  BY <1>1, <1>2, <1>3 DEF AckTakes, OutTypes, upVars
<1>7. PICK w, rest : w = outgoing'[e] /\ rest = out_message'[e] OBVIOUS
<1>8. OnStream(e, b, tail, w, rest, next_message[e])
  <2>1. CASE ~Acks(e, m)
    <3>1. tail = out_tail[e] /\ w = outgoing[e] /\ rest = out_message[e]
      BY <1>2, <1>7, <2>1 DEF AckTakes
    <3>2. QED BY <1>4, <3>1
  <2>2. CASE Acks(e, m)
    <3>1. PICK v : v = WindowFrom(e, tail) OBVIOUS
    <3>2. tail = m.aru + 1 /\ Pack(e, tail, v, out_nonce_digest[e], out_message[e], ngbr_incarnation[e])
      BY <1>2, <2>2, <3>1 DEF AckTakes
    <3>3. tail \in Nat \ {0} /\ out_tail[e] <= tail /\ tail <= OutHead(e)
      <4>1. out_tail[e] <= m.aru /\ m.aru < tcp_head[e] BY <2>2 DEF Acks
      <4>2. tcp_head[e] <= OutHead(e) BY <1>1 DEF OutWindow
      <4> HIDE DEF OutHead
      <4>3. QED BY <1>5, <3>2, <4>1, <4>2
    <3>4. OnStream(e, b, tail, v, out_message[e], next_message[e])
      BY <1>1, <1>4, <3>1, <3>3, WindowFromStreams
    <3>5. v \in Seq(Pkt) /\ Len(v) <= MAX_SEND_ON_LINK
      <4>1. v \in Seq(Pkt) /\ Len(v) = OutHead(e) - tail
        BY <1>1, <3>1, <3>3, WindowFromHas
      <4>2. OutHead(e) <= out_tail[e] + MAX_SEND_ON_LINK BY <1>1, WindowsHave
      <4>3. QED BY <1>5, <3>3, <4>1, <4>2, ItConstants
    <3>6. out_message[e] # NoMessage =>
             /\ out_message[e][1] \in 1..Len(Fragments[e])
             /\ out_message[e][2] \in 1..Fragments[e][out_message[e][1]]
      <4>1. it_conf \in Configurations BY <1>1 DEF OutTypes
      <4>2. Len(Fragments[e]) \in Nat BY <4>1, FragmentsHave
      <4>3. /\ next_message[e] <= Len(Fragments[e])
            /\ out_message[e] # NoMessage =>
                  /\ out_message[e][1] \in 1..next_message[e]
                  /\ out_message[e][2] \in 1..Fragments[e][out_message[e][1]]
        BY <1>1 DEF OutWindow, MessageWaits
      <4>4. QED BY <1>5, <4>2, <4>3
    <3>7. PICK digest : digest = out_nonce_digest[e] OBVIOUS
    <3>8. OnStream(e, b, tail, outgoing'[e], out_message'[e], next_message[e])
      BY <1>1, <1>5, <3>2, <3>3, <3>4, <3>5, <3>6, PackStreams
    <3>9. QED BY <1>7, <3>8
  <2>3. QED BY <2>1, <2>2
<1>9. QED BY <1>3, <1>4, <1>5, <1>6, <1>7, <1>8, StreamsBecome

\* A data packet or acknowledgement.
LEMMA ProcessITPacketStreams ==
    ASSUME ItInv, StreamInv, NEW e \in ItEnds, NEW m \in it_net[e], ProcessITPacket(e, m)
    PROVE  StreamStep(e)
<1> DEFINE o == Other(e)
<1>1. o \in ItEnds /\ o # e /\ Other(o) = e BY TwoEnds
<1>2. /\ ItTypes /\ InTypes /\ WindowsOf(e) /\ InWindow(in_tail[e], in_head[e], incoming[e])
      /\ HistTypes /\ Streams(e)
  BY InvHas, StreamInvHas DEF ItTypes, WindowsOf
<1>3. Step(e) BY ProcessITPacketStep
<1>4. /\ m.type = "data" /\ SameIncarnations(e, m) /\ TakeITAck(e, m)
      /\ IF m.seq > 0 /\ TakesPacket(e, m) THEN TakePacket(e, m) ELSE UNCHANGED inVars
      /\ UNCHANGED <<it_conf, incVars, upVars>>
  BY DEF ProcessITPacket
<1>5. Goes(e) BY <1>2, <1>3, <1>4, StepGoes
<1>6. Accepts(e, m) BY <1>4 DEF Accepts
<1>7. AsSent(o, m)
  <2>1. m \in it_net[Other(o)] BY <1>1
  <2>2. QED BY <1>1, <2>1, InvHas
<1>8. m.seq \in Nat /\ m.aru \in Nat /\ (m.seq > 0 => m.packet \in Pkt) BY <1>4, <1>7 DEF AsSent
<1>9. Streams(e)' /\ Start(e)' = Start(e) BY <1>2, <1>4, <1>8, AckStreams
<1>10. it_sent' = it_sent BY <1>4 DEF upVars
<1>11. CASE ~(m.seq > 0 /\ TakesPacket(e, m))
  <2>1. in_message' = in_message /\ it_got' = it_got /\ blacklisted' = blacklisted /\ InRests(e)
    BY <1>4, <1>11 DEF inVars, InRests
  <2>2. HistRests(o) /\ HistTypes' /\ Reads(e)
    BY <1>2, <1>10, <2>1 DEF HistRests, HistTypes, Reads
  <2>3. QED BY <1>5, <1>9, <2>2 DEF StreamStep
<1>12. CASE m.seq > 0 /\ TakesPacket(e, m)
  <2>1. /\ in_tail[e] \in Nat \ {0} /\ in_head[e] \in Nat \ {0}
        /\ incoming[e] \in [ItSlots -> InCells]
    BY <1>2 DEF InTypes
  <2>2. PICK tail \in Nat \ {0}, head \in Nat \ {0}, cells \in [ItSlots -> InCells] :
             Passed(e, m, tail, head, cells) /\ Assembles(e, m, tail)
    BY <1>2, <1>4, <1>8, <1>12, <2>1, TakePacketHas
  <2>3. Reads(e) BY <1>6, <1>12, <2>2 DEF Reads
  <2>4. PICK parts, got, bad :
           /\ in_message' = [in_message EXCEPT ![e] = parts] /\ it_got' = [it_got EXCEPT ![e] = got]
           /\ blacklisted' = [blacklisted EXCEPT ![e] = bad]
    BY <2>2 DEF Assembles
  <2>5. HistRests(o) /\ HistTypes' BY <1>1, <1>2, <1>10, <2>4 DEF HistRests, HistTypes
  <2>6. QED BY <1>5, <1>9, <2>3, <2>5 DEF StreamStep
<1>13. QED BY <1>11, <1>12

-----------------------------------------------------------------------------
(* A new incarnation and the streams *)

\* No message begins in the first packets of the window, and one does in the next one.
Skips(w, skipped) ==
    /\ \A i \in 1..skipped : w[i][2] # 1
    /\ skipped < Len(w) => w[skipped + 1][2] = 1

\* The messages that are to be sent again: those of the packets, and the one that waits.
Waiting(window, message) ==
    {window[i][1] : i \in DOMAIN window} \cup (IF message = NoMessage THEN {} ELSE {message[1]})

\* The renewed window holds the same fragments.
LEMMA RenewedFragments ==
    ASSUME NEW w \in Seq(Pkt), NEW skipped \in 0..Len(w), NEW inc \in Nat
    PROVE  /\ DOMAIN Renewed(w, skipped, inc) = 1..(Len(w) - skipped)
           /\ \A i \in 1..(Len(w) - skipped) :
                 Fragment(Renewed(w, skipped, inc)[i]) = Fragment(w[skipped + i])
<1>1. Len(w) \in Nat /\ \A i \in 1..Len(w) : w[i] \in Pkt BY PacketsAre
<1>2. ASSUME NEW i \in 1..(Len(w) - skipped)
      PROVE  Fragment(Renewed(w, skipped, inc)[i]) = Fragment(w[skipped + i])
  <2>1. skipped + i \in 1..Len(w) BY <1>1
  <2>2. PICK p \in Pkt : p = w[skipped + i] BY <1>1, <2>1
  <2>3. Renewed(w, skipped, inc)[i] = [p EXCEPT ![3] = inc] BY <2>2 DEF Renewed
  <2>4. QED BY <2>2, <2>3, OtherNonce DEF Fragment
<1>3. QED BY <1>2 DEF Renewed

\* With Reintroduce_Messages, Incarnation_Change renews the window from the first message on
\* that begins in it.
LEMMA ChangeRenews ==
    ASSUME OutTypes, HistTypes, NEW e \in ItEnds, NEW inc, IncarnationChange(e, inc),
           it_conf.Reintroduce
    PROVE  \E skipped \in 0..Len(outgoing[e]) :
              /\ Skips(outgoing[e], skipped)
              /\ PacksAgain(e, Renewed(outgoing[e], skipped, inc), inc)
              /\ it_sent'[e] = Among(it_sent[e], Waiting(Renewed(outgoing[e], skipped, inc),
                                                         out_message[e]))
<1> DEFINE starts == {i \in DOMAIN outgoing[e] : outgoing[e][i][2] = 1}
           skipped == IF starts = {} THEN Len(outgoing[e])
                      ELSE (CHOOSE i \in starts : \A j \in starts : i <= j) - 1
           window == [i \in 1..(Len(outgoing[e]) - skipped) |->
                         [outgoing[e][skipped + i] EXCEPT ![3] = inc]]
<1>1. window = Renewed(outgoing[e], skipped, inc) BY DEF Renewed
<1>2. /\ Pack(e, 1, window, Digests(DigestsLeft(e), 1, window), out_message[e], inc)
      /\ it_sent' = [it_sent EXCEPT ![e] = Among(it_sent[e], Waiting(window, out_message[e]))]
  BY DEF IncarnationChange, DigestsLeft, Waiting, HistTypes
<1>3. Len(outgoing[e]) \in Nat /\ DOMAIN outgoing[e] = 1..Len(outgoing[e])
  <2>1. outgoing[e] \in Seq(Pkt) BY OutHas
  <2>2. QED BY <2>1, PacketsAre
<1>4. skipped \in 0..Len(outgoing[e]) /\ Skips(outgoing[e], skipped)
  <2>1. /\ starts \subseteq 1..Len(outgoing[e])
        /\ \A i \in 1..Len(outgoing[e]) : i \in starts <=> outgoing[e][i][2] = 1
    BY <1>3
  <2> HIDE DEF starts
  <2>2. CASE starts = {}
    <3>1. skipped = Len(outgoing[e]) BY <2>2
    <3> HIDE DEF skipped
    <3>2. QED BY <1>3, <2>1, <2>2, <3>1 DEF Skips
  <2>3. CASE starts # {}
    <3>1. starts \subseteq Nat BY <2>1
    <3>2. \E i \in starts : \A j \in starts : i <= j BY <2>3, <3>1, LeastNat
    <3>3. PICK first : first = CHOOSE i \in starts : \A j \in starts : i <= j OBVIOUS
    <3>4. first \in starts /\ first \in 1..Len(outgoing[e]) /\ \A j \in starts : first <= j
      BY <2>1, <3>2, <3>3
    <3>5. skipped = first - 1 BY <2>3, <3>3
    <3> HIDE DEF skipped
    <3>6. skipped \in 0..Len(outgoing[e]) /\ skipped + 1 = first BY <1>3, <3>4, <3>5
    <3>7. ASSUME NEW i \in 1..skipped PROVE outgoing[e][i][2] # 1
      <4>1. i \in 1..Len(outgoing[e]) /\ ~(first <= i) BY <1>3, <3>4, <3>6
      <4>2. QED BY <2>1, <3>4, <4>1
    <3>8. outgoing[e][skipped + 1][2] = 1 BY <2>1, <3>4, <3>6
    <3>9. QED BY <3>6, <3>7, <3>8 DEF Skips
  <2>4. QED BY <2>2, <2>3
<1> HIDE DEF skipped, window
<1>5. it_sent'[e] = Among(it_sent[e], Waiting(window, out_message[e])) BY <1>2 DEF HistTypes
<1>6. QED BY <1>1, <1>2, <1>4, <1>5 DEF PacksAgain

\* The items of a sequence.
LEMMA ItemsAre ==
    ASSUME NEW S, NEW q \in Seq(S)
    PROVE  \A i \in 1..Len(q) : q[i] \in S
OBVIOUS

\* There a message begins, for a whole one fits into a window.
LEMMA SkipsToStart ==
    ASSUME OutTypes, NEW e \in ItEnds, OutWindow(e), NEW b \in Nat, NEW skipped \in 0..Len(outgoing[e]),
           Skips(outgoing[e], skipped),
           OnStream(e, b, out_tail[e], outgoing[e], out_message[e], next_message[e])
    PROVE  Nth(e, b, out_tail[e] + skipped)[2] = 1
<1>1. PICK w, t, message, next :
         /\ w = outgoing[e] /\ t = out_tail[e] /\ message = out_message[e]
         /\ next = next_message[e]
  OBVIOUS
<1>2. t \in Nat \ {0} /\ Len(w) \in Nat /\ next \in Nat BY <1>1, OutHas
<1>3. /\ \A i \in 1..Len(w) : Fragment(w[i]) = Nth(e, b, t + i - 1)
      /\ Nth(e, b, t + Len(w)) = Coming(message, next)
  BY <1>1 DEF OnStream
<1>4. /\ \A i \in 1..skipped : w[i][2] # 1
      /\ skipped < Len(w) => w[skipped + 1][2] = 1
      /\ skipped \in 0..Len(w)
  BY <1>1 DEF Skips
<1>5. ASSUME NEW i \in 1..Len(w) PROVE Nth(e, b, t + i - 1)[2] = w[i][2]
  <2>1. Fragment(w[i]) = Nth(e, b, t + i - 1) BY <1>3
  <2>2. Fragment(w[i])[2] = w[i][2] BY DEF Fragment
  <2>3. QED BY <2>1, <2>2
<1>6. CASE skipped < Len(w)
  <2>1. PICK i : i = skipped + 1 OBVIOUS
  <2>2. i \in 1..Len(w) /\ t + i - 1 = t + skipped BY <1>2, <1>4, <1>6, <2>1
  <2>3. Nth(e, b, t + i - 1)[2] = w[i][2] BY <1>5, <2>2
  <2>4. QED BY <1>1, <1>4, <1>6, <2>1, <2>2, <2>3
<1>7. CASE skipped = Len(w) /\ message = NoMessage
  BY <1>1, <1>3, <1>7 DEF Coming
<1>8. CASE skipped = Len(w) /\ message # NoMessage
  <2>1. SUFFICES ASSUME Nth(e, b, t + Len(w))[2] # 1 PROVE FALSE BY <1>1, <1>8
  <2>2. PICK k \in Nat : k = Len(w) BY <1>2
  <2>3. k = MAX_SEND_ON_LINK /\ message[2] \in 1..Fragments[e][message[1]]
        /\ message[1] \in 1..next /\ next <= Len(Fragments[e])
    BY <1>1, <1>8, <2>2 DEF OutWindow, MessageWaits
  <2>4. message[2] <= k
    <3>1. it_conf \in Configurations BY DEF OutTypes
    <3>2. Len(Fragments[e]) \in Nat BY <3>1, FragmentsHave
    <3>3. message[1] \in 1..Len(Fragments[e]) BY <1>2, <2>3, <3>2
    <3>a. PICK q \in Seq(1..MAX_SEND_ON_LINK) : q = Fragments[e] BY <3>1, FragmentsHave
    <3>b. PICK x : x = message[1] OBVIOUS
    <3>c. x \in 1..Len(q) BY <3>3, <3>a, <3>b
    <3>d. q[x] \in 1..MAX_SEND_ON_LINK BY <3>c, ItemsAre
    <3>4. Fragments[e][message[1]] \in 1..MAX_SEND_ON_LINK BY <3>a, <3>b, <3>d
    <3>5. PICK f : f = Fragments[e][message[1]] OBVIOUS
    <3>6. f \in 1..k /\ message[2] \in 1..f BY <2>3, <3>4, <3>5
    <3>7. QED BY <3>6
  <2>5. ASSUME NEW n \in t..(t + k) PROVE Nth(e, b, n)[2] # 1
    <3>1. CASE n = t + k BY <2>1, <2>2, <3>1
    <3>2. CASE n # t + k
      <4>1. PICK i : i = n - t + 1 OBVIOUS
      <4>2. i \in 1..k /\ t + i - 1 = n BY <1>2, <3>2, <4>1
      <4>3. w[i][2] # 1 /\ i \in 1..Len(w) BY <1>4, <1>8, <2>2, <4>2
      <4>4. Nth(e, b, t + i - 1)[2] = w[i][2] BY <1>5, <4>3
      <4>5. QED BY <4>2, <4>3, <4>4
    <3>3. QED BY <3>1, <3>2
  <2>6. IndexGrows(e, b, t, k)
    <3>1. NoneBegins(e, b, t, k) BY <2>5 DEF NoneBegins
    <3>2. QED BY <1>2, <3>1, NthIndices
  <2>7. Nth(e, b, t + k)[2] = Nth(e, b, t)[2] + k
    <3>1. k \in 0..k OBVIOUS
    <3>2. QED BY <2>6, <3>1 DEF IndexGrows
  <2>8. Nth(e, b, t + k)[2] = message[2] BY <1>3, <1>8, <2>2 DEF Coming
  <2>9. Nth(e, b, t)[2] \in Nat \ {0} BY <1>2, NthHas
  <2>10. message[2] > k BY <2>7, <2>8, <2>9
  <2>11. message[2] \in Nat BY <2>7, <2>8, <2>9
  <2>12. QED BY <2>4, <2>10, <2>11
<1>9. QED BY <1>4, <1>2, <1>6, <1>7, <1>8

\* What the renewed window begins with is the stream behind message a, and the messages that
\* are sent again are those behind it.
RenewsFrom(e, a, b, window) ==
    /\ OnStream(e, a, 1, window, out_message[e], next_message[e])
    /\ \A x \in (b + 1)..next_message[e] : x \in Waiting(window, out_message[e]) <=> a < x

\* There is such a message.
LEMMA RenewedStreams ==
    ASSUME OutTypes, NEW e \in ItEnds, OutWindow(e), NEW b \in Nat, b <= next_message[e],
           OnStream(e, b, out_tail[e], outgoing[e], out_message[e], next_message[e]),
           NEW skipped \in 0..Len(outgoing[e]), Skips(outgoing[e], skipped), NEW inc \in Nat
    PROVE  \E a \in b..next_message[e] : RenewsFrom(e, a, b, Renewed(outgoing[e], skipped, inc))
<1>1. PICK w, t, message, next, L :
         /\ w = outgoing[e] /\ t = out_tail[e] /\ message = out_message[e]
         /\ next = next_message[e] /\ L = Len(w)
  OBVIOUS
<1>a. w \in Seq(Pkt) /\ t \in Nat \ {0} /\ next \in Nat /\ L \in Nat BY <1>1, OutHas
<1>b. skipped \in 0..L BY <1>1
<1>2. PICK v : v = Renewed(w, skipped, inc) OBVIOUS
<1>3. skipped \in 0..L /\ Skips(w, skipped) /\ b <= next BY <1>1
<1>4. /\ \A i \in 1..L : Fragment(w[i]) = Nth(e, b, t + i - 1)
      /\ Nth(e, b, t + L) = Coming(message, next)
      /\ message # NoMessage => message[1] = next
  BY <1>1 DEF OnStream
<1>5. PICK k \in Nat : k = L - skipped BY <1>a, <1>b
<1>6. DOMAIN v = 1..k /\ \A i \in 1..k : Fragment(v[i]) = Fragment(w[skipped + i])
  BY <1>1, <1>2, <1>5, <1>a, RenewedFragments
<1>7. PICK c \in Nat \ {0} : c = t + skipped BY <1>a, <1>b
<1>8. Nth(e, b, c)[2] = 1 BY <1>1, <1>3, <1>7, SkipsToStart
<1>9. PICK d \in Nat \ {0} : d = t + L BY <1>a
<1>10. c + k = d /\ c <= d /\ 1 <= c BY <1>5, <1>7, <1>9, <1>a, <1>b
<1>11. \A n \in Nat \ {0} : Nth(e, b, n)[1] \in Nat /\ Nth(e, b, n) = <<Nth(e, b, n)[1], Nth(e, b, n)[2]>>
  BY NthHas
<1>12. PICK first \in Nat : first = Nth(e, b, c)[1] BY <1>7, <1>11
<1>13. b + 1 <= first
  <2>1. Nth(e, b, 1)[1] = b + 1 BY NthHas
  <2>2. PICK one \in Nat \ {0} : one = 1 OBVIOUS
  <2>3. Nth(e, b, one)[1] <= Nth(e, b, c)[1] BY <1>10, <2>2, NthGrows
  <2>4. QED BY <1>12, <2>1, <2>2, <2>3
<1>14. first <= Nth(e, b, d)[1] BY <1>7, <1>9, <1>10, <1>12, NthGrows
<1>15. Nth(e, b, d)[1] = IF message = NoMessage THEN next + 1 ELSE next
  BY <1>4, <1>9 DEF Coming
<1>16. PICK a \in Nat : a = first - 1 BY <1>13
<1>17. a \in b..next /\ first = a + 1
  BY <1>13, <1>14, <1>15, <1>16, <1>a
<1>18. Nth(e, b, c) = <<a + 1, 1>> BY <1>8, <1>11, <1>12, <1>17
<1>19. \A n \in Nat \ {0} : Nth(e, a, n) = Nth(e, b, c + n - 1) BY <1>18, NthAgain
<1>20. ASSUME NEW i \in 1..k PROVE Fragment(v[i]) = Nth(e, a, i) /\ Fragment(v[i]) = Nth(e, b, c + i - 1)
  <2>1. PICK j : j = skipped + i OBVIOUS
  <2>2. j \in 1..L /\ t + j - 1 = c + i - 1 /\ i \in Nat \ {0} BY <1>5, <1>7, <1>a, <1>b, <2>1
  <2>3. Fragment(w[j]) = Nth(e, b, t + j - 1) BY <1>4, <2>2
  <2>4. Nth(e, a, i) = Nth(e, b, c + i - 1) BY <1>19, <2>2
  <2>5. QED BY <1>6, <2>1, <2>2, <2>3, <2>4
<1>21. Len(v) = k
  <2>1. Len(v) \in Nat /\ Len(v) = Len(w) - skipped
    <3>1. Len(v) = Len(w) - skipped BY <1>1, <1>2, <1>3, <1>5, <1>6 DEF Renewed
    <3>2. QED BY <1>1, <1>3, <3>1
  <2>2. QED BY <1>1, <1>5, <2>1
<1>22. OnStream(e, a, 1, v, message, next)
  <2>1. ASSUME NEW i \in 1..Len(v) PROVE Fragment(v[i]) = Nth(e, a, 1 + i - 1)
    <3>1. i \in 1..k /\ 1 + i - 1 = i BY <1>21
    <3>2. QED BY <1>20, <3>1
  <2>2. Nth(e, a, 1 + Len(v)) = Coming(message, next)
    <3>1. PICK n \in Nat \ {0} : n = 1 + k OBVIOUS
    <3>2. c + n - 1 = d BY <1>10, <3>1
    <3>3. Nth(e, a, n) = Nth(e, b, d) BY <1>19, <3>2
    <3>4. QED BY <1>4, <1>9, <1>21, <3>1, <3>3
  <2>3. QED BY <1>4, <2>1, <2>2 DEF OnStream
<1>23. ASSUME NEW x \in (b + 1)..next PROVE x \in Waiting(v, message) <=> a < x
  <2>1. \A i \in 1..k : v[i][1] = Nth(e, b, c + i - 1)[1]
    <3>1. ASSUME NEW i \in 1..k PROVE v[i][1] = Nth(e, b, c + i - 1)[1]
      <4>1. Fragment(v[i])[1] = v[i][1] BY DEF Fragment
      <4>2. QED BY <1>20, <4>1
    <3>2. QED BY <3>1
  <2>2. ASSUME x \in Waiting(v, message) PROVE a < x
    <3>1. CASE \E i \in 1..k : x = v[i][1]
      <4>1. PICK i \in 1..k : x = v[i][1] BY <3>1
      <4>2. PICK n \in Nat \ {0} : n = c + i - 1 /\ c <= n OBVIOUS
      <4>3. Nth(e, b, c)[1] <= Nth(e, b, n)[1] BY <4>2, NthGrows
      <4>4. x = Nth(e, b, n)[1] BY <2>1, <4>1, <4>2
      <4>5. first <= x BY <1>12, <4>3, <4>4
      <4>6. QED BY <1>17, <4>5
    <3>2. CASE message # NoMessage /\ x = message[1]
      <4>1. first <= x BY <1>4, <1>14, <1>15, <3>2
      <4>2. QED BY <1>17, <4>1
    <3>3. QED BY <1>6, <2>2, <3>1, <3>2 DEF Waiting
  <2>3. ASSUME a < x PROVE x \in Waiting(v, message)
    <3>1. CASE message # NoMessage /\ x = next BY <1>4, <3>1 DEF Waiting
    <3>2. CASE ~(message # NoMessage /\ x = next)
      <4>1. x \in Nat /\ Nth(e, b, c)[1] <= x BY <1>12, <1>17, <2>3
      <4>b. x \in Nat /\ x <= next BY <1>a
      <4>2. x < Nth(e, b, d)[1] BY <1>15, <1>a, <3>2, <4>b
      <4>a. Nth(e, b, c)[1] <= x /\ c <= d BY <1>10, <4>1
      <4>c. HasOneOf(e, b, c, d, x) BY <4>2, <4>a, <4>b, NthReaches
      <4>3. PICK n \in c..(d - 1) : Nth(e, b, n)[1] = x BY <4>c DEF HasOneOf
      <4>4. PICK i : i = n - c + 1 OBVIOUS
      <4>5. i \in 1..k /\ c + i - 1 = n BY <1>10, <4>4
      <4>6. v[i][1] = x BY <2>1, <4>3, <4>5
      <4>7. QED BY <1>6, <4>5, <4>6 DEF Waiting
    <3>3. QED BY <3>1, <3>2
  <2>4. QED BY <2>2, <2>3
<1>24. RenewsFrom(e, a, b, v) BY <1>1, <1>22, <1>23 DEF RenewsFrom
<1>25. a \in b..next_message[e] BY <1>1, <1>17
<1>26. QED BY <1>1, <1>2, <1>24, <1>25

\* An empty window begins the stream behind the last message.
LEMMA EmptyStreams ==
    ASSUME OutTypes, NEW e \in ItEnds, it_conf' = it_conf, next_message' = next_message,
           out_tail'[e] = 1, outgoing'[e] = <<>>, out_message'[e] = NoMessage, it_sent'[e] = <<>>
    PROVE  Streams(e)'
<1>1. PICK next \in Nat : next = next_message[e] BY OutHas
<1>2. PICK w, sent, message : w = <<>> /\ sent = <<>> /\ message = NoMessage OBVIOUS
<1>3. Len(w) = 0 /\ Len(sent) = 0 /\ sent \in Seq(Nat) /\ next - 0 = next /\ 1 + 0 = 1 BY <1>2
<1>4. Nth(e, next, 1) = <<next + 1, 1>> BY NthHas
<1>5. (\A i \in 1..0 : FALSE) OBVIOUS
<1>6. OnStream(e, next, 1, w, message, next) BY <1>2, <1>3, <1>4, <1>5 DEF OnStream, Coming
<1>7. next - Len(sent) = next /\ \A i \in 1..Len(sent) : sent[i] = next + i BY <1>3, <1>5
<1>8. /\ outgoing'[e] = w /\ out_message'[e] = message /\ it_sent'[e] = sent
      /\ next_message'[e] = next
  BY <1>1, <1>2
<1>9. QED BY <1>3, <1>6, <1>7, <1>8, StreamsBecome

\* With Reintroduce_Messages the streams go on with what is sent again.
LEMMA ReintroducedStreams ==
    ASSUME OutTypes, HistTypes, NEW e \in ItEnds, OutWindow(e), Streams(e), NEW inc \in Nat,
           IncarnationChange(e, inc), it_conf.Reintroduce
    PROVE  Streams(e)'
<1>1. PICK skipped \in 0..Len(outgoing[e]) :
         /\ Skips(outgoing[e], skipped)
         /\ PacksAgain(e, Renewed(outgoing[e], skipped, inc), inc)
         /\ it_sent'[e] = Among(it_sent[e], Waiting(Renewed(outgoing[e], skipped, inc),
                                                    out_message[e]))
  BY ChangeRenews
<1>2. PICK v : v = Renewed(outgoing[e], skipped, inc) OBVIOUS
<1>3. PICK b, sent, next :
         b = Start(e) /\ sent = it_sent[e] /\ next = next_message[e]
  OBVIOUS
<1>4. /\ b \in Nat /\ sent \in Seq(Nat) /\ next \in Nat /\ Len(sent) \in Nat
      /\ CountsUp(sent, b)
      /\ b = next - Len(sent)
      /\ OnStream(e, b, out_tail[e], outgoing[e], out_message[e], next)
  BY <1>3, OutHas DEF Streams, Start, CountsUp
<1>5. b <= next BY <1>4
<1>6. PICK a \in b..next : RenewsFrom(e, a, b, v) BY <1>1, <1>2, <1>3, <1>4, <1>5, RenewedStreams
<1>7. PICK set, again : set = Waiting(v, out_message[e]) /\ again = Among(sent, set) OBVIOUS
<1>8. /\ OnStream(e, a, 1, v, out_message[e], next)
      /\ HasAbove(set, b + 1, next, a)
  BY <1>3, <1>6, <1>7 DEF RenewsFrom, HasAbove
<1>9. PICK k : k = a - b OBVIOUS
<1>10. /\ k \in 0..Len(sent) /\ b + k = a /\ b + Len(sent) = next /\ a \in Nat
       /\ Len(sent) - k = next - a
  <2>1. PICK n : n = Len(sent) OBVIOUS
  <2>2. b \in Nat /\ next \in Nat /\ n \in Nat /\ b = next - n BY <1>4, <2>1
  <2>3. k \in 0..n /\ b + k = a /\ b + n = next /\ a \in Nat /\ n - k = next - a
    BY ONLY <1>9, <2>2, a \in b..next
  <2>4. QED BY <2>1, <2>3
<1>11. CountsUp(again, a) /\ Len(again) = next - a
  <2>1. HasAbove(set, b + 1, b + Len(sent), b + k) BY <1>8, <1>10
  <2>2. CountsUp(again, b + k) /\ Len(again) = Len(sent) - k
    BY <1>4, <1>7, <1>10, <2>1, AmongHas
  <2>3. QED BY <1>10, <2>2
<1>12. /\ again \in Seq(Nat) /\ next - Len(again) = a
       /\ \A i \in 1..Len(again) : again[i] = a + i
  <2>1. again \in Seq(Nat) /\ \A i \in 1..Len(again) : again[i] = a + i BY <1>11 DEF CountsUp
  <2>2. next - Len(again) = a BY <1>4, <1>10, <1>11
  <2>3. QED BY <2>1, <2>2
<1>13. /\ outgoing[e] \in Seq(Pkt) /\ Len(outgoing[e]) \in Nat
       /\ out_message[e] \in {NoMessage} \cup Nat \X Nat
  BY OutHas
<1>14. /\ Len(outgoing[e]) <= MAX_SEND_ON_LINK /\ Ordered(outgoing[e])
       /\ next <= Len(Fragments[e])
       /\ UpTo(outgoing[e], next) /\ Behind(outgoing[e], out_message[e])
       /\ out_message[e] # NoMessage =>
             /\ out_message[e][1] \in 1..next
             /\ out_message[e][2] \in 1..Fragments[e][out_message[e][1]]
  BY <1>3 DEF OutWindow, MessageWaits
<1>15. v \in Seq(Pkt) /\ Len(v) = Len(outgoing[e]) - skipped
  BY <1>2, <1>13, <1>14, RenewedHas
<1>16. Len(v) <= MAX_SEND_ON_LINK BY <1>13, <1>14, <1>15, ItConstants
<1>17. out_message[e] # NoMessage => out_message[e][1] \in 1..Len(Fragments[e])
  <2>1. it_conf \in Configurations BY DEF OutTypes
  <2>2. Len(Fragments[e]) \in Nat BY <2>1, FragmentsHave
  <2>3. QED BY <1>4, <1>14, <2>2
<1>18. PICK tail \in Nat \ {0} : tail = 1 OBVIOUS
<1>19. PICK digest : digest = Digests(DigestsLeft(e), 1, v) OBVIOUS
<1>20. Pack(e, tail, v, digest, out_message[e], inc) BY <1>1, <1>2, <1>18, <1>19 DEF PacksAgain
<1>21. OnStream(e, a, tail, v, out_message[e], next) BY <1>8, <1>18
<1>22. OnStream(e, a, tail, outgoing'[e], out_message'[e], next)
  BY <1>4, <1>10, <1>13, <1>14, <1>15, <1>16, <1>17, <1>20, <1>21, PackStreams
<1>23. PICK w, rest : w = outgoing'[e] /\ rest = out_message'[e] OBVIOUS
<1>24. /\ it_sent'[e] = again /\ out_tail'[e] = tail /\ next_message'[e] = next /\ it_conf' = it_conf
  <2>1. Forgets(e, inc) BY ChangeHas
  <2>2. QED BY <1>1, <1>2, <1>3, <1>7, <1>18, <2>1 DEF Forgets, OutTypes
<1>25. OnStream(e, a, tail, w, rest, next) BY <1>22, <1>23
<1>26. QED BY <1>4, <1>10, <1>12, <1>23, <1>24, <1>25, StreamsBecome

\* What Incarnation_Change leaves of the messages.
LEMMA ChangeStreams ==
    ASSUME ItInv, StreamInv, NEW e \in ItEnds, NEW inc \in Nat, IncarnationChange(e, inc)
    PROVE  Streams(e)' /\ HistTypes' /\ HistRests(Other(e)) /\ Empties(e)
<1> DEFINE o == Other(e)
<1>1. o \in ItEnds /\ o # e BY TwoEnds
<1>2. ItTypes /\ OutTypes /\ OutWindow(e) /\ HistTypes /\ Streams(e)
  BY InvHas, StreamInvHas DEF ItTypes, WindowsOf
<1>3. /\ in_message' = [in_message EXCEPT ![e] = <<>>] /\ it_got' = [it_got EXCEPT ![e] = <<>>]
      /\ blacklisted' = blacklisted
      /\ \E sent : it_sent' = [it_sent EXCEPT ![e] = sent]
  BY DEF IncarnationChange
<1>4. HistTypes' /\ HistRests(o) BY <1>1, <1>2, <1>3 DEF HistTypes, HistRests
<1>5. Empties(e) BY <1>2, <1>3 DEF HistTypes, Empties
<1>6. ASSUME it_conf.Reintroduce PROVE Streams(e)' BY <1>2, <1>6, ReintroducedStreams
<1>7. ASSUME ~it_conf.Reintroduce PROVE Streams(e)'
  <2>1. Forgets(e, inc) BY <1>2, ChangeHas
  <2>2. /\ it_sent' = [it_sent EXCEPT ![e] = <<>>] /\ outgoing' = [outgoing EXCEPT ![e] = <<>>]
        /\ out_message' = [out_message EXCEPT ![e] = NoMessage]
    BY <1>7 DEF IncarnationChange
  <2>3. /\ it_sent'[e] = <<>> /\ outgoing'[e] = <<>> /\ out_message'[e] = NoMessage
        /\ out_tail'[e] = 1 /\ it_conf' = it_conf /\ next_message' = next_message
    BY <1>2, <2>1, <2>2 DEF Forgets, OutTypes, HistTypes
  <2>4. QED BY <1>2, <2>3, EmptyStreams
<1>8. QED BY <1>4, <1>5, <1>6, <1>7

\* A change of incarnation.
LEMMA ChangeStreamStep ==
    ASSUME ItInv, StreamInv, NEW e \in ItEnds, NEW m \in it_net[e], m.inc > ngbr_incarnation[e],
           IncarnationChange(e, m.inc), Step(e)
    PROVE  StreamStep(e)
<1>1. PICK inc : inc = m.inc OBVIOUS
<1>2. ItTypes /\ inc \in Nat /\ ngbr_incarnation[e] \in Nat BY <1>1, ReadHas, InvHas, EndHas
<1>3. IncarnationChange(e, inc) BY <1>1
<1>4. Streams(e)' /\ HistTypes' /\ HistRests(Other(e)) /\ Empties(e) BY <1>2, <1>3, ChangeStreams
<1>5. ngbr_incarnation'[e] = inc BY <1>2, <1>3 DEF IncarnationChange, ItTypes, IncTypes
<1>6. ~Goes(e) BY <1>1, <1>2, <1>5 DEF Goes
<1>7. QED BY <1>4, <1>6 DEF Step, StreamStep

\* A ping.
LEMMA ProcessITPingStreams ==
    ASSUME ItInv, StreamInv, NEW e \in ItEnds, NEW m \in it_net[e], ProcessITPing(e, m)
    PROVE  StreamStep(e)
<1>1. Step(e) BY ProcessITPingStep
<1>2. CASE m.inc > ngbr_incarnation[e]
  <2>1. IncarnationChange(e, m.inc) BY <1>2 DEF ProcessITPing
  <2>2. QED BY <1>1, <1>2, <2>1, ChangeStreamStep
<1>3. CASE ~(m.inc > ngbr_incarnation[e])
  <2>1. UNCHANGED <<it_conf, outVars, inVars, incVars, upVars>> BY <1>3 DEF ProcessITPing
  <2>2. QED BY <1>1, <2>1, QuietStreams
<1>4. QED BY <1>2, <1>3

\* The exchange of keys.
LEMMA ProcessITDHStreams ==
    ASSUME ItInv, StreamInv, NEW e \in ItEnds, NEW m \in it_net[e], ProcessITDH(e, m)
    PROVE  StreamStep(e)
<1>1. Step(e) BY ProcessITDHStep
<1>2. m.inc > ngbr_incarnation[e] /\ IncarnationChange(e, m.inc) BY DEF ProcessITDH
<1>3. QED BY <1>1, <1>2, ChangeStreamStep

\* A restart.
LEMMA RestartStreams ==
    ASSUME ItInv, StreamInv, NEW e \in ItEnds, Restart(e)
    PROVE  StreamStep(e)
<1> DEFINE o == Other(e)
<1>1. o \in ItEnds /\ o # e BY TwoEnds
<1>2. ItTypes /\ OutTypes /\ HistTypes BY InvHas, StreamInvHas DEF ItTypes
<1>3. Step(e) BY RestartStep
<1>4. /\ it_sent' = [it_sent EXCEPT ![e] = <<>>] /\ it_got' = [it_got EXCEPT ![e] = <<>>]
      /\ in_message' = [in_message EXCEPT ![e] = <<>>]
      /\ blacklisted' = [blacklisted EXCEPT ![e] = FALSE]
      /\ out_tail' = [out_tail EXCEPT ![e] = 1] /\ outgoing' = [outgoing EXCEPT ![e] = <<>>]
      /\ out_message' = [out_message EXCEPT ![e] = NoMessage]
      /\ my_incarnation' = [my_incarnation EXCEPT ![e] = @ + 1]
      /\ it_conf' = it_conf /\ next_message' = next_message
  BY DEF Restart
<1>5. HistTypes' /\ HistRests(o) BY <1>1, <1>2, <1>4 DEF HistTypes, HistRests
<1>6. Empties(e) BY <1>2, <1>4 DEF HistTypes, Empties
<1>7. Streams(e)'
  <2>1. /\ it_sent'[e] = <<>> /\ outgoing'[e] = <<>> /\ out_message'[e] = NoMessage /\ out_tail'[e] = 1
    BY <1>2, <1>4 DEF OutTypes, HistTypes
  <2>2. QED BY <1>2, <1>4, <2>1, EmptyStreams
<1>8. ~Goes(e)
  <2>1. my_incarnation'[e] = my_incarnation[e] + 1 /\ my_incarnation[e] \in Nat
    BY <1>2, <1>4, EndHas DEF ItTypes, IncTypes
  <2>2. QED BY <2>1 DEF Goes
<1>9. QED BY <1>3, <1>5, <1>6, <1>7, <1>8 DEF Step, StreamStep

-----------------------------------------------------------------------------
(* What is delivered *)

\* The ends begin with nothing sent.
LEMMA StreamInit ==
    ASSUME ItInit
    PROVE  StreamInv
<1>1. ItTypes BY ItInitInv DEF ItInv
<1>2. HistTypes BY DEF ItInit, HistTypes, Quiet
<1>3. ASSUME NEW e \in ItEnds
      PROVE  /\ out_tail[e] = 1 /\ outgoing[e] = <<>> /\ out_message[e] = NoMessage
             /\ next_message[e] = 0 /\ it_sent[e] = <<>>
             /\ in_tail[e] = 1 /\ in_head[e] = 1
             /\ in_message[e] = <<>> /\ it_got[e] = <<>> /\ blacklisted[e] = FALSE
             /\ it_net[e] = {}
  BY DEF ItInit, Fresh0, Quiet
<1>4. \A i \in 1..0 : FALSE OBVIOUS
<1>5. ASSUME NEW e \in ItEnds PROVE Streams(e) /\ Start(e) = 0
  <2>1. PICK w, sent, message : w = outgoing[e] /\ sent = it_sent[e] /\ message = out_message[e]
    OBVIOUS
  <2>2. w = <<>> /\ sent = <<>> /\ message = NoMessage BY <1>3, <2>1
  <2>3. Len(w) = 0 /\ Len(sent) = 0 /\ sent \in Seq(Nat) /\ 1 + 0 = 1 BY <2>2
  <2>4. Nth(e, 0, 1) = <<0 + 1, 1>> BY NthHas
  <2>5. OnStream(e, 0, 1, w, message, 0) BY <1>4, <2>2, <2>3, <2>4 DEF OnStream, Coming
  <2>6. Start(e) = 0
    <3>1. Start(e) = 0 - Len(sent) BY <1>3, <2>1 DEF Start
    <3>2. 0 - Len(sent) = 0 BY <2>3
    <3>3. QED BY <3>1, <3>2
  <2>7. OnStream(e, Start(e), out_tail[e], outgoing[e], out_message[e], next_message[e])
    BY <1>3, <2>1, <2>5, <2>6
  <2>8. it_sent[e] \in Seq(Nat) /\ Start(e) \in Nat /\ Len(it_sent[e]) = 0 BY <2>1, <2>3, <2>6
  <2>9. \A i \in 1..Len(it_sent[e]) : it_sent[e][i] = Start(e) + i BY <1>4, <2>8
  <2>10. QED BY <2>6, <2>7, <2>8, <2>9 DEF Streams
<1>6. ASSUME NEW e \in ItEnds, NEW i \in Nat PROVE Link(e, i, 0)
  <2>1. Other(e) \in ItEnds BY TwoEnds
  <2>2. PICK cells, acc : cells = incoming[Other(e)] /\ acc = GatheredBy(Other(e)) OBVIOUS
  <2>3. acc = [parts |-> <<>>, got |-> <<>>, bad |-> FALSE] BY <1>3, <2>1, <2>2 DEF GatheredBy
  <2>4. Follows(e, 0, 1, 1, cells, acc) BY <2>3, NothingFollows
  <2>5. Received(e, Other(e), 0) BY <1>3, <2>1, <2>2, <2>4 DEF Received
  <2>6. QED BY <1>3, <1>5, <2>1, <2>5 DEF Link
<1>7. \A e \in ItEnds : Streams(e) /\ \A i \in Nat : \E b \in Nat : Link(e, i, b) BY <1>5, <1>6
<1>8. QED BY <1>2, <1>7 DEF StreamInv

\* Every step of an end keeps the streams.
LEMMA StreamNextKeeps ==
    ASSUME ItInv, StreamInv, ItNext
    PROVE  StreamInv'
<1>1. PICK e \in ItEnds : ItEndNext(e) BY DEF ItNext
<1>2. Step(e) /\ StreamStep(e)
  <2>1. CASE ForwardIT(e) BY <2>1, ForwardITStep, ForwardITStreams
  <2>2. CASE AckITTimeout(e)
    <3>1. UNCHANGED <<it_conf, outVars, inVars, incVars, upVars>> BY <2>2 DEF AckITTimeout
    <3>2. QED BY <2>2, <3>1, AckITTimeoutStep, QuietStreams
  <2>3. CASE ReliableITTimeout(e)
    <3>1. UNCHANGED <<it_conf, outVars, inVars, incVars, upVars>> BY <2>3 DEF ReliableITTimeout
    <3>2. QED BY <2>3, <3>1, ReliableITTimeoutStep, QuietStreams
  <2>4. CASE HandleITRetransm(e)
    <3>1. UNCHANGED <<it_conf, outVars, inVars, incVars, upVars>> BY <2>4 DEF HandleITRetransm
    <3>2. QED BY <2>4, <3>1, HandleITRetransmStep, QuietStreams
  <2>5. CASE PingITTimeout(e)
    <3>1. UNCHANGED <<it_conf, outVars, inVars, incVars, upVars>> BY <2>5 DEF PingITTimeout
    <3>2. QED BY <2>5, <3>1, PingITTimeoutStep, QuietStreams
  <2>6. CASE SendITDH(e)
    <3>1. UNCHANGED <<it_conf, outVars, inVars, incVars, upVars>> BY <2>6 DEF SendITDH
    <3>2. QED BY <2>6, <3>1, SendITDHStep, QuietStreams
  <2>7. ASSUME NEW m \in it_net[e], ProcessITPacket(e, m) PROVE Step(e) /\ StreamStep(e)
    BY <2>7, ProcessITPacketStep, ProcessITPacketStreams
  <2>8. ASSUME NEW m \in it_net[e], ProcessITPing(e, m) PROVE Step(e) /\ StreamStep(e)
    BY <2>8, ProcessITPingStep, ProcessITPingStreams
  <2>9. ASSUME NEW m \in it_net[e], ProcessITDH(e, m) PROVE Step(e) /\ StreamStep(e)
    BY <2>9, ProcessITDHStep, ProcessITDHStreams
  <2>10. ASSUME NEW m \in it_net[e], DropIT(e, m) PROVE Step(e) /\ StreamStep(e)
    <3>1. UNCHANGED <<it_conf, outVars, inVars, incVars, upVars>> BY <2>10 DEF DropIT
    <3>2. QED BY <2>10, <3>1, DropITStep, QuietStreams
  <2>11. CASE Restart(e) BY <2>11, RestartStep, RestartStreams
  <2>12. QED
    BY <1>1, <2>1, <2>2, <2>3, <2>4, <2>5, <2>6, <2>7, <2>8, <2>9, <2>10, <2>11 DEF ItEndNext
<1>3. QED BY <1>2, StreamStepKeeps

\* So does a step in which nothing happens.
LEMMA StreamStuttersKeep ==
    ASSUME ItInv, StreamInv, UNCHANGED itVars
    PROVE  StreamInv'
<1>1. 0 \in ItEnds BY DEF ItEnds
<1>2. ItTypes BY <1>1, InvHas
<1>3. /\ UNCHANGED <<it_conf, outVars, inVars, incVars, upVars>> /\ it_net' = it_net
      /\ nacked' = nacked /\ dh_pkt' = dh_pkt
  BY DEF itVars, dhVars, retransmVars
<1>4. QuietExcept(0) BY <1>2, <1>3 DEF QuietExcept, ItTypes, OutTypes, IncTypes
<1>5. DOMAIN it_net' = ItEnds /\ NetMoves(0) BY <1>2, <1>3 DEF ItTypes, IncTypes, NetMoves
<1>6. Step(0) BY <1>1, <1>4, <1>5, QuietStep
<1>7. StreamStep(0) BY <1>1, <1>3, <1>6, QuietStreams
<1>8. QED BY <1>1, <1>6, <1>7, StreamStepKeeps

\* Between paired ends what one has delivered is what the other has sent.
LEMMA PairedDeliver ==
    ASSUME ItInv, StreamInv, Paired, NEW e \in ItEnds
    PROVE  /\ Len(it_got[e]) <= Len(it_sent[Other(e)])
           /\ \A i \in DOMAIN it_got[e] :
                 /\ Len(it_got[e][i]) = Fragments[Other(e)][it_sent[Other(e)][i]]
                 /\ \A j \in DOMAIN it_got[e][i] : it_got[e][i][j] = it_sent[Other(e)][i]
<1> DEFINE o == Other(e)
<1>1. o \in ItEnds /\ Other(o) = e BY TwoEnds
<1>2. /\ ItTypes /\ OutTypes /\ WindowsOf(o) /\ WindowsOf(e) /\ LinkRight(o, e) /\ Streams(o)
  <2>1. Paired => LinkRight(o, Other(o)) BY <1>1, InvHas
  <2>2. QED BY <1>1, <2>1, InvHas, StreamInvHas DEF ItTypes
<1>3. /\ ngbr_incarnation[e] = my_incarnation[o] /\ ngbr_incarnation[o] = my_incarnation[e]
      /\ my_incarnation[o] \in Nat
  BY <1>1, <1>2, EndHas DEF Paired
<1>4. PICK b \in Nat : Link(o, my_incarnation[o], b) BY <1>1, <1>3, StreamInvHas
<1>5. b = Start(o) /\ Received(o, e, b) BY <1>1, <1>3, <1>4 DEF Link
<1>6. PICK acc, got, sent, next, c, d :
         /\ acc = GatheredBy(e) /\ got = it_got[e] /\ sent = it_sent[o]
         /\ next = next_message[o] /\ c = in_tail[e] /\ d = OutHead(o)
  OBVIOUS
<1>7. Gathered(o, b, c, acc) BY <1>5, <1>6 DEF Received, Follows
<1>8. acc \in Gatherings /\ acc.got = got BY <1>6, <1>7 DEF GatheredBy, Gathered
<1>9. got \in Seq(Seq(Nat)) BY <1>8 DEF Gatherings
<1>10. /\ Nth(o, b, c) = <<b + Len(got) + 1, Len(acc.parts) + 1>>
       /\ \A i \in 1..Len(got) : Len(got[i]) = Fragments[o][b + i]
       /\ \A i \in 1..Len(got) : \A j \in DOMAIN got[i] : got[i][j] = b + i
  BY <1>7, <1>8 DEF Gathered
<1>11. /\ sent \in Seq(Nat) /\ next \in Nat /\ b = next - Len(sent)
       /\ \A i \in 1..Len(sent) : sent[i] = b + i
       /\ OnStream(o, b, out_tail[o], outgoing[o], out_message[o], next)
  BY <1>1, <1>2, <1>5, <1>6, OutHas DEF Streams, Start
<1>12. /\ Nth(o, b, d) = Coming(out_message[o], next)
       /\ out_message[o] # NoMessage => out_message[o][1] = next
  BY <1>6, <1>11 DEF OnStream, OutHead
<1>13. Nth(o, b, d)[1] <= next + 1 BY <1>11, <1>12 DEF Coming
<1>14. c \in Nat \ {0} /\ d \in Nat \ {0} /\ c <= d
  <2>1. in_tail[e] <= in_head[e] /\ in_head[e] <= tcp_head[o] /\ tcp_head[o] <= OutHead(o)
    BY <1>1, <1>2, WindowsHave DEF LinkRight
  <2>2. /\ in_tail[e] \in Nat /\ in_tail[e] > 0 /\ in_head[e] \in Nat /\ tcp_head[o] \in Nat
        /\ OutHead(o) \in Nat
    BY <1>1, <1>2, EndHas
  <2> HIDE DEF OutHead
  <2>3. QED BY <1>6, <2>1, <2>2
<1>15. Nth(o, b, c)[1] <= Nth(o, b, d)[1] BY <1>14, NthGrows
<1>16. Len(got) <= Len(sent)
  <2>1. Len(got) \in Nat /\ Len(sent) \in Nat BY <1>9, <1>11
  <2>2. Nth(o, b, d)[1] \in Nat BY <1>14, NthHas
  <2>3. Nth(o, b, c)[1] = b + Len(got) + 1 BY <1>10
  <2>4. QED BY <1>11, <1>13, <1>15, <2>1, <2>2, <2>3
<1>17. ASSUME NEW i \in DOMAIN got
       PROVE  Len(got[i]) = Fragments[o][sent[i]] /\ \A j \in DOMAIN got[i] : got[i][j] = sent[i]
  <2>1. i \in 1..Len(got) /\ i \in 1..Len(sent) BY <1>9, <1>11, <1>16
  <2>2. QED BY <1>10, <1>11, <2>1
<1>18. QED BY <1>6, <1>16, <1>17

\* The link delivers in order, whatever is lost, duplicated or crowded out, however often the
\* daemons start again and whichever messages are reintroduced: Build_Message_From_Fragments_IT
\* finds the fragments of each message together, one after the other, and never blacklists a
\* correct neighbour.
THEOREM ItAlwaysDeliversInOrder == ItSpec => []ItDeliversInOrder
<1>1. ItInit => ItInv /\ StreamInv BY ItInitInv, StreamInit
<1>2. ItInv /\ StreamInv /\ [ItNext]_itVars => (ItInv /\ StreamInv)'
  <2>1. ItInv /\ StreamInv /\ ItNext => ItInv' /\ StreamInv' BY ItNextKeeps, StreamNextKeeps
  <2>2. ItInv /\ StreamInv /\ UNCHANGED itVars => ItInv' /\ StreamInv'
    BY ItStuttersKeep, StreamStuttersKeep
  <2>3. QED BY <2>1, <2>2
<1>3. ItInv /\ StreamInv => ItDeliversInOrder
  <2>1. ASSUME ItInv, StreamInv PROVE ItDeliversInOrder
    <3>1. \A e \in ItEnds : ~blacklisted[e] BY <2>1, InvHas, NobodyIsBlacklisted
    <3>2. QED BY <2>1, <3>1, PairedDeliver DEF ItDeliversInOrder
  <2>2. QED BY <2>1
<1>4. QED BY <1>1, <1>2, <1>3, PTL DEF ItSpec
=============================================================================
