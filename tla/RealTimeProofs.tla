--------------------------- MODULE RealTimeProofs ---------------------------
(***************************************************************************)
(* The real-time transport of p2, whatever the number of clients, the        *)
(* windows, the NACKs of an ACK, the clocks, what is lost or duplicated and  *)
(* the datagrams under way: one client is served, both windows hold packets  *)
(* in their places, what a NACK asks for is resent or nothing is, and what    *)
(* goes to the application is a stream with gaps, whose losses are counted.   *)
(***************************************************************************)
EXTENDS RealTime, FunctionTheorems, FiniteSetTheorems, SequenceTheorems, WellFoundedInduction,
        TLAPS

-----------------------------------------------------------------------------
(* The inductive invariant, by what it is about *)

\* The server's variables that the others depend on.  Nothing is said of the bytes of NACK
\* arrays, some of which nobody wrote.
SrvBasics ==
    /\ now \in Nat /\ seq \in Nat /\ seq >= 1 /\ head \in Int /\ head >= 1
    /\ current_addr \in Clients /\ rcv_addr \in Clients /\ Request \in BOOLEAN
    /\ DOMAIN srvWindow = Slots /\ DOMAIN slide = Slots
    /\ \A s \in Slots : srvWindow[s].seq \in 0..(seq - 1)

\* The same of the clients.
CliBasics ==
    /\ DOMAIN cliPhase = Clients
    /\ C_ack \in [Clients -> Nat]
    /\ buffer \in [Clients -> [Slots -> BOOLEAN]]
    /\ DOMAIN buffersize = Clients
    /\ rcvd_count \in [Clients -> Nat]
    /\ cliReport \in [Clients -> Nat \cup {Unset}]
    /\ DOMAIN cliWindow = Clients /\ \A p \in Clients : DOMAIN cliWindow[p] = Slots

\* Nobody is served before somebody has asked, and then it is the one that is served.
Admission ==
    /\ ~Request => toCli = {} /\ \A p \in Clients : cliPhase[p] # "receiving"
    /\ \A m \in toCli : m.type = PERMIT => m.dst = current_addr
    /\ ServesOneClient

\* The last WINDOW_SIZE packets sent are in their slots, wherever the window starts, and a
\* slot expires no later than Latency after its packet was sent.
SrvHolds ==
    /\ \A s \in 1..(seq - 1) : s >= seq - WINDOW_SIZE => srvWindow[Slot(s)].seq = s
    /\ \A k \in Slots : /\ slide[k] \in Nat /\ srvWindow[k].ts \in Nat
                         /\ slide[k] <= srvWindow[k].ts + Latency

\* Packets were sent before they arrive, NACKs are about packets that were sent, and only a
\* client that has accepted one sends an ACK or is resent one.
ToCliRight ==
    \A m \in toCli :
        /\ m.dst \in Clients
        /\ m.type \in {DATA, RESENT} => m.seq \in 0..(seq - 1)
        /\ m.type = RESENT => rcvd_count[m.dst] > 0

ToSrvRight ==
    \A m \in toSrv :
        /\ m.src \in Clients
        /\ m.type = ACK =>
              /\ rcvd_count[m.src] > 0
              /\ \A i \in 1..NACK_SIZE : m.nack[i] = -1 \/ m.nack[i] \in 1..(seq - 1)

RtInv ==
    /\ SrvBasics /\ CliBasics /\ Admission /\ SrvHolds /\ ToCliRight /\ ToSrvRight
    /\ ReportTimerSet /\ RtBufferAgrees

-----------------------------------------------------------------------------
(* Slots *)

\* The constants that the proofs below use, with their types.
LEMMA RtConstants ==
    /\ WINDOW_SIZE \in Nat /\ WINDOW_SIZE > 0 /\ NACK_SIZE \in Nat /\ StartTime \in Nat
    /\ Report_Interval \in Nat
BY RtNetAssumption

\* Division by a window size.
LEMMA Division ==
    ASSUME NEW n \in Nat, n > 0, NEW a \in Int
    PROVE  a = n * (a \div n) + (a % n)
OBVIOUS

\* The remainder, from a quotient.
LEMMA Remainder ==
    ASSUME NEW n \in Nat, n > 0, NEW q \in Int, NEW r \in 0..(n - 1)
    PROVE  (n * q + r) % n = r
OBVIOUS

\* A packet has a slot.
LEMMA SlotType ==
    ASSUME NEW s \in Int
    PROVE  Slot(s) \in Slots /\ Slot(s) \in 0..(WINDOW_SIZE - 1) /\ Slot(s) \in Int
BY RtConstants DEF Slot, Slots

\* Two packets less than a window apart have different slots.
LEMMA SlotInjective ==
    ASSUME NEW a \in Int, NEW b \in Int, a <= b, b < a + WINDOW_SIZE, Slot(a) = Slot(b)
    PROVE  a = b
<1> DEFINE Windows(k) == WINDOW_SIZE * k
           q == a \div WINDOW_SIZE
           r == b \div WINDOW_SIZE
<1>1. WINDOW_SIZE \in Nat /\ WINDOW_SIZE > 0 BY RtConstants
<1>2. q \in Int /\ r \in Int /\ Slot(a) \in Int BY <1>1 DEF Slot
<1>3. a = Windows(q) + Slot(a) BY <1>1, Division DEF Slot
<1>4. b = Windows(r) + Slot(b) BY <1>1, Division DEF Slot
<1> HIDE DEF q, r
<1>5. /\ Windows(r) \in Int /\ Windows(q) \in Int
      /\ r - q >= 1 => Windows(r) - Windows(q) >= WINDOW_SIZE
      /\ r - q <= -1 => Windows(q) - Windows(r) >= WINDOW_SIZE
  <2>1. \A k \in Int : k >= 1 => WINDOW_SIZE * k >= WINDOW_SIZE BY <1>1
  <2>2. /\ WINDOW_SIZE * (r - q) = Windows(r) - Windows(q)
        /\ WINDOW_SIZE * (q - r) = Windows(q) - Windows(r)
    BY <1>1, <1>2
  <2>3. Windows(r) \in Int /\ Windows(q) \in Int BY <1>1, <1>2
  <2> HIDE DEF Windows
  <2>4. QED BY <1>2, <2>1, <2>2, <2>3
<1> HIDE DEF Windows
<1>6. ~(r - q >= 1) /\ ~(r - q <= -1) BY <1>1, <1>2, <1>3, <1>4, <1>5
<1>7. r = q BY <1>2, <1>6
<1>8. QED BY <1>3, <1>4, <1>7

\* The same, whichever of the two comes first.
LEMMA SlotsDiffer ==
    ASSUME NEW a \in Int, NEW b \in Int, a # b, a < b + WINDOW_SIZE, b < a + WINDOW_SIZE
    PROVE  Slot(a) # Slot(b)
<1>1. CASE a <= b BY <1>1, SlotInjective
<1>2. CASE b <= a BY <1>2, SlotInjective
<1>3. QED BY <1>1, <1>2

\* A window back the slots are the same.
LEMMA SlotShift ==
    ASSUME NEW a \in Int
    PROVE  Slot(a - WINDOW_SIZE) = Slot(a)
<1> DEFINE Windows(k) == WINDOW_SIZE * k
           q == a \div WINDOW_SIZE
<1>1. WINDOW_SIZE \in Nat /\ WINDOW_SIZE > 0 BY RtConstants
<1>2. q \in Int /\ Slot(a) \in 0..(WINDOW_SIZE - 1) /\ Slot(a) \in Int BY <1>1 DEF Slot
<1>3. a = Windows(q) + Slot(a) BY <1>1, Division DEF Slot
<1> HIDE DEF q
<1>4. Windows(q - 1) = Windows(q) - WINDOW_SIZE /\ Windows(q) \in Int BY <1>1, <1>2
<1>5. (Windows(q - 1) + Slot(a)) % WINDOW_SIZE = Slot(a)
  BY <1>1, <1>2, Remainder DEF Slot
<1> HIDE DEF Windows
<1>6. a - WINDOW_SIZE = Windows(q - 1) + Slot(a) BY <1>1, <1>2, <1>3, <1>4
<1>7. (a - WINDOW_SIZE) % WINDOW_SIZE = Slot(a) BY <1>5, <1>6
<1>8. QED BY <1>7 DEF Slot

\* Any window has a packet for each slot.
LEMMA SlotReached ==
    ASSUME NEW a \in Int, NEW b \in Int
    PROVE  \E t \in a..(a + WINDOW_SIZE - 1) : Slot(t) = Slot(b)
<1> DEFINE Windows(k) == WINDOW_SIZE * k
           q == (b - a) \div WINDOW_SIZE
           r == (b - a) % WINDOW_SIZE
           p == b \div WINDOW_SIZE
           t == a + r
<1>1. WINDOW_SIZE \in Nat /\ WINDOW_SIZE > 0 BY RtConstants
<1>2. q \in Int /\ p \in Int /\ r \in 0..(WINDOW_SIZE - 1) /\ r \in Int
      /\ Slot(b) \in 0..(WINDOW_SIZE - 1) /\ Slot(b) \in Int
  BY <1>1 DEF Slot
<1>3. b - a = Windows(q) + r
  <2>1. b - a \in Int OBVIOUS
  <2>2. QED BY <1>1, <2>1, Division
<1>4. b = Windows(p) + Slot(b) BY <1>1, Division DEF Slot
<1> HIDE DEF q, r, p
<1>5. Windows(p - q) = Windows(p) - Windows(q) /\ Windows(p) \in Int /\ Windows(q) \in Int
  BY <1>1, <1>2
<1>6. p - q \in Int BY <1>2
<1>7. (Windows(p - q) + Slot(b)) % WINDOW_SIZE = Slot(b) BY <1>1, <1>2, <1>6, Remainder
<1> HIDE DEF Windows
<1>8. t = Windows(p - q) + Slot(b) BY <1>2, <1>3, <1>4, <1>5
<1>9. Slot(t) = Slot(b) BY <1>7, <1>8 DEF Slot
<1>10. t \in a..(a + WINDOW_SIZE - 1) BY <1>1, <1>2
<1>11. QED BY <1>9, <1>10

\* The packets of a part of a window have as many slots.
LEMMA SlotsCounted ==
    ASSUME NEW c \in Int, NEW S \in SUBSET ((c + 1)..(c + WINDOW_SIZE))
    PROVE  /\ IsFiniteSet(S) /\ IsFiniteSet({Slot(x) : x \in S})
           /\ Cardinality({Slot(x) : x \in S}) = Cardinality(S)
<1> DEFINE slots == {Slot(x) : x \in S}
           f == [x \in S |-> Slot(x)]
<1>0. WINDOW_SIZE \in Nat BY RtConstants
<1>1. f \in [S -> slots] OBVIOUS
<1>2. ASSUME NEW a \in S, NEW b \in S, f[a] = f[b] PROVE a = b
  <2>1. a \in Int /\ b \in Int /\ a < b + WINDOW_SIZE /\ b < a + WINDOW_SIZE BY <1>0
  <2>2. Slot(a) = Slot(b) BY <1>2
  <2>3. QED BY <2>1, <2>2, SlotsDiffer
<1>3. \A s \in slots : \E x \in S : f[x] = s OBVIOUS
<1>4. IsFiniteSet(S)
  <2>1. IsFiniteSet((c + 1)..(c + WINDOW_SIZE)) BY <1>0, FS_Interval
  <2>2. QED BY <2>1, FS_Subset
<1> HIDE DEF f, slots
<1>5. \A a, b \in S : f[a] = f[b] => a = b BY <1>2
<1>6. f \in Bijection(S, slots) BY <1>1, <1>3, <1>5, Fun_IsBij
<1>7. ExistsBijection(S, slots) BY <1>6 DEF ExistsBijection
<1>8. IsFiniteSet(slots) /\ Cardinality(slots) = Cardinality(S) BY <1>4, <1>7, FS_Bijection
<1>9. QED BY <1>4, <1>8 DEF slots

\* Some numbers have a least one.
LEMMA LeastExists ==
    ASSUME NEW S \in SUBSET Nat, S # {}
    PROVE  \E x \in S : \A y \in S : x <= y
<1>1. PICK x \in S : \A y \in S : <<y, x>> \notin OpToRel(<, Nat)
  BY NatLessThanWellFounded, WFMin
<1>2. ASSUME NEW y \in S PROVE x <= y
  <2>1. ~(y < x) BY <1>1 DEF OpToRel
  <2>2. QED BY <2>1
<1>3. QED BY <1>2

\* Some numbers of a window have a greatest one.
LEMMA GreatestExists ==
    ASSUME NEW b \in Int, NEW S \in SUBSET Int, S # {}, \A s \in S : s <= b
    PROVE  \E x \in S : \A y \in S : y <= x
<1> DEFINE T == {b - s : s \in S}
<1>1. T \in SUBSET Nat /\ T # {}
  <2>1. \A s \in S : b - s \in Nat OBVIOUS
  <2>2. \E s \in S : b - s \in T OBVIOUS
  <2>3. QED BY <2>1, <2>2
<1>2. PICK t \in T : \A y \in T : t <= y BY <1>1, LeastExists
<1>3. PICK x \in S : t = b - x OBVIOUS
<1>4. ASSUME NEW y \in S PROVE y <= x
  <2>1. b - x <= b - y BY <1>2, <1>3
  <2>2. QED BY <2>1
<1>5. QED BY <1>4

-----------------------------------------------------------------------------
(* What a step leaves alone *)

\* Intervals grow with their ends.
LEMMA IntervalsGrow ==
    ASSUME NEW a \in Int, NEW b \in Int, a <= b
    PROVE  0..(a - 1) \subseteq 0..(b - 1) /\ 1..(a - 1) \subseteq 1..(b - 1)
OBVIOUS

\* What is sent is in the network or was before.
LEMMA CarriedOnly ==
    ASSUME NEW net, NEW burst, NEW cap, NEW after \in Carried(net, burst, cap)
    PROVE  \A m \in after : m \in net \/ m \in burst
BY DEF Carried

\* Reading a datagram puts none into the network.
LEMMA ConsumedLeaves ==
    ASSUME NEW net, NEW m, NEW after \in Consumed(net, m)
    PROVE  after \subseteq net
BY DEF Consumed

\* The same for a client.
LEMMA ReadLeaves ==
    ASSUME NEW m, ReadFrom(m)
    PROVE  toCli' \subseteq toCli
BY DEF ReadFrom, Consumed

\* What is said of the clients survives a step of the server.
LEMMA ClientsRest ==
    ASSUME RtInv, UNCHANGED cliVars, seq' \in Nat, seq' >= seq
    PROVE  CliBasics' /\ ReportTimerSet' /\ RtBufferAgrees'
<1>1. /\ UNCHANGED <<cliPhase, C_ack, buffer, buffersize>>
      /\ UNCHANGED <<cliWindow, rcvd_count, cliReport>>
  BY DEF cliVars
<1>2. CliBasics' BY <1>1 DEF RtInv, CliBasics
<1>3. ReportTimerSet' BY <1>1 DEF RtInv, ReportTimerSet
<1>4. \A p \in Clients : Taken(p)' = Taken(p) BY <1>1 DEF Taken
<1>5. ASSUME NEW p \in Clients, NEW s \in Taken(p) PROVE cliWindow[p][Slot(s)].seq = s /\ s < seq'
  <2>1. cliWindow[p][Slot(s)].seq = s /\ s < seq BY DEF RtInv, RtBufferAgrees
  <2>2. s \in Int /\ seq \in Int BY DEF Taken, RtInv, SrvBasics
  <2>3. QED BY <2>1, <2>2
<1>6. RtBufferAgrees' BY <1>1, <1>4, <1>5 DEF RtInv, RtBufferAgrees
<1>7. QED BY <1>2, <1>3, <1>6

\* What is said of datagrams survives when more has been sent and accepted.
LEMMA OldDatagramsRight ==
    ASSUME RtInv, seq' \in Nat, seq' >= seq,
           \A p \in Clients : rcvd_count'[p] >= rcvd_count[p] /\ rcvd_count'[p] \in Nat
    PROVE  /\ \A m \in toCli :
                 /\ m.dst \in Clients
                 /\ m.type \in {DATA, RESENT} => m.seq \in 0..(seq' - 1)
                 /\ m.type = RESENT => rcvd_count'[m.dst] > 0
           /\ \A m \in toSrv :
                 /\ m.src \in Clients
                 /\ m.type = ACK =>
                       /\ rcvd_count'[m.src] > 0
                       /\ \A i \in 1..NACK_SIZE : m.nack[i] = -1 \/ m.nack[i] \in 1..(seq' - 1)
<1>1. seq \in Nat /\ \A p \in Clients : rcvd_count[p] \in Nat BY DEF RtInv, SrvBasics, CliBasics
<1>2. 0..(seq - 1) \subseteq 0..(seq' - 1) /\ 1..(seq - 1) \subseteq 1..(seq' - 1)
  <2>1. seq \in Int /\ seq' \in Int /\ seq <= seq' BY <1>1
  <2>2. QED BY <2>1, IntervalsGrow
<1>3. \A p \in Clients : rcvd_count[p] > 0 => rcvd_count'[p] > 0 BY <1>1
<1>4. \A m \in toCli : /\ m.dst \in Clients
                       /\ m.type \in {DATA, RESENT} => m.seq \in 0..(seq - 1)
                       /\ m.type = RESENT => rcvd_count[m.dst] > 0
  BY DEF RtInv, ToCliRight
<1>5. \A m \in toSrv : /\ m.src \in Clients
                       /\ m.type = ACK =>
                             /\ rcvd_count[m.src] > 0
                             /\ \A i \in 1..NACK_SIZE : m.nack[i] = -1 \/ m.nack[i] \in 1..(seq - 1)
  BY DEF RtInv, ToSrvRight
<1>6. QED BY <1>2, <1>3, <1>4, <1>5

-----------------------------------------------------------------------------
(* Steps of the server *)

\* The window never slides back.
LEMMA WindowSlides ==
    ASSUME RtInv, EndTurn
    PROVE  head' \in Int /\ head' >= head
<1> DEFINE fresh == {s \in head..(head + (WINDOW_SIZE - 1)) : ~Expired(s, slide', Halfrtt')}
<1>1. head \in Int /\ head >= 1 /\ WINDOW_SIZE \in Nat /\ MAX_INT \in Nat
  BY RtConstants DEF RtInv, SrvBasics, MAX_INT
<1>2. head' = IF head > MAX_INT - WINDOW_SIZE THEN head
              ELSE IF fresh = {} THEN MAX_INT - WINDOW_SIZE + 1
              ELSE CHOOSE s \in fresh : \A x \in fresh : s <= x
  BY DEF EndTurn, Slid
<1>3. \A s \in fresh : s \in Int /\ s >= head /\ s \in Nat BY <1>1
<1> HIDE DEF fresh
<1>4. CASE head > MAX_INT - WINDOW_SIZE BY <1>1, <1>2, <1>4
<1>5. CASE ~(head > MAX_INT - WINDOW_SIZE) /\ fresh = {} BY <1>1, <1>2, <1>5
<1>6. CASE ~(head > MAX_INT - WINDOW_SIZE) /\ fresh # {}
  <2>1. \E s \in fresh : \A x \in fresh : s <= x BY <1>3, <1>6, LeastExists
  <2>2. head' = CHOOSE s \in fresh : \A x \in fresh : s <= x BY <1>2, <1>6
  <2>3. head' \in fresh BY <2>1, <2>2
  <2>4. QED BY <1>3, <2>3
<1>7. QED BY <1>4, <1>5, <1>6

\* A step of the server that changes neither what was sent nor its window.
LEMMA SrvStep ==
    ASSUME RtInv, UNCHANGED cliVars, UNCHANGED <<now, seq, slide, srvWindow>>,
           head' \in Int, head' >= head,
           current_addr' \in Clients, rcv_addr' \in Clients, Request' \in BOOLEAN, Admission',
           toSrv' \subseteq toSrv,
           \A m \in toCli' : \/ m \in toCli
                             \/ /\ m.dst \in Clients
                                /\ m.type \in {DATA, RESENT} => m.seq \in 0..(seq - 1)
                                /\ m.type = RESENT => rcvd_count[m.dst] > 0
    PROVE  RtInv'
<1>1. seq \in Nat /\ seq >= 1 /\ head \in Int /\ head >= 1 /\ WINDOW_SIZE \in Nat
  BY RtConstants DEF RtInv, SrvBasics
<1>2. CliBasics' /\ ReportTimerSet' /\ RtBufferAgrees' BY <1>1, ClientsRest
<1>3. SrvBasics' BY <1>1 DEF RtInv, SrvBasics
<1>4. SrvHolds' BY DEF RtInv, SrvHolds
<1>5. rcvd_count' = rcvd_count BY DEF cliVars
<1>6. ToCliRight' BY <1>5 DEF RtInv, ToCliRight
<1>7. ToSrvRight' BY <1>5 DEF RtInv, ToSrvRight
<1>8. QED BY <1>2, <1>3, <1>4, <1>6, <1>7 DEF RtInv

\* The first request finds nothing under way to any client.
LEMMA PermitKeeps ==
    ASSUME RtInv, UNCHANGED cliVars, NEW m \in toSrv, Permit(m)
    PROVE  RtInv'
<1>1. /\ ~Request /\ Request' = TRUE /\ current_addr' = m.src /\ rcv_addr' = m.src
      /\ UNCHANGED <<now, seq, slide, srvWindow, head>>
  BY DEF Permit
<1>2. m.src \in Clients BY DEF RtInv, ToSrvRight
<1>3. toCli = {} /\ \A p \in Clients : cliPhase[p] # "receiving"
  BY <1>1 DEF RtInv, Admission
<1>4. \A a \in toCli' : a = ToCli(m.src, PERMIT, 0, now)
  BY <1>3, CarriedOnly DEF Permit, SentToCli
<1>5. \A a \in toCli' : a.dst = m.src /\ a.type = PERMIT BY <1>4 DEF ToCli
<1>6. Admission' BY <1>1, <1>3, <1>5 DEF Admission, ServesOneClient, cliVars
<1>7. toSrv' \subseteq toSrv BY ConsumedLeaves DEF Permit
<1>8. head' \in Int /\ head' >= head BY <1>1 DEF RtInv, SrvBasics
<1>9. \A a \in toCli' : /\ a.dst \in Clients /\ a.type \notin {DATA, RESENT}
  BY <1>2, <1>5 DEF PERMIT, DATA, RESENT
<1>10. QED BY <1>1, <1>2, <1>6, <1>7, <1>8, <1>9, SrvStep

\* When somebody has asked, who is served stays, whatever but permissions is sent.
LEMMA AdmissionStays ==
    ASSUME RtInv, UNCHANGED <<Request, current_addr, cliPhase>>, Request,
           \A m \in toCli' : m \in toCli \/ m.type # PERMIT
    PROVE  Admission'
BY DEF RtInv, Admission, ServesOneClient

\* An ACK is answered with packets of the window.
LEMMA RecvAckKeeps ==
    ASSUME RtInv, UNCHANGED cliVars, NEW m \in toSrv, RecvAck(m)
    PROVE  RtInv'
<1>1. /\ Request /\ m.type = ACK /\ rcv_addr' = m.src
      /\ UNCHANGED <<now, Request, current_addr, seq, slide, srvWindow>> /\ EndTurn
  BY DEF RecvAck
<1>2. m.src \in Clients /\ rcvd_count[m.src] > 0 BY <1>1 DEF RtInv, ToSrvRight
<1>3. \A a \in toCli' : a \in toCli \/ a \in Answer(m) BY CarriedOnly DEF RecvAck, SentToCli
<1>4. ASSUME NEW a \in Answer(m)
      PROVE  \/ a = ToCli(m.src, ACKACK, 0, now)
             \/ \E s \in Slots : a = ToCli(m.src, RESENT, srvWindow[s].seq, srvWindow[s].ts)
  <2>1. SUFFICES ASSUME a # ToCli(m.src, ACKACK, 0, now)
        PROVE \E s \in Slots : a = ToCli(m.src, RESENT, srvWindow[s].seq, srvWindow[s].ts)
    OBVIOUS
  <2>2. PICK n : Resendable(n) /\ a = ToCli(m.src, RESENT, srvWindow[Slot(n)].seq, srvWindow[Slot(n)].ts)
    BY <2>1 DEF Answer
  <2>3. n \in Int BY <2>2 DEF Resendable
  <2>4. QED BY <2>2, <2>3, SlotType
<1>5. \A s \in Slots : srvWindow[s].seq \in 0..(seq - 1) BY DEF RtInv, SrvBasics
<1>6. ASSUME NEW a \in Answer(m)
      PROVE  /\ a.dst = m.src /\ a.type # PERMIT
             /\ a.type \in {DATA, RESENT} => a.seq \in 0..(seq - 1)
  BY <1>4, <1>5 DEF ToCli, ACKACK, RESENT, DATA, PERMIT
<1>7. cliPhase' = cliPhase BY DEF cliVars
<1>8. Admission' BY <1>1, <1>3, <1>6, <1>7, AdmissionStays
<1>9. toSrv' \subseteq toSrv BY ConsumedLeaves DEF RecvAck
<1>10. head' \in Int /\ head' >= head BY <1>1, WindowSlides
<1>11. \A a \in toCli' : \/ a \in toCli
                         \/ /\ a.dst \in Clients
                            /\ a.type \in {DATA, RESENT} => a.seq \in 0..(seq - 1)
                            /\ a.type = RESENT => rcvd_count[a.dst] > 0
  BY <1>2, <1>3, <1>6
<1>12. current_addr' \in Clients /\ rcv_addr' \in Clients /\ Request' \in BOOLEAN
  BY <1>1, <1>2 DEF RtInv, SrvBasics
<1>13. QED BY <1>1, <1>8, <1>9, <1>10, <1>11, <1>12, SrvStep

\* A request is declined or ignored.
LEMMA RecvRequestKeeps ==
    ASSUME RtInv, UNCHANGED cliVars, NEW m \in toSrv, RecvRequest(m)
    PROVE  RtInv'
<1>1. /\ Request /\ rcv_addr' = m.src
      /\ UNCHANGED <<now, Request, current_addr, seq, slide, srvWindow>> /\ EndTurn
  BY DEF RecvRequest
<1>2. m.src \in Clients BY DEF RtInv, ToSrvRight
<1>3. \A a \in toCli' : a \in toCli \/ a = ToCli(m.src, DECLINE, 0, now)
  BY CarriedOnly DEF RecvRequest, SentToCli
<1>4. \A a \in toCli' :
        a \in toCli \/ (a.dst = m.src /\ a.type \notin {PERMIT, DATA, RESENT})
  BY <1>3 DEF ToCli, DECLINE, PERMIT, DATA, RESENT
<1>5. cliPhase' = cliPhase BY DEF cliVars
<1>6. Admission' BY <1>1, <1>4, <1>5, AdmissionStays
<1>7. toSrv' \subseteq toSrv BY ConsumedLeaves DEF RecvRequest
<1>8. head' \in Int /\ head' >= head BY <1>1, WindowSlides
<1>9. current_addr' \in Clients /\ rcv_addr' \in Clients /\ Request' \in BOOLEAN
  BY <1>1, <1>2 DEF RtInv, SrvBasics
<1>10. QED BY <1>1, <1>2, <1>4, <1>6, <1>7, <1>8, <1>9, SrvStep

\* A report only slides the window.
LEMMA SrvReportKeeps ==
    ASSUME RtInv, UNCHANGED cliVars, SrvReport
    PROVE  RtInv'
<1>1. /\ UNCHANGED <<toCli, toSrv, now>> /\ EndTurn
      /\ UNCHANGED <<Request, current_addr, rcv_addr, seq, slide, srvWindow>>
  BY DEF SrvReport, rtNetVars
<1>2. Admission' BY <1>1 DEF RtInv, Admission, ServesOneClient, cliVars
<1>3. head' \in Int /\ head' >= head BY <1>1, WindowSlides
<1>4. current_addr' \in Clients /\ rcv_addr' \in Clients /\ Request' \in BOOLEAN
  BY <1>1 DEF RtInv, SrvBasics
<1>5. QED BY <1>1, <1>2, <1>3, <1>4, SrvStep

\* A new packet takes the slot of the one a window before it, expired or not.
LEMMA AppKeeps ==
    ASSUME RtInv, UNCHANGED cliVars, App
    PROVE  RtInv'
<1>1. /\ Request /\ seq' = seq + 1
      /\ UNCHANGED <<toSrv, now, Request, current_addr, rcv_addr>>
  BY DEF App
<1>2. /\ seq \in Nat /\ seq >= 1 /\ head \in Int /\ head >= 1
      /\ WINDOW_SIZE \in Nat /\ WINDOW_SIZE > 0
  BY RtConstants DEF RtInv, SrvBasics
<1>3. head' \in Int /\ head' >= head
  <2>1. EndTurn \/ UNCHANGED head BY DEF App
  <2>2. QED BY <1>2, <2>1, WindowSlides
<1>4. CliBasics' /\ ReportTimerSet' /\ RtBufferAgrees' BY <1>1, <1>2, ClientsRest
<1>5. /\ DOMAIN srvWindow' = Slots /\ DOMAIN slide' = Slots
      /\ srvWindow'[Slot(seq)].seq = seq /\ srvWindow'[Slot(seq)].ts = now
      /\ slide'[Slot(seq)] = now + Latency
      /\ \A s \in Slots : s # Slot(seq) => /\ srvWindow'[s] = srvWindow[s]
                                          /\ slide'[s] = slide[s]
  <2>1. Slot(seq) \in Slots /\ DOMAIN srvWindow = Slots /\ DOMAIN slide = Slots
    BY <1>2, SlotType DEF RtInv, SrvBasics
  <2>2. srvWindow' =
          [srvWindow EXCEPT ![Slot(seq)] = [seq |-> seq, ts |-> now, nack |-> srvNack']]
    BY DEF App
  <2>3. slide' = [slide EXCEPT ![Slot(seq)] = now + Latency] BY DEF App
  <2>4. QED BY <2>1, <2>2, <2>3
<1>6. \A s \in Slots : srvWindow'[s].seq \in 0..(seq' - 1)
  <2>1. ASSUME NEW s \in Slots PROVE srvWindow'[s].seq \in 0..(seq' - 1)
    <3>1. CASE s = Slot(seq) BY <1>1, <1>2, <1>5, <3>1
    <3>2. CASE s # Slot(seq)
      <4>1. srvWindow'[s] = srvWindow[s] BY <1>5, <3>2
      <4>2. srvWindow[s].seq \in 0..(seq - 1) BY DEF RtInv, SrvBasics
      <4>3. QED BY <1>1, <1>2, <4>1, <4>2
    <3>3. QED BY <3>1, <3>2
  <2>2. QED BY <2>1
<1>7. SrvBasics' BY <1>1, <1>2, <1>3, <1>5, <1>6 DEF RtInv, SrvBasics
<1>8. SrvHolds'
  <2>1. ASSUME NEW k \in Slots
        PROVE  /\ slide'[k] \in Nat /\ srvWindow'[k].ts \in Nat
               /\ slide'[k] <= srvWindow'[k].ts + Latency
    <3>1. now \in Nat /\ Latency \in Nat BY RtNetAssumption DEF RtInv, SrvBasics
    <3>2. CASE k = Slot(seq)
      <4>1. srvWindow'[k].ts = now /\ slide'[k] = now + Latency BY <1>5, <3>2
      <4>2. QED BY <3>1, <4>1
    <3>3. CASE k # Slot(seq)
      <4>1. srvWindow'[k] = srvWindow[k] /\ slide'[k] = slide[k] BY <1>5, <3>3
      <4>2. QED BY <4>1 DEF RtInv, SrvHolds
    <3>4. QED BY <3>2, <3>3
  <2>2. ASSUME NEW s \in 1..(seq' - 1), s >= seq' - WINDOW_SIZE
        PROVE  srvWindow'[Slot(s)].seq = s
    <3>1. CASE s = seq BY <1>5, <3>1
    <3>2. CASE s # seq
      <4>1. s \in Int /\ s \in 1..(seq - 1) /\ s >= seq - WINDOW_SIZE
            /\ s < seq + WINDOW_SIZE /\ seq < s + WINDOW_SIZE
        BY <1>1, <1>2, <2>2, <3>2
      <4>2. Slot(s) # Slot(seq) /\ Slot(s) \in Slots
        BY <1>2, <3>2, <4>1, SlotsDiffer, SlotType
      <4>3. srvWindow[Slot(s)].seq = s BY <4>1 DEF RtInv, SrvHolds
      <4>4. QED BY <1>5, <4>2, <4>3
    <3>3. QED BY <3>1, <3>2
  <2>3. QED BY <2>1, <2>2 DEF SrvHolds
<1>9. \A a \in toCli' : a \in toCli \/ a = ToCli(rcv_addr, DATA, seq, now)
  BY CarriedOnly DEF App, SentToCli
<1>10. \A a \in toCli' :
         a \in toCli \/ (a.dst = rcv_addr /\ a.type \notin {PERMIT, RESENT} /\ a.seq = seq)
  BY <1>9 DEF ToCli, DATA, PERMIT, RESENT
<1>11. Admission'
  <2>1. cliPhase' = cliPhase BY DEF cliVars
  <2>2. QED BY <1>1, <1>10, <2>1, AdmissionStays
<1>12. ToCliRight' /\ ToSrvRight'
  <2>1. \A p \in Clients : rcvd_count'[p] >= rcvd_count[p] /\ rcvd_count'[p] \in Nat
    BY DEF RtInv, CliBasics, cliVars
  <2>2. /\ \A m \in toCli :
             /\ m.dst \in Clients
             /\ m.type \in {DATA, RESENT} => m.seq \in 0..(seq' - 1)
             /\ m.type = RESENT => rcvd_count'[m.dst] > 0
        /\ ToSrvRight'
    BY <1>1, <1>2, <2>1, OldDatagramsRight DEF ToSrvRight
  <2>3. rcv_addr \in Clients /\ seq \in 0..(seq' - 1) BY <1>1, <1>2 DEF RtInv, SrvBasics
  <2>4. ToCliRight' BY <1>10, <2>2, <2>3 DEF ToCliRight
  <2>5. QED BY <2>2, <2>4
<1>13. QED BY <1>4, <1>7, <1>8, <1>11, <1>12 DEF RtInv

-----------------------------------------------------------------------------
(* Steps of a client *)

\* A step of a client that keeps what is said of the clients and sends what it should.
LEMMA CliStep ==
    ASSUME RtInv, UNCHANGED srvVars, now' \in Nat, toCli' \subseteq toCli,
           CliBasics', ReportTimerSet', RtBufferAgrees',
           \A p \in Clients : rcvd_count'[p] >= rcvd_count[p],
           \A p \in Clients : cliPhase'[p] = "receiving" =>
               cliPhase[p] = "receiving" \/ (Request /\ p = current_addr),
           \A m \in toSrv' :
               \/ m \in toSrv
               \/ /\ m.src \in Clients
                  /\ m.type = ACK =>
                        /\ rcvd_count'[m.src] > 0
                        /\ \A i \in 1..NACK_SIZE : m.nack[i] = -1 \/ m.nack[i] \in 1..(seq - 1)
    PROVE  RtInv'
<1>1. UNCHANGED <<Request, current_addr, rcv_addr, seq, head, slide, srvWindow>> BY DEF srvVars
<1>2. SrvBasics' BY <1>1 DEF RtInv, SrvBasics
<1>3. SrvHolds' BY <1>1 DEF RtInv, SrvHolds
<1>4. Admission' BY <1>1 DEF RtInv, Admission, ServesOneClient
<1>5. seq' \in Nat /\ seq' >= seq BY <1>1 DEF RtInv, SrvBasics
<1>6. \A p \in Clients : rcvd_count'[p] \in Nat BY DEF CliBasics
<1>7. /\ \A m \in toCli :
            /\ m.dst \in Clients
            /\ m.type \in {DATA, RESENT} => m.seq \in 0..(seq' - 1)
            /\ m.type = RESENT => rcvd_count'[m.dst] > 0
      /\ \A m \in toSrv :
            /\ m.src \in Clients
            /\ m.type = ACK =>
                  /\ rcvd_count'[m.src] > 0
                  /\ \A i \in 1..NACK_SIZE : m.nack[i] = -1 \/ m.nack[i] \in 1..(seq' - 1)
  BY <1>5, <1>6, OldDatagramsRight
<1>8. ToCliRight' BY <1>7 DEF ToCliRight
<1>9. ToSrvRight' BY <1>1, <1>7 DEF ToSrvRight
<1>10. QED BY <1>2, <1>3, <1>4, <1>8, <1>9 DEF RtInv

\* The same of a step that leaves the window, the counter and the timer alone.
LEMMA QuietStep ==
    ASSUME RtInv, UNCHANGED srvVars, now' \in Nat, toCli' \subseteq toCli,
           UNCHANGED <<C_ack, buffer, buffersize, cliWindow, rcvd_count, cliReport>>,
           DOMAIN cliPhase' = Clients,
           \A p \in Clients : cliPhase'[p] = "receiving" =>
               cliPhase[p] = "receiving" \/ (Request /\ p = current_addr),
           \A m \in toSrv' : m \in toSrv \/ (m.src \in Clients /\ m.type # ACK)
    PROVE  RtInv'
<1>1. UNCHANGED <<C_ack, buffer, buffersize>> /\ UNCHANGED <<cliWindow, rcvd_count, cliReport>>
  OBVIOUS
<1>2. CliBasics' BY <1>1 DEF RtInv, CliBasics
<1>3. ReportTimerSet' BY <1>1 DEF RtInv, ReportTimerSet
<1>4. \A p \in Clients : Taken(p)' = Taken(p) BY <1>1 DEF Taken
<1>5. seq' = seq BY DEF srvVars
<1>6. RtBufferAgrees' BY <1>1, <1>4, <1>5 DEF RtInv, RtBufferAgrees
<1>7. \A p \in Clients : rcvd_count'[p] >= rcvd_count[p] BY <1>1 DEF RtInv, CliBasics
<1>8. QED BY <1>2, <1>3, <1>6, <1>7, CliStep

\* What a client does while it asks for the stream.
LEMMA AskingKeeps ==
    ASSUME RtInv, UNCHANGED srvVars, NEW p \in Clients,
           \/ SendRequest(p)
           \/ \E m \in toCli : Permitted(p, m) \/ Declined(p, m) \/ TooEarly(p, m)
    PROVE  RtInv'
<1>1. now \in Nat /\ DOMAIN cliPhase = Clients BY DEF RtInv, SrvBasics, CliBasics
<1>2. CASE SendRequest(p)
  <2>1. /\ UNCHANGED <<toCli, now, cliPhase>> /\ UNCHANGED <<C_ack, buffer, buffersize>>
        /\ UNCHANGED <<cliWindow, rcvd_count, cliReport>>
    BY <1>2 DEF SendRequest, cliVars
  <2>2. PICK nack : SentToSrv({[src |-> p, type |-> REQUEST, nack |-> nack, half |-> 0]})
    BY <1>2 DEF SendRequest
  <2>3. \A m \in toSrv' : \/ m \in toSrv
                          \/ m = [src |-> p, type |-> REQUEST, nack |-> nack, half |-> 0]
    BY <2>2, CarriedOnly DEF SentToSrv
  <2>4. \A m \in toSrv' : m \in toSrv \/ (m.src \in Clients /\ m.type # ACK)
    BY <2>3 DEF REQUEST, ACK
  <2>5. QED BY <1>1, <2>1, <2>4, QuietStep
<1>3. ASSUME NEW m \in toCli, Permitted(p, m) PROVE RtInv'
  <2>1. /\ m.dst = p /\ m.type = PERMIT /\ cliPhase' = [cliPhase EXCEPT ![p] = "receiving"]
        /\ UNCHANGED <<toSrv, now, C_ack, buffer, buffersize, cliWindow>>
        /\ UNCHANGED <<rcvd_count, cliReport>>
    BY <1>3 DEF Permitted
  <2>2. toCli' \subseteq toCli BY <1>3, ReadLeaves DEF Permitted
  <2>3. Request /\ p = current_addr BY <2>1 DEF RtInv, Admission
  <2>4. DOMAIN cliPhase' = Clients /\ \A q \in Clients : q # p => cliPhase'[q] = cliPhase[q]
    BY <1>1, <2>1
  <2>5. QED BY <1>1, <2>1, <2>2, <2>3, <2>4, QuietStep
<1>4. ASSUME NEW m \in toCli, Declined(p, m) PROVE RtInv'
  <2>1. /\ cliPhase' = [cliPhase EXCEPT ![p] = "exited"]
        /\ UNCHANGED <<toSrv, now, C_ack, buffer, buffersize, cliWindow>>
        /\ UNCHANGED <<rcvd_count, cliReport>>
    BY <1>4 DEF Declined
  <2>2. toCli' \subseteq toCli BY <1>4, ReadLeaves DEF Declined
  <2>3. /\ DOMAIN cliPhase' = Clients /\ cliPhase'[p] = "exited"
        /\ \A q \in Clients : q # p => cliPhase'[q] = cliPhase[q]
    BY <1>1, <2>1
  <2>4. QED BY <1>1, <2>1, <2>2, <2>3, QuietStep
<1>5. ASSUME NEW m \in toCli, TooEarly(p, m) PROVE RtInv'
  <2>1. /\ UNCHANGED <<toSrv, now, cliPhase>> /\ UNCHANGED <<C_ack, buffer, buffersize>>
        /\ UNCHANGED <<cliWindow, rcvd_count, cliReport>>
    BY <1>5 DEF TooEarly, cliVars
  <2>2. toCli' \subseteq toCli BY <1>5, ReadLeaves DEF TooEarly
  <2>3. QED BY <1>1, <2>1, <2>2, QuietStep
<1>6. QED BY <1>2, <1>3, <1>4, <1>5

\* Datagrams that are not accepted.
LEMMA NotAcceptedKeeps ==
    ASSUME RtInv, UNCHANGED srvVars, NEW p \in Clients, NEW m \in toCli,
           RecvUnwanted(p, m) \/ RecvAckAck(p, m) \/ RecvOther(p, m)
    PROVE  RtInv'
<1>1. /\ Receiving(p, m) /\ UNCHANGED <<toSrv, buffer, buffersize, cliWindow>>
      /\ UNCHANGED <<rcvd_count, cliReport>>
  BY DEF RecvUnwanted, RecvAckAck, RecvOther
<1>2. UNCHANGED <<now, cliPhase, C_ack>> /\ ReadFrom(m) BY <1>1 DEF Receiving
<1>3. toCli' \subseteq toCli BY <1>2, ReadLeaves
<1>4. now' \in Nat /\ DOMAIN cliPhase' = Clients BY <1>2 DEF RtInv, SrvBasics, CliBasics
<1>5. QED BY <1>1, <1>2, <1>3, <1>4, QuietStep

\* A report only moves the timer on.
LEMMA CliReportKeeps ==
    ASSUME RtInv, UNCHANGED srvVars, NEW p \in Clients, CliReport(p)
    PROVE  RtInv'
<1>1. /\ rcvd_count[p] > 0 /\ cliReport' = [cliReport EXCEPT ![p] = @ + Report_Interval]
      /\ UNCHANGED <<toCli, toSrv, now>> /\ UNCHANGED <<cliPhase, C_ack, buffer>>
      /\ UNCHANGED <<buffersize, cliWindow, rcvd_count>>
  BY DEF CliReport, rtNetVars
<1>2. cliReport \in [Clients -> Nat \cup {Unset}] /\ Unset = -1
  BY DEF RtInv, CliBasics, Unset
<1>3. cliReport[p] # Unset BY <1>1 DEF RtInv, ReportTimerSet
<1>4. cliReport[p] \in Nat /\ cliReport[p] + Report_Interval \in Nat
  BY <1>2, <1>3, RtConstants
<1>5. /\ cliReport' \in [Clients -> Nat \cup {Unset}] /\ cliReport'[p] \in Nat
      /\ \A q \in Clients : q # p => cliReport'[q] = cliReport[q]
  BY <1>1, <1>2, <1>4
<1>6. CliBasics' BY <1>1, <1>5 DEF RtInv, CliBasics
<1>7. ReportTimerSet'
  <2>1. ASSUME NEW q \in Clients, rcvd_count'[q] > 0 PROVE cliReport'[q] # Unset
    <3>1. CASE q = p BY <1>2, <1>5, <3>1
    <3>2. CASE q # p BY <1>1, <1>5, <2>1, <3>2 DEF RtInv, ReportTimerSet
    <3>3. QED BY <3>1, <3>2
  <2>2. QED BY <2>1 DEF ReportTimerSet
<1>8. seq' = seq BY DEF srvVars
<1>9. \A q \in Clients : Taken(q)' = Taken(q) BY <1>1 DEF Taken
<1>10. RtBufferAgrees' BY <1>1, <1>8, <1>9 DEF RtInv, RtBufferAgrees
<1>11. \A q \in Clients : rcvd_count'[q] >= rcvd_count[q] BY <1>1 DEF RtInv, CliBasics
<1>12. now' \in Nat BY <1>1 DEF RtInv, SrvBasics
<1>13. QED BY <1>1, <1>6, <1>7, <1>10, <1>11, <1>12, CliStep

\* The slots of client p that are taken, which buffersize counts.
TakenSlots(p) == {s \in Slots : buffer[p][s]}

\* They are finitely many.
LEMMA TakenSlotsFinite ==
    ASSUME NEW p
    PROVE  IsFiniteSet(TakenSlots(p)) /\ Cardinality(TakenSlots(p)) \in Nat
<1>1. IsFiniteSet(Slots) BY FS_Interval, RtConstants DEF Slots
<1>2. IsFiniteSet(TakenSlots(p)) BY <1>1, FS_Subset DEF TakenSlots
<1>3. QED BY <1>2, FS_CardinalityType

\* What is due is a beginning of what is taken, and its last packet is the new C_ack.
LEMMA DueIsPrefix ==
    ASSUME RtInv, NEW p \in Clients, Due(p) # {}
    PROVE  \E last \in Due(p) :
              /\ last = CHOOSE s \in Due(p) : \A x \in Due(p) : x <= s
              /\ \A x \in Due(p) : x <= last
              /\ \A x \in Taken(p) : x <= last => x \in Due(p)
<1>1. C_ack[p] \in Nat /\ WINDOW_SIZE \in Nat BY RtConstants DEF RtInv, CliBasics
<1>2. \A s \in Taken(p) : s \in Int /\ s <= C_ack[p] + WINDOW_SIZE BY <1>1 DEF Taken
<1>3. \A s \in Due(p) : s \in Taken(p) BY DEF Due
<1>4. \E s \in Due(p) : \A x \in Due(p) : x <= s
  <2>1. Due(p) \in SUBSET Int /\ C_ack[p] + WINDOW_SIZE \in Int BY <1>1, <1>2, <1>3
  <2>2. \A s \in Due(p) : s <= C_ack[p] + WINDOW_SIZE BY <1>2, <1>3
  <2>3. QED BY <2>1, <2>2, GreatestExists
<1> DEFINE last == CHOOSE s \in Due(p) : \A x \in Due(p) : x <= s
<1>5. last \in Due(p) /\ \A x \in Due(p) : x <= last BY <1>4
<1> HIDE DEF last
<1>6. ASSUME NEW x \in Taken(p), x <= last PROVE x \in Due(p)
  <2>1. ASSUME NEW y \in Taken(p), y <= x
        PROVE  now >= DeliverTime(p, cliWindow[p][Slot(y)].ts)
    <3>1. y <= last BY <1>2, <1>3, <1>5, <1>6, <2>1
    <3>2. QED BY <1>5, <2>1, <3>1 DEF Due
  <2>2. QED BY <2>1 DEF Due
<1>7. QED BY <1>5, <1>6 DEF last

\* Delivery moves the window over what is missing and leaves no slot taken behind it.
LEMMA DeliverMovesWindow ==
    ASSUME RtInv, NEW p \in Clients, Deliver(p)
    PROVE  /\ C_ack'[p] \in Nat
           /\ Taken(p)' \subseteq Taken(p)
<1>1. C_ack \in [Clients -> Nat] /\ C_ack[p] \in Nat /\ WINDOW_SIZE \in Nat /\ WINDOW_SIZE > 0
  BY RtConstants DEF RtInv, CliBasics
<1>2. /\ C_ack'[p] = IF Due(p) = {} THEN C_ack[p]
                     ELSE CHOOSE s \in Due(p) : \A x \in Due(p) : x <= s
      /\ \A s \in Slots : buffer'[p][s] <=> buffer[p][s] /\ \A x \in Due(p) : Slot(x) # s
  <2>1. p \in DOMAIN C_ack /\ p \in DOMAIN buffer BY <1>1 DEF RtInv, CliBasics
  <2>2. buffer' = [buffer EXCEPT ![p] = [s \in Slots |-> @[s] /\ \A x \in Due(p) : Slot(x) # s]]
    BY DEF Deliver
  <2>3. C_ack' = [C_ack EXCEPT ![p] = IF Due(p) = {} THEN @
                                      ELSE CHOOSE s \in Due(p) : \A x \in Due(p) : x <= s]
    BY DEF Deliver
  <2>4. C_ack'[p] = IF Due(p) = {} THEN C_ack[p]
                    ELSE CHOOSE s \in Due(p) : \A x \in Due(p) : x <= s
    BY <2>1, <2>3
  <2>5. \A s \in Slots : buffer'[p][s] <=> buffer[p][s] /\ \A x \in Due(p) : Slot(x) # s
    BY <2>1, <2>2, Zenon
  <2>6. QED BY <2>4, <2>5
<1>3. \A s \in Due(p) : s \in Taken(p) BY DEF Due
<1>4. \A s \in Taken(p) : /\ s \in Int /\ C_ack[p] < s /\ s <= C_ack[p] + WINDOW_SIZE
                          /\ buffer[p][Slot(s)]
  BY <1>1 DEF Taken
<1>5. \A s \in Int : C_ack[p] < s /\ s <= C_ack[p] + WINDOW_SIZE /\ buffer[p][Slot(s)] =>
        s \in Taken(p)
  BY <1>1 DEF Taken
<1>6. Taken(p)' = {s \in (C_ack'[p] + 1)..(C_ack'[p] + WINDOW_SIZE) : buffer'[p][Slot(s)]}
  BY DEF Taken
<1>7. CASE Due(p) = {}
  <2>1. C_ack'[p] = C_ack[p] BY <1>2, <1>7
  <2>2. ASSUME NEW s \in Taken(p)' PROVE s \in Taken(p)
    <3>1. s \in Int /\ C_ack[p] < s /\ s <= C_ack[p] + WINDOW_SIZE /\ buffer'[p][Slot(s)]
      BY <1>1, <1>6, <2>1
    <3>2. buffer[p][Slot(s)] BY <1>2, <3>1, SlotType
    <3>3. QED BY <1>5, <3>1, <3>2
  <2>3. QED BY <1>1, <2>1, <2>2
<1>8. CASE Due(p) # {}
  <2>1. PICK last \in Due(p) :
          /\ last = CHOOSE s \in Due(p) : \A x \in Due(p) : x <= s
          /\ \A x \in Due(p) : x <= last
          /\ \A x \in Taken(p) : x <= last => x \in Due(p)
    BY <1>8, DueIsPrefix
  <2>2. C_ack'[p] = last BY <1>2, <1>8, <2>1
  <2>3. last \in Int /\ C_ack[p] < last /\ last <= C_ack[p] + WINDOW_SIZE BY <1>3, <1>4
  <2>4. ASSUME NEW s \in Taken(p)' PROVE s \in Taken(p)
    <3>1. s \in Int /\ last < s /\ s <= last + WINDOW_SIZE /\ buffer'[p][Slot(s)]
      BY <1>1, <1>6, <2>2, <2>3
    <3>2. buffer[p][Slot(s)] /\ \A x \in Due(p) : Slot(x) # Slot(s)
      BY <1>2, <3>1, SlotType
    <3>3. CASE s <= C_ack[p] + WINDOW_SIZE
      <4>1. C_ack[p] < s BY <1>1, <2>3, <3>1
      <4>2. QED BY <1>5, <3>1, <3>2, <3>3, <4>1
    <3>4. CASE ~(s <= C_ack[p] + WINDOW_SIZE)
      <4> DEFINE back == s - WINDOW_SIZE
      <4>1. back \in Int /\ C_ack[p] < back /\ back <= C_ack[p] + WINDOW_SIZE /\ back <= last
        BY <1>1, <2>3, <3>1, <3>4
      <4>2. Slot(back) = Slot(s) BY <3>1, SlotShift
      <4> HIDE DEF back
      <4>3. back \in Taken(p) BY <1>5, <3>2, <4>1, <4>2
      <4>4. back \in Due(p) BY <2>1, <4>1, <4>3
      <4>5. QED BY <3>2, <4>2, <4>4
    <3>5. QED BY <3>3, <3>4
  <2>5. C_ack'[p] \in Nat BY <1>1, <2>2, <2>3
  <2>6. QED BY <2>4, <2>5
<1>9. QED BY <1>7, <1>8

\* What is delivered frees as many slots as buffersize goes down.
LEMMA DeliverCounts ==
    ASSUME RtInv, NEW p \in Clients, Deliver(p)
    PROVE  buffersize'[p] = Cardinality(TakenSlots(p)')
<1> DEFINE freed == {Slot(x) : x \in Due(p)}
<1>1. C_ack[p] \in Nat /\ buffer \in [Clients -> [Slots -> BOOLEAN]] BY DEF RtInv, CliBasics
<1>2. Due(p) \in SUBSET ((C_ack[p] + 1)..(C_ack[p] + WINDOW_SIZE)) BY DEF Due, Taken
<1>3. IsFiniteSet(Due(p)) /\ IsFiniteSet(freed) /\ Cardinality(freed) = Cardinality(Due(p))
  <2>1. C_ack[p] \in Int BY <1>1
  <2>2. QED BY <1>2, <2>1, SlotsCounted, Zenon
<1>4. \A s \in freed : s \in TakenSlots(p)
  <2>1. ASSUME NEW x \in Due(p) PROVE Slot(x) \in TakenSlots(p)
    <3>1. x \in Int /\ buffer[p][Slot(x)] BY <1>1 DEF Due, Taken
    <3>2. QED BY <3>1, SlotType DEF TakenSlots
  <2>2. QED BY <2>1
<1>5. \A s \in Slots : buffer'[p][s] <=> buffer[p][s] /\ \A x \in Due(p) : Slot(x) # s
  <2>1. p \in DOMAIN buffer BY <1>1
  <2>2. buffer' = [buffer EXCEPT ![p] = [s \in Slots |-> @[s] /\ \A x \in Due(p) : Slot(x) # s]]
    BY DEF Deliver
  <2>3. QED BY <2>1, <2>2, Zenon
<1>6. TakenSlots(p)' = TakenSlots(p) \ freed
  <2>1. \A s \in Slots : s \in freed <=> \E x \in Due(p) : Slot(x) = s OBVIOUS
  <2> HIDE DEF freed
  <2>2. QED BY <1>5, <2>1 DEF TakenSlots
<1> HIDE DEF freed
<1>7. Cardinality(TakenSlots(p) \ freed) = Cardinality(TakenSlots(p)) - Cardinality(freed)
  <2> DEFINE left == TakenSlots(p) \ freed
  <2>1. IsFiniteSet(left) /\ Cardinality(left) \in Nat
    BY TakenSlotsFinite, FS_Subset, FS_CardinalityType
  <2>2. left \cup freed = TakenSlots(p) /\ left \cap freed = {} BY <1>4
  <2> HIDE DEF left
  <2>3. Cardinality(freed) \in Nat BY <1>3, FS_CardinalityType
  <2>4. Cardinality(left \cup freed)
          = Cardinality(left) + Cardinality(freed) - Cardinality(left \cap freed)
    BY <1>3, <2>1, FS_Union
  <2>5. Cardinality(left \cap freed) = 0 BY <2>2, FS_EmptySet
  <2>6. Cardinality(left \cup freed) = Cardinality(left) + Cardinality(freed)
    BY <2>1, <2>3, <2>4, <2>5
  <2>7. Cardinality(left \cup freed) = Cardinality(TakenSlots(p)) BY <2>2, Zenon
  <2>8. Cardinality(TakenSlots(p)) = Cardinality(left) + Cardinality(freed) BY <2>6, <2>7, Zenon
  <2>9. QED BY <2>1, <2>3, <2>8 DEF left
<1>8. buffersize'[p] = buffersize[p] - Cardinality(Due(p))
  BY DEF Deliver, RtInv, CliBasics
<1>9. buffersize[p] = Cardinality(TakenSlots(p)) BY DEF RtInv, RtBufferAgrees, TakenSlots
<1>10. QED BY <1>3, <1>6, <1>7, <1>8, <1>9

\* Delivery keeps the window right.
LEMMA DeliverKeeps ==
    ASSUME RtInv, UNCHANGED srvVars, NEW p \in Clients, Deliver(p)
    PROVE  RtInv'
<1>1. /\ UNCHANGED <<toCli, toSrv, now>> /\ UNCHANGED <<cliPhase, cliWindow>>
      /\ UNCHANGED <<rcvd_count, cliReport>>
  BY DEF Deliver, rtNetVars
<1>2. C_ack'[p] \in Nat /\ Taken(p)' \subseteq Taken(p) BY DeliverMovesWindow
<1>3. buffersize'[p] = Cardinality(TakenSlots(p)') BY DeliverCounts
<1>4. /\ C_ack \in [Clients -> Nat] /\ DOMAIN buffersize = Clients
      /\ buffer \in [Clients -> [Slots -> BOOLEAN]]
  BY DEF RtInv, CliBasics
<1>5. /\ DOMAIN C_ack' = Clients /\ DOMAIN buffersize' = Clients
      /\ \A q \in Clients : q # p => C_ack'[q] = C_ack[q] /\ buffersize'[q] = buffersize[q]
  BY <1>4 DEF Deliver
<1>6. /\ DOMAIN buffer' = Clients /\ \A q \in Clients : q # p => buffer'[q] = buffer[q]
      /\ buffer'[p] \in [Slots -> BOOLEAN]
  <2>1. buffer' = [buffer EXCEPT ![p] = [s \in Slots |-> buffer[p][s] /\ \A x \in Due(p) : Slot(x) # s]]
    BY DEF Deliver
  <2> DEFINE kept == [s \in Slots |-> buffer[p][s] /\ \A x \in Due(p) : Slot(x) # s]
  <2>2. kept \in [Slots -> BOOLEAN] BY Zenon
  <2> HIDE DEF kept
  <2>3. buffer' = [buffer EXCEPT ![p] = kept] BY <2>1 DEF kept
  <2>4. QED BY <1>4, <2>2, <2>3
<1>7. C_ack' = [q \in Clients |-> C_ack'[q]] /\ buffer' = [q \in Clients |-> buffer'[q]]
  <2>1. C_ack' = [C_ack EXCEPT ![p] = C_ack'[p]] BY <1>4 DEF Deliver
  <2>2. buffer' = [buffer EXCEPT ![p] = buffer'[p]] BY <1>4 DEF Deliver
  <2>3. QED BY <1>4, <2>1, <2>2
<1>8. CliBasics'
  <2>1. C_ack' \in [Clients -> Nat] BY <1>2, <1>4, <1>5, <1>7
  <2>2. buffer' \in [Clients -> [Slots -> BOOLEAN]] BY <1>4, <1>6, <1>7
  <2>3. QED BY <1>1, <1>5, <2>1, <2>2 DEF RtInv, CliBasics
<1>9. ReportTimerSet' BY <1>1 DEF RtInv, ReportTimerSet
<1>10. seq' = seq BY DEF srvVars
<1>11. RtBufferAgrees'
  <2>1. ASSUME NEW q \in Clients
        PROVE  /\ buffersize'[q] = Cardinality({s \in Slots : buffer'[q][s]})
               /\ \A s \in Taken(q)' : cliWindow'[q][Slot(s)].seq = s /\ s < seq'
    <3>1. CASE q = p
      <4>1. \A s \in Taken(p) : cliWindow[p][Slot(s)].seq = s /\ s < seq
        BY DEF RtInv, RtBufferAgrees
      <4>2. QED BY <1>1, <1>2, <1>3, <1>10, <3>1, <4>1 DEF TakenSlots
    <3>2. CASE q # p
      <4>1. Taken(q)' = Taken(q) BY <1>5, <1>6, <3>2 DEF Taken
      <4>2. QED BY <1>1, <1>5, <1>6, <1>10, <3>2, <4>1 DEF RtInv, RtBufferAgrees
    <3>3. QED BY <3>1, <3>2
  <2>2. QED BY <2>1 DEF RtBufferAgrees
<1>12. \A q \in Clients : rcvd_count'[q] >= rcvd_count[q] BY <1>1 DEF RtInv, CliBasics
<1>13. now' \in Nat BY <1>1 DEF RtInv, SrvBasics
<1>14. QED BY <1>1, <1>8, <1>9, <1>11, <1>12, <1>13, CliStep

\* An ACK asks for packets that are missing below the one it answers.
LEMMA MissingBelow ==
    ASSUME RtInv, NEW p \in Clients, NEW s \in 0..(seq - 1), NEW i \in 1..NACK_SIZE
    PROVE  Missing(p, s)[i] = -1 \/ Missing(p, s)[i] \in 1..(seq - 1)
<1> DEFINE gaps == {x \in (C_ack[p] + 1)..(s - 1) : ~buffer[p][Slot(x)]}
           Place(x) == Cardinality({y \in gaps : y <= x})
<1>1. C_ack[p] \in Nat /\ seq \in Nat /\ s \in Int BY DEF RtInv, CliBasics, SrvBasics
<1>2. gaps \subseteq 1..(seq - 1) BY <1>1
<1>3. Missing(p, s)[i] = IF \E x \in gaps : Place(x) = i THEN CHOOSE x \in gaps : Place(x) = i
                         ELSE -1
  BY DEF Missing
<1> HIDE DEF gaps, Place
<1>4. (\E x \in gaps : Place(x) = i) => (CHOOSE x \in gaps : Place(x) = i) \in gaps OBVIOUS
<1>5. QED BY <1>2, <1>3, <1>4

\* A packet that is accepted takes a free slot, the one of its place, and is acknowledged.
LEMMA RecvWantedKeeps ==
    ASSUME RtInv, UNCHANGED srvVars, NEW p \in Clients, NEW m \in toCli, RecvWanted(p, m)
    PROVE  RtInv'
<1> DEFINE n == m.seq
<1>1. /\ m.type \in {DATA, RESENT} /\ Wanted(p, m) /\ Receiving(p, m)
      /\ cliReport' = [cliReport EXCEPT ![p] = ReportTime(p, m)]
      /\ rcvd_count' = [rcvd_count EXCEPT ![p] = @ + 1]
      /\ cliWindow' = [cliWindow EXCEPT ![p][Slot(n)] = [seq |-> n, ts |-> m.ts]]
      /\ buffersize' = [buffersize EXCEPT ![p] = @ + 1]
      /\ buffer' = [buffer EXCEPT ![p][Slot(n)] = TRUE]
  BY DEF RecvWanted
<1>2. UNCHANGED <<now, cliPhase, C_ack>> /\ ReadFrom(m) /\ m.dst = p BY <1>1 DEF Receiving
<1>3. n \in 0..(seq - 1) /\ n \in Int /\ n < seq /\ seq \in Nat
  BY <1>1 DEF RtInv, ToCliRight, SrvBasics
<1>4. /\ C_ack \in [Clients -> Nat] /\ C_ack[p] \in Nat
      /\ WINDOW_SIZE \in Nat /\ WINDOW_SIZE > 0
  BY RtConstants DEF RtInv, CliBasics
<1>5. /\ C_ack[p] < n /\ n <= C_ack[p] + WINDOW_SIZE /\ ~buffer[p][Slot(n)]
  BY <1>1 DEF Wanted, InWindow
<1>6. Slot(n) \in Slots BY <1>3, SlotType
<1> HIDE DEF n
<1>7. /\ rcvd_count \in [Clients -> Nat] /\ DOMAIN buffersize = Clients
      /\ cliReport \in [Clients -> Nat \cup {Unset}] /\ Unset = -1
      /\ buffer \in [Clients -> [Slots -> BOOLEAN]]
  BY DEF RtInv, CliBasics, Unset
<1>8. DOMAIN cliWindow = Clients /\ \A q \in Clients : DOMAIN cliWindow[q] = Slots
  BY DEF RtInv, CliBasics
<1>9. /\ rcvd_count' \in [Clients -> Nat] /\ rcvd_count'[p] = rcvd_count[p] + 1
      /\ \A q \in Clients : q # p => rcvd_count'[q] = rcvd_count[q]
  BY <1>1, <1>7
<1>10. ReportTime(p, m) \in Nat
  <2>1. rcvd_count[p] = 0 => m.type = DATA
    <3>1. m.type = RESENT => rcvd_count[p] > 0 BY <1>2 DEF RtInv, ToCliRight
    <3>2. QED BY <1>1, <1>7, <3>1
  <2>2. rcvd_count[p] # 0 => cliReport[p] \in Nat
    <3>1. rcvd_count[p] # 0 => cliReport[p] # Unset BY <1>7 DEF RtInv, ReportTimerSet
    <3>2. QED BY <1>7, <3>1
  <2>3. now + Report_Interval \in Nat BY RtConstants DEF RtInv, SrvBasics
  <2>4. QED BY <2>1, <2>2, <2>3 DEF ReportTime
<1>11. /\ cliReport' \in [Clients -> Nat \cup {Unset}] /\ cliReport'[p] \in Nat
       /\ \A q \in Clients : q # p => cliReport'[q] = cliReport[q]
  BY <1>1, <1>7, <1>10
<1>12. /\ buffer' \in [Clients -> [Slots -> BOOLEAN]]
       /\ \A q \in Clients : q # p => buffer'[q] = buffer[q]
       /\ buffer'[p][Slot(n)] = TRUE
       /\ \A s \in Slots : s # Slot(n) => buffer'[p][s] = buffer[p][s]
  BY <1>1, <1>6, <1>7
<1>13. /\ DOMAIN cliWindow' = Clients /\ \A q \in Clients : DOMAIN cliWindow'[q] = Slots
       /\ \A q \in Clients : q # p => cliWindow'[q] = cliWindow[q]
       /\ cliWindow'[p][Slot(n)].seq = n
       /\ \A s \in Slots : s # Slot(n) => cliWindow'[p][s] = cliWindow[p][s]
  BY <1>1, <1>6, <1>8
<1>14. /\ DOMAIN buffersize' = Clients /\ buffersize'[p] = buffersize[p] + 1
       /\ \A q \in Clients : q # p => buffersize'[q] = buffersize[q]
  BY <1>1, <1>7
<1>15. CliBasics'
  BY <1>2, <1>4, <1>9, <1>11, <1>12, <1>13, <1>14 DEF RtInv, CliBasics
<1>16. ReportTimerSet'
  <2>1. ASSUME NEW q \in Clients, rcvd_count'[q] > 0 PROVE cliReport'[q] # Unset
    <3>1. CASE q = p BY <1>7, <1>11, <3>1
    <3>2. CASE q # p BY <1>9, <1>11, <2>1, <3>2 DEF RtInv, ReportTimerSet
    <3>3. QED BY <3>1, <3>2
  <2>2. QED BY <2>1 DEF ReportTimerSet
<1>17. seq' = seq BY DEF srvVars
<1>18. buffersize'[p] = Cardinality({s \in Slots : buffer'[p][s]})
  <2>1. {s \in Slots : buffer'[p][s]} = TakenSlots(p) \cup {Slot(n)}
    BY <1>6, <1>12 DEF TakenSlots
  <2>2. Slot(n) \notin TakenSlots(p) BY <1>5 DEF TakenSlots
  <2>3. Cardinality(TakenSlots(p) \cup {Slot(n)}) = Cardinality(TakenSlots(p)) + 1
    BY <2>2, TakenSlotsFinite, FS_AddElement
  <2>4. buffersize[p] = Cardinality(TakenSlots(p)) BY DEF RtInv, RtBufferAgrees, TakenSlots
  <2>5. QED BY <1>14, <2>1, <2>3, <2>4
<1>19. ASSUME NEW s \in Taken(p)' PROVE cliWindow'[p][Slot(s)].seq = s /\ s < seq
  <2>1. s \in Int /\ C_ack[p] < s /\ s <= C_ack[p] + WINDOW_SIZE /\ buffer'[p][Slot(s)]
    BY <1>2, <1>4 DEF Taken
  <2>2. CASE s = n BY <1>3, <1>13, <2>2
  <2>3. CASE s # n
    <3>1. s < n + WINDOW_SIZE /\ n < s + WINDOW_SIZE BY <1>3, <1>4, <1>5, <2>1
    <3>2. Slot(s) # Slot(n) /\ Slot(s) \in Slots
      BY <1>3, <2>1, <2>3, <3>1, SlotsDiffer, SlotType
    <3>3. s \in Taken(p) BY <1>4, <1>12, <2>1, <3>2 DEF Taken
    <3>4. cliWindow[p][Slot(s)].seq = s /\ s < seq BY <3>3 DEF RtInv, RtBufferAgrees
    <3>5. QED BY <1>13, <3>2, <3>4
  <2>4. QED BY <2>2, <2>3
<1>20. RtBufferAgrees'
  <2>1. ASSUME NEW q \in Clients
        PROVE  /\ buffersize'[q] = Cardinality({s \in Slots : buffer'[q][s]})
               /\ \A s \in Taken(q)' : cliWindow'[q][Slot(s)].seq = s /\ s < seq'
    <3>1. CASE q = p BY <1>17, <1>18, <1>19, <3>1
    <3>2. CASE q # p
      <4>1. Taken(q)' = Taken(q) BY <1>2, <1>12, <3>2 DEF Taken
      <4>2. /\ buffersize[q] = Cardinality({s \in Slots : buffer[q][s]})
            /\ \A s \in Taken(q) : cliWindow[q][Slot(s)].seq = s /\ s < seq
        BY DEF RtInv, RtBufferAgrees
      <4>3. buffer'[q] = buffer[q] /\ cliWindow'[q] = cliWindow[q] /\ buffersize'[q] = buffersize[q]
        BY <1>12, <1>13, <1>14, <3>2
      <4>4. buffersize'[q] = Cardinality({s \in Slots : buffer'[q][s]}) BY <4>2, <4>3
      <4>5. seq' = seq BY <1>17
      <4>6. \A s \in Taken(q)' : cliWindow'[q][Slot(s)].seq = s /\ s < seq'
        BY <4>1, <4>2, <4>3, <4>5
      <4>7. QED BY <4>4, <4>6
    <3>3. QED BY <3>1, <3>2
  <2>2. QED BY <2>1 DEF RtBufferAgrees
<1>21. \A q \in Clients : rcvd_count'[q] >= rcvd_count[q] BY <1>7, <1>9
<1>22. \A a \in toSrv' :
         \/ a \in toSrv
         \/ /\ a.src \in Clients
            /\ a.type = ACK =>
                  /\ rcvd_count'[a.src] > 0
                  /\ \A i \in 1..NACK_SIZE : a.nack[i] = -1 \/ a.nack[i] \in 1..(seq - 1)
  <2>1. PICK half :
          SentToSrv({[src |-> p, type |-> ACK, nack |-> Missing(p, n), half |-> half]})
    BY DEF RecvWanted, n
  <2>2. \A a \in toSrv' : a \in toSrv
          \/ a = [src |-> p, type |-> ACK, nack |-> Missing(p, n), half |-> half]
    BY <2>1, CarriedOnly DEF SentToSrv
  <2>3. rcvd_count'[p] > 0 BY <1>7, <1>9
  <2>4. \A i \in 1..NACK_SIZE : Missing(p, n)[i] = -1 \/ Missing(p, n)[i] \in 1..(seq - 1)
    BY <1>3, MissingBelow
  <2>5. \A a \in toSrv' : a \in toSrv \/ (a.src = p /\ a.nack = Missing(p, n)) BY <2>2
  <2>6. QED BY <2>3, <2>4, <2>5
<1>23. toCli' \subseteq toCli BY <1>2, ReadLeaves
<1>24. now' \in Nat BY <1>2 DEF RtInv, SrvBasics
<1>25. QED BY <1>2, <1>15, <1>16, <1>20, <1>21, <1>22, <1>23, <1>24, CliStep

-----------------------------------------------------------------------------
(* The theorems *)

\* It starts with nothing sent, and nobody served.
LEMMA RtInvInit == RtInit => RtInv
<1> SUFFICES ASSUME RtInit PROVE RtInv OBVIOUS
<1>1. RtNetInit /\ SrvInit /\ CliInit BY DEF RtInit
<1>2. WINDOW_SIZE \in Nat /\ WINDOW_SIZE > 0 /\ StartTime \in Nat BY RtConstants
<1>3. SrvBasics
  <2>1. now \in Nat BY <1>1, <1>2 DEF RtNetInit
  <2>2. seq = 1 /\ head = 1 /\ Request = FALSE BY <1>1 DEF SrvInit
  <2>3. current_addr \in Clients /\ rcv_addr \in Clients BY <1>1 DEF SrvInit
  <2>4. srvWindow = [s \in Slots |->
          [seq |-> 0, ts |-> 0, nack |-> [i \in 1..NACK_SIZE |-> 0]]]
    BY <1>1 DEF SrvInit
  <2>5. DOMAIN srvWindow = Slots /\ \A s \in Slots : srvWindow[s].seq = 0 BY <2>4
  <2>10. DOMAIN slide = Slots BY <1>1 DEF SrvInit
  <2>6. \A s \in Slots : srvWindow[s].seq \in 0..(seq - 1) BY <2>2, <2>5
  <2>7. seq \in Nat /\ seq >= 1 /\ head \in Int /\ head >= 1 BY <2>2
  <2>8. Request \in BOOLEAN BY <2>2
  <2>9. QED BY <2>1, <2>3, <2>5, <2>6, <2>7, <2>8, <2>10, Zenon DEF SrvBasics
<1>4. CliBasics
  <2>1. C_ack \in [Clients -> Nat] /\ rcvd_count \in [Clients -> Nat] BY <1>1 DEF CliInit
  <2>2. buffer \in [Clients -> [Slots -> BOOLEAN]] BY <1>1 DEF CliInit
  <2>3. cliReport \in [Clients -> Nat \cup {Unset}] BY <1>1 DEF CliInit
  <2>4. DOMAIN cliPhase = Clients /\ DOMAIN buffersize = Clients BY <1>1 DEF CliInit
  <2>5. DOMAIN cliWindow = Clients /\ \A p \in Clients : DOMAIN cliWindow[p] = Slots
    BY <1>1 DEF CliInit
  <2>6. QED BY <2>1, <2>2, <2>3, <2>4, <2>5 DEF CliBasics
<1>5. Admission
  <2>1. \A p \in Clients : cliPhase[p] # "receiving" BY <1>1 DEF CliInit
  <2>2. toCli = {} BY <1>1 DEF RtNetInit
  <2>3. QED BY <2>1, <2>2 DEF Admission, ServesOneClient
<1>6. SrvHolds
  <2>1. seq = 1 /\ \A k \in Slots : slide[k] = 0 /\ srvWindow[k].ts = 0 BY <1>1 DEF SrvInit
  <2>2. Latency \in Nat BY RtNetAssumption
  <2>3. QED BY <2>1, <2>2 DEF SrvHolds
<1>7. ToCliRight /\ ToSrvRight BY <1>1 DEF RtNetInit, ToCliRight, ToSrvRight
<1>8. ReportTimerSet BY <1>1 DEF CliInit, ReportTimerSet
<1>9. RtBufferAgrees
  <2>1. ASSUME NEW p \in Clients
        PROVE  /\ buffersize[p] = Cardinality({s \in Slots : buffer[p][s]})
               /\ \A s \in Taken(p) : cliWindow[p][Slot(s)].seq = s /\ s < seq
    <3>1. buffersize[p] = 0 /\ \A s \in Slots : ~buffer[p][s] BY <1>1 DEF CliInit
    <3>2. {s \in Slots : buffer[p][s]} = {} BY <3>1
    <3>3. Taken(p) = {}
      <4>1. C_ack[p] = 0 BY <1>1 DEF CliInit
      <4>2. \A s \in Int : ~buffer[p][Slot(s)] BY <3>1, SlotType
      <4>3. QED BY <1>2, <4>1, <4>2 DEF Taken
    <3>4. QED BY <3>1, <3>2, <3>3, FS_EmptySet
  <2>2. QED BY <2>1 DEF RtBufferAgrees
<1>10. QED BY <1>3, <1>4, <1>5, <1>6, <1>7, <1>8, <1>9 DEF RtInv

\* Every step of the server, of a client, of the network and of the clock keeps the invariant.
LEMMA RtInvStep == RtInv /\ [RtNext]_rtVars => RtInv'
<1> SUFFICES ASSUME RtInv, [RtNext]_rtVars PROVE RtInv' OBVIOUS
<1>1. CASE SrvNext /\ UNCHANGED cliVars
  <2>1. CASE \E m \in toSrv : SrvRecv(m)
    BY <1>1, <2>1, PermitKeeps, RecvAckKeeps, RecvRequestKeeps DEF SrvRecv
  <2>2. CASE App BY <1>1, <2>2, AppKeeps
  <2>3. CASE SrvReport BY <1>1, <2>3, SrvReportKeeps
  <2>4. QED BY <1>1, <2>1, <2>2, <2>3 DEF SrvNext
<1>2. ASSUME NEW p \in Clients, CliNext(p), UNCHANGED srvVars PROVE RtInv'
  <2>1. CASE SendRequest(p) BY <1>2, <2>1, AskingKeeps
  <2>2. CASE \E m \in toCli : CliRecv(p, m)
    <3>1. PICK m \in toCli : CliRecv(p, m) BY <2>2
    <3>2. CASE Permitted(p, m) \/ Declined(p, m) \/ TooEarly(p, m)
      BY <1>2, <3>2, AskingKeeps
    <3>3. CASE RecvWanted(p, m) BY <1>2, <3>3, RecvWantedKeeps
    <3>4. CASE RecvUnwanted(p, m) \/ RecvAckAck(p, m) \/ RecvOther(p, m)
      BY <1>2, <3>4, NotAcceptedKeeps
    <3>5. QED BY <3>1, <3>2, <3>3, <3>4 DEF CliRecv
  <2>3. CASE Deliver(p) BY <1>2, <2>3, DeliverKeeps
  <2>4. CASE CliReport(p) BY <1>2, <2>4, CliReportKeeps
  <2>5. QED BY <1>2, <2>1, <2>2, <2>3, <2>4 DEF CliNext
<1>3. CASE CliPortClosed
  <2>1. toCli' \subseteq toCli /\ UNCHANGED <<toSrv, now>> /\ UNCHANGED srvVars /\ UNCHANGED cliVars
    BY <1>3 DEF CliPortClosed
  <2>2. /\ UNCHANGED <<C_ack, buffer, buffersize, cliWindow, rcvd_count, cliReport>>
        /\ UNCHANGED cliPhase
    BY <2>1 DEF cliVars
  <2>3. now' \in Nat /\ DOMAIN cliPhase' = Clients
    BY <2>1, <2>2 DEF RtInv, SrvBasics, CliBasics
  <2>4. QED BY <2>1, <2>2, <2>3, QuietStep
<1>4. CASE Tick /\ UNCHANGED <<srvVars, cliVars>>
  <2>1. UNCHANGED <<toCli, toSrv>> /\ UNCHANGED srvVars /\ UNCHANGED cliVars
    BY <1>4 DEF Tick
  <2>2. /\ UNCHANGED <<C_ack, buffer, buffersize, cliWindow, rcvd_count, cliReport>>
        /\ UNCHANGED cliPhase
    BY <2>1 DEF cliVars
  <2>3. now' \in Nat BY <1>4 DEF Tick, RtInv, SrvBasics
  <2>4. DOMAIN cliPhase' = Clients BY <2>2 DEF RtInv, CliBasics
  <2>5. QED BY <2>1, <2>2, <2>3, <2>4, QuietStep
<1>5. CASE UNCHANGED rtVars
  <2>1. UNCHANGED <<toCli, toSrv, now>> /\ UNCHANGED srvVars /\ UNCHANGED cliVars
    BY <1>5 DEF rtVars, rtNetVars
  <2>2. /\ UNCHANGED <<C_ack, buffer, buffersize, cliWindow, rcvd_count, cliReport>>
        /\ UNCHANGED cliPhase
    BY <2>1 DEF cliVars
  <2>3. now' \in Nat /\ DOMAIN cliPhase' = Clients
    BY <2>1, <2>2 DEF RtInv, SrvBasics, CliBasics
  <2>4. QED BY <2>1, <2>2, <2>3, QuietStep
<1>6. QED BY <1>1, <1>2, <1>3, <1>4, <1>5 DEF RtNext

\* The invariant that the others follow from.
THEOREM RealTimeCorrect == RtSpec => []RtInv
<1>1. RtInit => RtInv BY RtInvInit
<1>2. RtInv /\ [RtNext]_rtVars => RtInv' BY RtInvStep
<1>3. QED BY <1>1, <1>2, PTL DEF RtSpec

\* The server admits one client, which is the only one to take its stream (rt_srv.c, the
\* handling of requests).
THEOREM AlwaysServesOneClient == RtSpec => []ServesOneClient
<1>1. RtInv => ServesOneClient BY DEF RtInv, Admission
<1>2. QED BY <1>1, RealTimeCorrect, PTL

\* Each taken slot of a client's window holds the packet of its place, and buffersize
\* counts them (rt_rcv.c, delivery and the window).
THEOREM RtBufferAlwaysAgrees == RtSpec => []RtBufferAgrees
<1>1. RtInv => RtBufferAgrees BY DEF RtInv
<1>2. QED BY <1>1, RealTimeCorrect, PTL

\* A resent packet is never the first that a client accepts, so the timer of its reports
\* is set (rt_rcv.c, next_report_time).
THEOREM ReportTimerAlwaysSet == RtSpec => []ReportTimerSet
<1>1. RtInv => ReportTimerSet BY DEF RtInv
<1>2. QED BY <1>1, RealTimeCorrect, PTL

\* What the server resends for a NACK is in time, and it is the packet asked for, or a
\* later one that has overrun the window (rt_srv.c, the NACK loop).
THEOREM AlwaysResendsWhatIsNacked == RtSpec => []ResendsWhatIsNacked
<1>1. RtInv => ResendsWhatIsNacked
  <2> SUFFICES ASSUME RtInv, NEW m \in toSrv, m.type = ACK, NEW i \in 1..NACK_SIZE,
                      Resendable(m.nack[i])
               PROVE  LET kept == srvWindow[Slot(m.nack[i])]
                      IN  /\ now <= kept.ts + Latency
                          /\ \/ kept.seq = m.nack[i]
                             \/ Overrun /\ m.nack[i] < kept.seq
    BY DEF ResendsWhatIsNacked
  <2> DEFINE s == m.nack[i]
  <2>1. s = -1 \/ s \in 1..(seq - 1) BY DEF RtInv, ToSrvRight
  <2>2. s \in head..MAX_INT /\ slide[Slot(s)] >= now BY DEF Resendable
  <2> HIDE DEF s
  <2>3. /\ seq \in Int /\ head \in Int /\ head >= 1 /\ WINDOW_SIZE \in Int /\ WINDOW_SIZE > 0
        /\ now \in Int /\ Latency \in Int
    BY RtConstants, RtNetAssumption DEF RtInv, SrvBasics
  <2>4. s >= head /\ s \in Int /\ s \in 1..(seq - 1) BY <2>1, <2>2, <2>3
  <2>5. Slot(s) \in Slots BY <2>4, SlotType
  <2>6. now <= srvWindow[Slot(s)].ts + Latency
    <3>1. /\ slide[Slot(s)] \in Nat /\ srvWindow[Slot(s)].ts \in Nat
          /\ slide[Slot(s)] <= srvWindow[Slot(s)].ts + Latency
      BY <2>5 DEF RtInv, SrvHolds
    <3>2. QED BY <2>2, <2>3, <3>1
  <2>7. CASE s >= seq - WINDOW_SIZE
    <3>1. srvWindow[Slot(s)].seq = s BY <2>4, <2>7 DEF RtInv, SrvHolds
    <3>2. QED BY <2>6, <3>1 DEF s
  <2>8. CASE s < seq - WINDOW_SIZE
    <3>1. seq - WINDOW_SIZE \in Int BY <2>3
    <3>2. PICK t \in (seq - WINDOW_SIZE)..(seq - WINDOW_SIZE + WINDOW_SIZE - 1) :
            Slot(t) = Slot(s)
      BY <2>4, <3>1, SlotReached
    <3>3. t \in 1..(seq - 1) /\ t >= seq - WINDOW_SIZE /\ s < t
      BY <2>3, <2>4, <2>8, <3>2
    <3>4. srvWindow[Slot(s)].seq = t BY <3>2, <3>3 DEF RtInv, SrvHolds
    <3>5. Overrun BY <2>3, <2>4, <2>8 DEF Overrun
    <3>6. QED BY <2>6, <3>3, <3>4, <3>5 DEF s
  <2>9. QED BY <2>3, <2>4, <2>7, <2>8
<1>2. QED BY <1>1, RealTimeCorrect, PTL

-----------------------------------------------------------------------------
(* What goes to the applications *)

\* The packets of S in order are those of S, each once and the smaller ones first.
LEMMA InOrderSorts ==
    ASSUME NEW S \in SUBSET Int, IsFiniteSet(S)
    PROVE  /\ Cardinality(S) \in Nat
           /\ InOrder(S) \in [1..Cardinality(S) -> S]
           /\ \A i, j \in 1..Cardinality(S) : i < j => InOrder(S)[i] < InOrder(S)[j]
           /\ \A s \in S : \E i \in 1..Cardinality(S) : InOrder(S)[i] = s
<1> DEFINE n == Cardinality(S)
           upTo(s) == {x \in S : x <= s}
           rank == [s \in S |-> Cardinality(upTo(s))]
<1>1. n \in Nat /\ IsFiniteSet(1..n) /\ Cardinality(1..n) = n
  <2>1. n \in Nat BY FS_CardinalityType
  <2> HIDE DEF n
  <2>2. QED BY <2>1, FS_Interval
<1>2. ASSUME NEW s \in S
      PROVE  IsFiniteSet(upTo(s)) /\ rank[s] \in 1..n
  <2>1. upTo(s) \in SUBSET S /\ s \in upTo(s) OBVIOUS
  <2> HIDE DEF upTo
  <2>2. IsFiniteSet(upTo(s)) /\ Cardinality(upTo(s)) <= Cardinality(S) BY <2>1, FS_Subset
  <2>3. Cardinality(upTo(s)) \in Nat BY <2>2, FS_CardinalityType
  <2>4. Cardinality(upTo(s)) # 0 BY <2>1, <2>2, FS_EmptySet
  <2> HIDE DEF n
  <2>5. rank[s] = Cardinality(upTo(s)) OBVIOUS
  <2> HIDE DEF rank
  <2>6. QED BY <1>1, <2>2, <2>3, <2>4, <2>5 DEF n
<1>3. ASSUME NEW s \in S, NEW t \in S, s < t
      PROVE  rank[s] < rank[t]
  <2>1. upTo(s) \in SUBSET upTo(t) /\ t \in upTo(t) /\ t \notin upTo(s)
    <3>1. \A x \in S : x <= s => x <= t BY <1>3
    <3>2. upTo(s) \in SUBSET upTo(t) BY <3>1
    <3>3. t <= t /\ ~(t <= s) BY <1>3
    <3>4. QED BY <3>2, <3>3
  <2>2. rank[s] = Cardinality(upTo(s)) /\ rank[t] = Cardinality(upTo(t)) OBVIOUS
  <2>3. IsFiniteSet(upTo(t)) /\ IsFiniteSet(upTo(s)) BY <1>2
  <2> HIDE DEF upTo, rank, n
  <2>4. /\ Cardinality(upTo(s)) <= Cardinality(upTo(t))
        /\ Cardinality(upTo(t)) = Cardinality(upTo(s)) => upTo(t) = upTo(s)
    BY <2>1, <2>3, FS_Subset
  <2>5. Cardinality(upTo(s)) \in Nat /\ Cardinality(upTo(t)) \in Nat
    BY <2>3, FS_CardinalityType
  <2>6. upTo(s) # upTo(t) BY <2>1
  <2>7. Cardinality(upTo(t)) # Cardinality(upTo(s)) BY <2>4, <2>6
  <2>8. QED BY <2>2, <2>4, <2>5, <2>7
<1>4. rank \in [S -> 1..n] BY <1>2
<1>5. ASSUME NEW s \in S, NEW t \in S, rank[s] = rank[t] PROVE s = t
  <2>1. rank[s] \in Int /\ rank[t] \in Int BY <1>1, <1>4
  <2> HIDE DEF rank, n
  <2>2. ~(s < t) /\ ~(t < s) BY <1>3, <1>5, <2>1
  <2>3. QED BY <2>2
<1>6. ASSUME NEW i \in 1..n PROVE \E s \in S : rank[s] = i
  <2>1. rank \in Injection(S, 1..n) BY <1>4, <1>5, Fun_IsInj
  <2> HIDE DEF rank
  <2>2. rank \in Surjection(S, 1..n)
    <3>1. Cardinality(S) = Cardinality(1..n) BY <1>1
    <3> HIDE DEF n
    <3>2. QED BY <1>1, <2>1, <3>1, FS_Injection
  <2> HIDE DEF n
  <2>3. QED BY <2>2 DEF Surjection
<1>7. ASSUME NEW i \in 1..n PROVE InOrder(S)[i] \in S /\ rank[InOrder(S)[i]] = i
  <2>1. InOrder(S)[i] = CHOOSE s \in S : Cardinality({x \in S : x <= s}) = i BY DEF InOrder
  <2>2. \E s \in S : Cardinality({x \in S : x <= s}) = i BY <1>6
  <2>3. InOrder(S)[i] \in S /\ Cardinality({x \in S : x <= InOrder(S)[i]}) = i BY <2>1, <2>2
  <2>4. QED BY <2>3
<1> HIDE DEF rank
<1>8. InOrder(S) \in [1..n -> S]
  <2> DEFINE place(i) == CHOOSE s \in S : Cardinality({x \in S : x <= s}) = i
  <2>0. InOrder(S) = [i \in 1..n |-> place(i)] BY DEF InOrder
  <2> HIDE DEF place, n
  <2>1. InOrder(S) = [i \in 1..n |-> InOrder(S)[i]] BY <2>0
  <2>2. QED BY <1>7, <2>1
<1> HIDE DEF n
<1>9. ASSUME NEW i \in 1..n, NEW j \in 1..n, i < j PROVE InOrder(S)[i] < InOrder(S)[j]
  <2> DEFINE s == InOrder(S)[i]
             t == InOrder(S)[j]
  <2>1. s \in S /\ t \in S /\ rank[s] = i /\ rank[t] = j BY <1>7
  <2> HIDE DEF s, t
  <2>2. s # t /\ ~(t < s) BY <1>1, <1>3, <1>9, <2>1
  <2>3. s < t BY <2>1, <2>2
  <2>4. QED BY <2>3 DEF s, t
<1>10. ASSUME NEW s \in S PROVE \E i \in 1..n : InOrder(S)[i] = s
  <2>1. rank[s] \in 1..n BY <1>4
  <2>2. rank[InOrder(S)[rank[s]]] = rank[s] /\ InOrder(S)[rank[s]] \in S BY <1>7, <2>1
  <2>3. InOrder(S)[rank[s]] = s BY <1>5, <2>2
  <2>4. QED BY <2>1, <2>3
<1>11. QED BY <1>1, <1>8, <1>9, <1>10 DEF n

\* Every number of s is greater than those before it.
Increasing(s) == \A i, j \in 1..Len(s) : i < j => s[i] < s[j]

\* What went to the application of p: packets in order, none of them sent later, the last
\* of them the one delivered last, and what was accepted is there or in the window.
OutputOf(p) ==
    /\ Increasing(delivered[p])
    /\ \A i \in 1..Len(delivered[p]) : 1 <= delivered[p][i] /\ delivered[p][i] <= C_ack[p]
    /\ C_ack[p] = IF delivered[p] = <<>> THEN 0 ELSE delivered[p][Len(delivered[p])]
    /\ C_ack[p] < seq
    /\ rcvd_count[p] = buffersize[p] + Len(delivered[p])
    /\ cliPhase[p] # "receiving" => delivered[p] = <<>>

OutputRight ==
    /\ delivered \in [Clients -> Seq(Nat)]
    /\ \A p \in Clients : OutputOf(p)

\* The packets of S, last of them last, are later than those of d, none of which is
\* later than c.
Behind(d, c, S, last) ==
    /\ Increasing(d) /\ \A i \in 1..Len(d) : 1 <= d[i] /\ d[i] <= c
    /\ \A x \in S : c < x /\ x <= last

\* e has the packets of S behind those of d, in order.
Grown(d, S, last, e) ==
    /\ e \in Seq(Nat) /\ Increasing(e)
    /\ Cardinality(S) \in Nat /\ Cardinality(S) > 0
    /\ Len(e) = Len(d) + Cardinality(S)
    /\ \A i \in 1..Len(d) : e[i] = d[i]
    /\ \A i \in (Len(d) + 1)..Len(e) : e[i] \in S
    /\ \A i \in 1..Len(e) : 1 <= e[i] /\ e[i] <= last
    /\ e[Len(e)] = last

\* Later packets put behind earlier ones, in order.
LEMMA OutputGrows ==
    ASSUME NEW d \in Seq(Nat), NEW c \in Nat, NEW S \in SUBSET Nat, IsFiniteSet(S),
           NEW last \in S, Behind(d, c, S, last)
    PROVE  Grown(d, S, last, d \o InOrder(S))
<1> DEFINE k == Cardinality(S)
           f == InOrder(S)
           n == Len(d)
           e == d \o InOrder(S)
<1>1. /\ k \in Nat /\ f \in [1..k -> S]
      /\ \A i, j \in 1..k : i < j => f[i] < f[j]
      /\ \A s \in S : \E i \in 1..k : f[i] = s
  BY InOrderSorts
<1> HIDE DEF k, f
<1>2. f \in Seq(Nat) /\ Len(f) = k
  <2>1. \A i \in 1..k : f[i] \in Nat BY <1>1
  <2>2. f = [i \in 1..k |-> f[i]] BY <1>1
  <2>3. QED BY <1>1, <2>1, <2>2, IsASeq, LenProperties
<1>3. n \in Nat OBVIOUS
<1>0. /\ \A x \in S : x \in Nat /\ 1 <= x /\ c < x /\ x <= last
      /\ Increasing(d) /\ \A i \in 1..Len(d) : 1 <= d[i] /\ d[i] <= c
  BY DEF Behind
<1>4. e \in Seq(Nat) /\ Len(e) = n + k
  <2>1. e = d \o f /\ d \in Seq(Nat) BY DEF f
  <2>2. d \o f \in Seq(Nat) /\ Len(d \o f) = Len(d) + Len(f) BY <1>2, ConcatProperties
  <2>3. QED BY <1>2, <2>1, <2>2
<1>5. \A i \in 1..n : e[i] = d[i] BY <1>2 DEF f
<1>6. \A i \in (n + 1)..(n + k) : i - n \in 1..k /\ e[i] = f[i - n]
  BY <1>1, <1>2, <1>3 DEF f
<1> HIDE DEF n, e
<1>7. PICK l \in 1..k : f[l] = last BY <1>1
<1>8. k > 0 BY <1>1, <1>7
<1>9. f[k] = last
  <2>1. k \in 1..k BY <1>1, <1>8
  <2>2. f[k] \in Nat /\ f[k] <= last /\ last \in Nat BY <1>0, <1>1, <2>1
  <2>3. CASE l = k BY <1>7, <2>3
  <2>4. CASE l < k
    <3>1. f[l] < f[k] BY <1>1, <2>1, <2>4
    <3>2. QED BY <1>7, <2>2, <3>1
  <2>5. QED BY <1>1, <2>3, <2>4
<1>10. \A i \in (n + 1)..(n + k) : e[i] \in S BY <1>1, <1>6
<1>11. e[n + k] = last
  <2>1. n + k \in (n + 1)..(n + k) /\ (n + k) - n = k BY <1>1, <1>3, <1>8
  <2>2. QED BY <1>6, <1>9, <2>1
<1>12. \A i \in 1..(n + k) : i \in 1..n \/ i \in (n + 1)..(n + k) BY <1>1, <1>3
<1>13. \A i \in 1..(n + k) : 1 <= e[i] /\ e[i] <= last
  <2>1. c < last /\ c \in Nat /\ last \in Nat BY <1>0
  <2>2. ASSUME NEW i \in 1..n PROVE 1 <= e[i] /\ e[i] <= last
    <3>1. 1 <= d[i] /\ d[i] <= c /\ e[i] = d[i] BY <1>0, <1>5 DEF n
    <3>2. e[i] \in Nat BY <1>1, <1>3, <1>4
    <3>3. QED BY <2>1, <3>1, <3>2
  <2>3. ASSUME NEW i \in (n + 1)..(n + k) PROVE 1 <= e[i] /\ e[i] <= last
    BY <1>0, <1>10, <2>3
  <2>4. QED BY <1>12, <2>2, <2>3
<1>14. ASSUME NEW i \in 1..(n + k), NEW j \in 1..(n + k), i < j PROVE e[i] < e[j]
  <2>1. CASE j \in 1..n
    <3>1. i \in 1..n BY <1>3, <1>14, <2>1
    <3>2. d[i] < d[j] BY <1>0, <1>14, <2>1, <3>1 DEF Increasing, n
    <3>3. QED BY <1>5, <2>1, <3>1, <3>2
  <2>2. CASE i \in 1..n /\ j \in (n + 1)..(n + k)
    <3>1. e[i] = d[i] /\ d[i] <= c BY <1>0, <1>5, <2>2 DEF n
    <3>2. e[j] \in Nat /\ c < e[j] /\ c \in Nat BY <1>0, <1>10, <2>2
    <3>3. e[i] \in Nat BY <1>4, <1>14
    <3> DEFINE x == e[i]
               y == e[j]
    <3>4. x \in Nat /\ x <= c /\ y \in Nat /\ c < y BY <3>1, <3>2, <3>3
    <3> HIDE DEF x, y
    <3>5. x < y BY <3>2, <3>4
    <3>6. QED BY <3>5 DEF x, y
  <2>3. CASE i \in (n + 1)..(n + k)
    <3>1. j \in (n + 1)..(n + k) BY <1>1, <1>3, <1>14, <2>3
    <3>2. i - n < j - n BY <1>3, <1>14
    <3>3. f[i - n] < f[j - n] BY <1>1, <1>6, <2>3, <3>1, <3>2
    <3>4. QED BY <1>6, <2>3, <3>1, <3>3
  <2>4. QED BY <1>12, <1>14, <2>1, <2>2, <2>3
<1>15. QED
  BY <1>1, <1>4, <1>5, <1>8, <1>10, <1>11, <1>13, <1>14 DEF Grown, Increasing, n, k, e

\* Delivery puts what is due behind what was delivered.
LEMMA DeliverAppends ==
    ASSUME RtInv, OutputRight, NEW p \in Clients, Deliver(p)
    PROVE  /\ delivered' = [delivered EXCEPT ![p] = delivered[p] \o InOrder(Due(p))]
           /\ Due(p) \in SUBSET Nat /\ IsFiniteSet(Due(p))
           /\ \A x \in Due(p) : C_ack[p] < x /\ x < seq
<1>1. C_ack[p] \in Nat /\ seq \in Nat BY DEF RtInv, CliBasics, SrvBasics
<1>2. Due(p) \in SUBSET ((C_ack[p] + 1)..(C_ack[p] + WINDOW_SIZE)) BY DEF Due, Taken
<1>3. IsFiniteSet(Due(p))
  <2>1. C_ack[p] \in Int BY <1>1
  <2>2. QED BY <1>2, <2>1, SlotsCounted, Zenon
<1>4. \A x \in Due(p) : x \in Nat /\ C_ack[p] < x BY <1>1, <1>2
<1>5. \A x \in Due(p) : cliWindow[p][Slot(x)].seq = x /\ x < seq
  BY DEF Due, RtInv, RtBufferAgrees
<1> DEFINE S == Due(p)
           n == Cardinality(S)
<1>6. S \in SUBSET Int /\ IsFiniteSet(S) BY <1>3, <1>4
<1>7. InOrder(S) \in [1..n -> S]
  <2> HIDE DEF S
  <2>1. QED BY <1>6, InOrderSorts
<1>8. [i \in 1..n |-> cliWindow[p][Slot(InOrder(S)[i])].seq] = InOrder(S)
  <2>1. \A i \in 1..n : InOrder(S)[i] \in S BY <1>7
  <2>2. \A x \in S : cliWindow[p][Slot(x)].seq = x BY <1>5
  <2> HIDE DEF S, n
  <2>3. \A i \in 1..n : cliWindow[p][Slot(InOrder(S)[i])].seq = InOrder(S)[i] BY <2>1, <2>2
  <2> DEFINE get(i) == cliWindow[p][Slot(InOrder(S)[i])].seq
  <2>4. \A i \in 1..n : get(i) = InOrder(S)[i] BY <2>3
  <2> HIDE DEF get
  <2>5. [i \in 1..n |-> get(i)] = InOrder(S) BY <1>7, <2>4
  <2>6. QED BY <2>5 DEF get
<1>9. delivered' = [delivered EXCEPT ![p] =
          delivered[p] \o [i \in 1..n |-> cliWindow[p][Slot(InOrder(S)[i])].seq]]
  BY DEF Deliver
<1> HIDE DEF S, n
<1>10. delivered' = [delivered EXCEPT ![p] = delivered[p] \o InOrder(S)] BY <1>8, <1>9
<1>11. QED BY <1>3, <1>4, <1>5, <1>10 DEF S

\* A step of the server, the network or the clock, seen from the applications: nothing, a
\* packet more, or a first client.
ServerMoves ==
    /\ UNCHANGED cliVars
    /\ \/ seq' = seq /\ (current_addr' = current_addr \/ ~Request)
       \/ seq' = seq + 1 /\ current_addr' = current_addr

\* A step of client p that neither delivers nor accepts a packet.
ClientWaits(p) ==
    /\ UNCHANGED <<C_ack, buffersize, rcvd_count, delivered>>
    /\ \A q \in Clients : cliPhase[q] = "receiving" => cliPhase'[q] = "receiving"

\* Every step is one of these, a delivery or the arrival of a packet that is kept.
LEMMA StepsForApplications ==
    ASSUME RtInv, [RtNext]_rtVars
    PROVE  \/ ServerMoves
           \/ /\ UNCHANGED srvVars
              /\ \E p \in Clients : \/ ClientWaits(p) \/ Deliver(p)
                                    \/ \E m \in toCli : RecvWanted(p, m)
<1>1. CASE SrvNext /\ UNCHANGED cliVars
  <2>1. ASSUME NEW m \in toSrv, SrvRecv(m) PROVE seq' = seq /\ (current_addr' = current_addr \/ ~Request)
    BY <2>1 DEF SrvRecv, Permit, RecvAck, RecvRequest
  <2>2. App => seq' = seq + 1 /\ current_addr' = current_addr BY DEF App
  <2>3. SrvReport => seq' = seq /\ current_addr' = current_addr BY DEF SrvReport
  <2>4. QED BY <1>1, <2>1, <2>2, <2>3 DEF SrvNext, ServerMoves
<1>2. CASE UNCHANGED <<seq, current_addr>> /\ UNCHANGED cliVars BY <1>2 DEF ServerMoves
<1>3. CASE CliPortClosed \/ (Tick /\ UNCHANGED <<srvVars, cliVars>>) \/ UNCHANGED rtVars
  BY <1>2, <1>3 DEF CliPortClosed, rtVars, srvVars
<1>4. ASSUME NEW p \in Clients, CliNext(p)
      PROVE  ClientWaits(p) \/ Deliver(p) \/ \E m \in toCli : RecvWanted(p, m)
  <2>1. DOMAIN cliPhase = Clients BY DEF RtInv, CliBasics
  <2>2. CASE SendRequest(p) BY <2>2 DEF SendRequest, cliVars, ClientWaits
  <2>3. CASE CliReport(p) BY <2>3 DEF CliReport, ClientWaits
  <2>4. ASSUME NEW m \in toCli, CliRecv(p, m), ~RecvWanted(p, m) PROVE ClientWaits(p)
    <3>1. CASE Permitted(p, m) BY <2>1, <3>1 DEF Permitted, ClientWaits
    <3>2. CASE Declined(p, m)
      <4>1. /\ cliPhase[p] = "requesting" /\ cliPhase' = [cliPhase EXCEPT ![p] = "exited"]
            /\ UNCHANGED <<C_ack, buffersize, rcvd_count, delivered>>
        BY <3>2 DEF Declined
      <4>2. QED BY <2>1, <4>1 DEF ClientWaits
    <3>3. CASE TooEarly(p, m) BY <3>3 DEF TooEarly, cliVars, ClientWaits
    <3>4. CASE RecvUnwanted(p, m) BY <3>4 DEF RecvUnwanted, Receiving, ClientWaits
    <3>5. CASE RecvAckAck(p, m) BY <3>5 DEF RecvAckAck, Receiving, ClientWaits
    <3>6. CASE RecvOther(p, m) BY <3>6 DEF RecvOther, Receiving, ClientWaits
    <3>7. QED BY <2>4, <3>1, <3>2, <3>3, <3>4, <3>5, <3>6 DEF CliRecv
  <2>5. QED BY <1>4, <2>2, <2>3, <2>4 DEF CliNext
<1>5. QED BY <1>1, <1>3, <1>4 DEF RtNext

\* What was delivered stays right when nothing is delivered or accepted.
LEMMA OutputRests ==
    ASSUME RtInv, OutputRight, UNCHANGED <<C_ack, rcvd_count, delivered>>,
           \A q \in Clients : buffersize'[q] = buffersize[q],
           seq' = seq \/ seq' = seq + 1,
           \A q \in Clients : cliPhase[q] = "receiving" => cliPhase'[q] = "receiving"
    PROVE  OutputRight'
<1>1. delivered' = delivered /\ C_ack' = C_ack /\ rcvd_count' = rcvd_count
  OBVIOUS
<1>2. seq \in Nat /\ \A q \in Clients : C_ack[q] \in Nat BY DEF RtInv, SrvBasics, CliBasics
<1>3. ASSUME NEW q \in Clients PROVE OutputOf(q)'
  <2>1. OutputOf(q) BY DEF OutputRight
  <2>2. C_ack[q] < seq' BY <1>2, <2>1 DEF OutputOf
  <2>3. cliPhase'[q] # "receiving" => delivered[q] = <<>> BY <2>1 DEF OutputOf
  <2>4. QED BY <1>1, <2>1, <2>2, <2>3 DEF OutputOf, Increasing
<1>4. delivered' \in [Clients -> Seq(Nat)] BY <1>1 DEF OutputRight
<1>5. QED BY <1>3, <1>4 DEF OutputRight

\* A packet that is kept counts in both counters.
LEMMA RecvWantedKeepsOutput ==
    ASSUME RtInv, OutputRight, UNCHANGED srvVars, NEW p \in Clients, NEW m, RecvWanted(p, m)
    PROVE  OutputRight'
<1>1. /\ DOMAIN buffersize = Clients /\ rcvd_count \in [Clients -> Nat]
      /\ \A q \in Clients : buffersize[q] = Cardinality(TakenSlots(q))
  BY DEF RtInv, CliBasics, RtBufferAgrees, TakenSlots
<1>2. \A q \in Clients : buffersize[q] \in Nat BY <1>1, TakenSlotsFinite
<1>3. /\ delivered' = delivered /\ C_ack' = C_ack /\ cliPhase' = cliPhase /\ seq' = seq
      /\ rcvd_count' = [rcvd_count EXCEPT ![p] = @ + 1]
      /\ buffersize' = [buffersize EXCEPT ![p] = @ + 1]
  BY DEF RecvWanted, Receiving, srvVars
<1>4. ASSUME NEW q \in Clients PROVE OutputOf(q)'
  <2>1. OutputOf(q) BY DEF OutputRight
  <2>2. delivered[q] \in Seq(Nat) /\ rcvd_count[q] = buffersize[q] + Len(delivered[q])
    BY <2>1 DEF OutputOf, OutputRight
  <2>3. Len(delivered[q]) \in Nat BY <2>2
  <2>4. rcvd_count'[q] = buffersize'[q] + Len(delivered[q])
    BY <1>1, <1>2, <1>3, <2>2, <2>3
  <2>5. QED BY <1>3, <2>1, <2>4 DEF OutputOf, Increasing
<1>5. QED BY <1>3, <1>4 DEF OutputRight

\* What a delivery brings the application of p, if anything.
Brings(p) ==
    LET d == delivered[p]
        e == delivered'[p]
    IN  /\ Len(d) \in Nat /\ Len(e) \in Nat /\ Len(d) < Len(e)
        /\ e \in Seq(Nat) /\ Increasing(e)
        /\ \A i \in 1..Len(d) : e[i] = d[i]
        /\ \A i \in (Len(d) + 1)..Len(e) : C_ack[p] < e[i] /\ e[i] < seq
        /\ \A i \in 1..Len(e) : 1 <= e[i] /\ e[i] <= C_ack'[p]
        /\ e[Len(e)] = C_ack'[p] /\ C_ack'[p] < seq
        /\ buffersize'[p] = buffersize[p] - (Len(e) - Len(d))

\* A delivery changes nothing or brings packets.
LEMMA DeliverBrings ==
    ASSUME RtInv, OutputRight, NEW p \in Clients, Deliver(p)
    PROVE  \/ /\ Due(p) = {}
              /\ UNCHANGED <<C_ack, delivered>> /\ buffersize'[p] = buffersize[p]
           \/ /\ Due(p) # {} /\ Brings(p)
<1> DEFINE S == Due(p)
           d == delivered[p]
           e == delivered'[p]
<1>1. /\ delivered' = [delivered EXCEPT ![p] = d \o InOrder(S)]
      /\ S \in SUBSET Nat /\ IsFiniteSet(S)
      /\ \A x \in S : C_ack[p] < x /\ x < seq
  BY DeliverAppends
<1>2. /\ delivered \in [Clients -> Seq(Nat)] /\ DOMAIN buffersize = Clients
      /\ C_ack \in [Clients -> Nat] /\ OutputOf(p)
      /\ buffersize[p] = Cardinality(TakenSlots(p))
  BY DEF RtInv, CliBasics, OutputRight, RtBufferAgrees, TakenSlots
<1>3. /\ d \in Seq(Nat) /\ Increasing(d) /\ \A i \in 1..Len(d) : 1 <= d[i] /\ d[i] <= C_ack[p]
  BY <1>2 DEF OutputOf
<1>4. /\ buffersize' = [buffersize EXCEPT ![p] = @ - Cardinality(S)]
      /\ C_ack' = [C_ack EXCEPT ![p] =
            IF S = {} THEN @ ELSE CHOOSE s \in S : \A x \in S : x <= s]
  BY DEF Deliver
<1>5. buffersize[p] \in Nat BY <1>2, TakenSlotsFinite
<1>6. CASE S = {}
  <2>1. Cardinality(S) = 0 BY <1>6, FS_EmptySet
  <2>2. InOrder(S) = <<>>
    <3>1. 1..Cardinality(S) = {} BY <2>1
    <3>2. DOMAIN InOrder(S) = {} BY <3>1 DEF InOrder
    <3>3. InOrder(S) \in [1..0 -> Nat] BY <1>6, <2>1 DEF InOrder
    <3>4. QED BY <3>3
  <2>3. d \o InOrder(S) = d BY <1>3, <2>2
  <2>4. delivered' = delivered BY <1>1, <1>2, <2>3
  <2>5. buffersize'[p] = buffersize[p] BY <1>2, <1>4, <1>5, <2>1
  <2>6. C_ack' = C_ack BY <1>2, <1>4, <1>6
  <2>7. QED BY <1>6, <2>4, <2>5, <2>6
<1>7. CASE S # {}
  <2>1. PICK last \in S :
          /\ last = CHOOSE s \in S : \A x \in S : x <= s
          /\ \A x \in S : x <= last
    BY <1>7, DueIsPrefix
  <2>2. C_ack'[p] = last BY <1>2, <1>4, <1>7, <2>1
  <2>3. e = d \o InOrder(S) BY <1>1, <1>2
  <2> HIDE DEF S, d, e
  <2>4. C_ack[p] \in Nat BY <1>2
  <2>5. \A x \in S : C_ack[p] < x /\ x <= last BY <1>1, <2>1
  <2>6. Grown(d, S, last, e)
    <3>1. Behind(d, C_ack[p], S, last) BY <1>3, <2>5 DEF Behind
    <3>2. Grown(d, S, last, d \o InOrder(S))
      BY <1>1, <1>3, <2>4, <3>1, OutputGrows
    <3>3. QED BY <2>3, <3>2
  <2>7. Len(d) \in Nat BY <1>3
  <2>8. Len(d) < Len(e) /\ Len(e) \in Nat /\ Cardinality(S) = Len(e) - Len(d)
    BY <2>6, <2>7 DEF Grown
  <2>9. buffersize'[p] = buffersize[p] - (Len(e) - Len(d)) BY <1>2, <1>4, <2>8
  <2>10. \A i \in (Len(d) + 1)..Len(e) : C_ack[p] < e[i] /\ e[i] < seq
    BY <1>1, <2>6 DEF Grown
  <2>11. C_ack'[p] < seq BY <1>1, <2>2
  <2>12. Brings(p) BY <2>2, <2>6, <2>7, <2>8, <2>9, <2>10, <2>11 DEF Grown, Brings, d, e
  <2>13. QED BY <1>7, <2>12 DEF S
<1>8. QED BY <1>6, <1>7

\* A delivery keeps what was delivered right.
LEMMA DeliverKeepsOutput ==
    ASSUME RtInv, OutputRight, UNCHANGED srvVars, NEW p \in Clients, Deliver(p)
    PROVE  OutputRight'
<1>1. /\ seq' = seq /\ cliPhase' = cliPhase /\ rcvd_count' = rcvd_count
      /\ cliPhase[p] = "receiving"
  BY DEF Deliver, srvVars
<1>2. /\ delivered \in [Clients -> Seq(Nat)] /\ DOMAIN buffersize = Clients
      /\ C_ack \in [Clients -> Nat] /\ rcvd_count \in [Clients -> Nat]
      /\ buffersize[p] = Cardinality(TakenSlots(p))
  BY DEF RtInv, CliBasics, OutputRight, RtBufferAgrees, TakenSlots
<1>3. buffersize[p] \in Nat BY <1>2, TakenSlotsFinite
<1>4. /\ \A q \in Clients : q # p => /\ buffersize'[q] = buffersize[q]
                                     /\ C_ack'[q] = C_ack[q]
                                     /\ delivered'[q] = delivered[q]
      /\ delivered' = [delivered EXCEPT ![p] = delivered[p] \o InOrder(Due(p))]
  BY <1>2, DeliverAppends DEF Deliver
<1>5. CASE UNCHANGED <<C_ack, delivered>> /\ buffersize'[p] = buffersize[p]
  <2>1. \A q \in Clients : buffersize'[q] = buffersize[q] BY <1>4, <1>5
  <2>2. QED BY <1>1, <1>5, <2>1, OutputRests
<1>6. CASE Brings(p)
  <2> DEFINE d == delivered[p]
             e == delivered'[p]
  <2>1. /\ Len(d) \in Nat /\ Len(e) \in Nat /\ Len(d) < Len(e)
        /\ e \in Seq(Nat) /\ Increasing(e)
        /\ \A i \in 1..Len(e) : 1 <= e[i] /\ e[i] <= C_ack'[p]
        /\ e[Len(e)] = C_ack'[p] /\ C_ack'[p] < seq
        /\ buffersize'[p] = buffersize[p] - (Len(e) - Len(d))
    BY <1>6 DEF Brings
  <2>2. rcvd_count[p] = buffersize[p] + Len(d) BY DEF OutputRight, OutputOf
  <2> HIDE DEF d, e
  <2>3. rcvd_count[p] = buffersize'[p] + Len(e)
    <3>1. /\ Len(d) \in Nat /\ Len(e) \in Nat
          /\ buffersize'[p] = buffersize[p] - (Len(e) - Len(d))
      BY <2>1
    <3>2. buffersize'[p] + Len(e) = buffersize[p] + Len(d) BY <1>3, <3>1
    <3>3. QED BY <2>2, <3>2
  <2>4. e # <<>> BY <2>1
  <2>5. OutputOf(p)' BY <1>1, <2>1, <2>3, <2>4 DEF OutputOf, Increasing, e
  <2>6. ASSUME NEW q \in Clients, q # p PROVE OutputOf(q)'
    <3>1. OutputOf(q) BY DEF OutputRight
    <3>2. QED BY <1>1, <1>4, <2>6, <3>1 DEF OutputOf, Increasing
  <2>7. delivered' \in [Clients -> Seq(Nat)]
    <3>1. delivered' = [delivered EXCEPT ![p] = e] BY <1>2, <1>4 DEF e
    <3>2. QED BY <1>2, <2>1, <3>1
  <2>8. QED BY <2>5, <2>6, <2>7 DEF OutputRight
<1>7. QED BY <1>5, <1>6, DeliverBrings

\* Nothing has been delivered at first.
LEMMA OutputInit == RtInit => OutputRight
<1> SUFFICES ASSUME RtInit PROVE OutputRight OBVIOUS
<1>1. /\ delivered = [p \in Clients |-> <<>>] /\ C_ack = [p \in Clients |-> 0]
      /\ buffersize = [p \in Clients |-> 0] /\ rcvd_count = [p \in Clients |-> 0] /\ seq = 1
  BY DEF RtInit, CliInit, SrvInit
<1>2. delivered \in [Clients -> Seq(Nat)] BY <1>1
<1>3. ASSUME NEW p \in Clients PROVE OutputOf(p)
  <2>1. /\ delivered[p] = <<>> /\ C_ack[p] = 0 /\ buffersize[p] = 0 /\ rcvd_count[p] = 0
        /\ Len(<<>>) = 0
    BY <1>1
  <2>2. QED BY <1>1, <2>1 DEF OutputOf, Increasing
<1>4. QED BY <1>2, <1>3 DEF OutputRight

\* Every step keeps what was delivered right.
LEMMA OutputStep == RtInv /\ OutputRight /\ [RtNext]_rtVars => OutputRight'
<1> SUFFICES ASSUME RtInv, OutputRight, [RtNext]_rtVars PROVE OutputRight' OBVIOUS
<1>1. CASE ServerMoves
  <2>1. UNCHANGED <<C_ack, rcvd_count, delivered>> /\ UNCHANGED <<buffersize, cliPhase>>
    BY <1>1 DEF ServerMoves, cliVars
  <2>2. seq' = seq \/ seq' = seq + 1 BY <1>1 DEF ServerMoves
  <2>3. QED BY <2>1, <2>2, OutputRests
<1>2. ASSUME NEW p \in Clients, UNCHANGED srvVars,
             ClientWaits(p) \/ Deliver(p) \/ \E m \in toCli : RecvWanted(p, m)
      PROVE  OutputRight'
  <2>1. seq' = seq BY <1>2 DEF srvVars
  <2>2. CASE ClientWaits(p) BY <2>1, <2>2, OutputRests DEF ClientWaits
  <2>3. CASE Deliver(p) BY <1>2, <2>3, DeliverKeepsOutput
  <2>4. ASSUME NEW m \in toCli, RecvWanted(p, m) PROVE OutputRight'
    BY <1>2, <2>4, RecvWantedKeepsOutput
  <2>5. QED BY <1>2, <2>2, <2>3, <2>4
<1>3. QED BY <1>1, <1>2, StepsForApplications

\* What was delivered is right whatever happens.
LEMMA OutputAlwaysRight == RtSpec => []OutputRight
<1>1. RtInit => OutputRight BY OutputInit
<1>2. RtInv /\ OutputRight /\ [RtNext]_rtVars => OutputRight' BY OutputStep
<1>3. QED BY <1>1, <1>2, RealTimeCorrect, PTL DEF RtSpec

\* Of the numbers up to c, an increasing sequence of some of them leaves out all but as
\* many as it is long.
LEMMA LeftOut ==
    ASSUME NEW c \in Nat, NEW d \in Seq(Nat), Increasing(d),
           \A i \in 1..Len(d) : 1 <= d[i] /\ d[i] <= c
    PROVE  Cardinality({s \in 1..c : ~Contains(d, s)}) = c - Len(d)
<1> DEFINE there == {s \in 1..c : Contains(d, s)}
           n == Len(d)
<1>1. n \in Nat /\ d \in [1..n -> Nat] BY LenProperties
<1>2. \A i \in 1..n : d[i] \in Nat /\ d[i] \in 1..c BY <1>1
<1>3. \A i \in 1..n : d[i] \in there BY <1>2 DEF Contains
<1>4. \A s \in there : \E i \in 1..n : d[i] = s BY DEF Contains
<1>5. ASSUME NEW i \in 1..n, NEW j \in 1..n, d[i] = d[j] PROVE i = j
  <2>1. i < j => d[i] < d[j] BY DEF Increasing
  <2>2. j < i => d[j] < d[i] BY DEF Increasing
  <2>3. d[i] \in Nat /\ d[j] \in Nat BY <1>2
  <2> HIDE DEF n
  <2>4. ~(i < j) /\ ~(j < i) BY <1>5, <2>1, <2>2, <2>3
  <2>5. QED BY <1>1, <2>4
<1> HIDE DEF there, n
<1>6. d \in [1..n -> there] BY <1>1, <1>3
<1>7. d \in Bijection(1..n, there) BY <1>4, <1>5, <1>6, Fun_IsBij
<1>8. ExistsBijection(1..n, there) BY <1>7 DEF ExistsBijection
<1>9. Cardinality(there) = n BY <1>1, <1>8, FS_CountingElements
<1>10. IsFiniteSet(1..c) /\ Cardinality(1..c) = c BY FS_Interval
<1>11. Cardinality((1..c) \ there) = Cardinality(1..c) - Cardinality((1..c) \cap there)
  BY <1>10, FS_Difference
<1>12. (1..c) \cap there = there BY DEF there
<1>13. {s \in 1..c : ~Contains(d, s)} = (1..c) \ there BY DEF there
<1>14. QED BY <1>9, <1>10, <1>11, <1>12, <1>13 DEF n

\* The losses that a client reports are the packets it passed over (rt_rcv.c, the report).
THEOREM LossIsAlwaysWhatWasSkipped == RtSpec => []LossIsWhatWasSkipped
<1>1. RtInv /\ OutputRight => LossIsWhatWasSkipped
  <2> SUFFICES ASSUME RtInv, OutputRight, NEW p \in Clients
               PROVE  Lost(p) = Cardinality({s \in 1..C_ack[p] : ~Contains(delivered[p], s)})
    BY DEF LossIsWhatWasSkipped
  <2>1. /\ C_ack[p] \in Nat /\ delivered[p] \in Seq(Nat) /\ OutputOf(p)
        /\ buffersize[p] = Cardinality(TakenSlots(p))
    BY DEF RtInv, CliBasics, OutputRight, RtBufferAgrees, TakenSlots
  <2>2. buffersize[p] \in Nat BY <2>1, TakenSlotsFinite
  <2>3. Cardinality({s \in 1..C_ack[p] : ~Contains(delivered[p], s)})
          = C_ack[p] - Len(delivered[p])
    BY <2>1, LeftOut DEF OutputOf
  <2>4. rcvd_count[p] = buffersize[p] + Len(delivered[p]) /\ Len(delivered[p]) \in Nat
    BY <2>1 DEF OutputOf
  <2>5. Lost(p) = C_ack[p] - Len(delivered[p]) BY <2>1, <2>2, <2>4 DEF Lost
  <2>6. QED BY <2>3, <2>5
<1>2. QED BY <1>1, RealTimeCorrect, OutputAlwaysRight, PTL

\* What the application of the client that is served gets is a stream with gaps: the
\* server and its clients implement GapStream.
THEOREM StreamAlwaysInOrder == RtSpec => ImplementsGapStream
<1> DEFINE out == delivered[current_addr]
<1>1. RtInit => Stream!Init
  <2> SUFFICES ASSUME RtInit PROVE Stream!Init OBVIOUS
  <2>1. seq = 1 /\ current_addr \in Clients /\ delivered = [p \in Clients |-> <<>>]
    BY DEF RtInit, CliInit, SrvInit
  <2>2. QED BY <2>1 DEF Stream!Init
<1>2. RtInv /\ OutputRight /\ [RtNext]_rtVars
        => [Stream!Send \/ Stream!Release]_<<seq - 1, delivered[current_addr]>>
  <2> SUFFICES ASSUME RtInv, OutputRight, [RtNext]_rtVars
               PROVE  [Stream!Send \/ Stream!Release]_<<seq - 1, delivered[current_addr]>>
    OBVIOUS
  <2>1. /\ seq \in Nat /\ seq >= 1 /\ current_addr \in Clients
        /\ delivered \in [Clients -> Seq(Nat)]
        /\ \A p \in Clients : cliPhase[p] = "receiving" => p = current_addr
    BY DEF RtInv, SrvBasics, Admission, ServesOneClient, OutputRight
  <2>2. CASE ServerMoves
    <3>1. delivered' = delivered BY <2>2 DEF ServerMoves, cliVars
    <3>2. CASE seq' = seq /\ current_addr' = current_addr BY <3>1, <3>2
    <3>3. CASE seq' = seq + 1 /\ current_addr' = current_addr
      BY <2>1, <3>1, <3>3 DEF Stream!Send
    <3>4. CASE seq' = seq /\ ~Request
      <4>1. \A p \in Clients : delivered[p] = <<>>
        BY <3>4 DEF RtInv, Admission, OutputRight, OutputOf
      <4>2. current_addr' \in Clients BY RtInvStep DEF RtInv, SrvBasics
      <4>3. QED BY <2>1, <3>1, <3>4, <4>1, <4>2
    <3>5. QED BY <2>2, <3>2, <3>3, <3>4 DEF ServerMoves
  <2>3. ASSUME NEW p \in Clients, UNCHANGED srvVars,
               ClientWaits(p) \/ Deliver(p) \/ \E m \in toCli : RecvWanted(p, m)
        PROVE  [Stream!Send \/ Stream!Release]_<<seq - 1, delivered[current_addr]>>
    <3>1. seq' = seq /\ current_addr' = current_addr BY <2>3 DEF srvVars
    <3>2. CASE delivered' = delivered BY <3>1, <3>2
    <3>3. CASE ClientWaits(p) BY <3>2, <3>3 DEF ClientWaits
    <3>4. CASE \E m \in toCli : RecvWanted(p, m) BY <3>2, <3>4 DEF RecvWanted, Receiving
    <3>5. CASE Deliver(p)
      <4>1. p = current_addr BY <2>1, <3>5 DEF Deliver
      <4>2. CASE Brings(p)
        <5> DEFINE d == delivered[p]
                   e == delivered'[p]
        <5>1. /\ Len(d) \in Nat /\ Len(e) \in Nat /\ Len(d) < Len(e)
              /\ e \in Seq(Nat) /\ Increasing(e)
              /\ \A i \in 1..Len(d) : e[i] = d[i]
              /\ \A i \in (Len(d) + 1)..Len(e) : C_ack[p] < e[i] /\ e[i] < seq
          BY <4>2 DEF Brings
        <5>2. /\ d \in Seq(Nat) /\ C_ack[p] \in Nat
              /\ C_ack[p] = IF d = <<>> THEN 0 ELSE d[Len(d)]
          BY <2>1 DEF OutputRight, OutputOf, RtInv, CliBasics
        <5> HIDE DEF d, e
        <5>3. SubSeq(e, 1, Len(d)) = d
          <6>1. \A i \in 1..Len(d) : e[i] \in Nat BY <5>1, <5>2
          <6>2. /\ SubSeq(e, 1, Len(d)) \in Seq(Nat) /\ Len(SubSeq(e, 1, Len(d))) = Len(d)
                /\ \A i \in 1..Len(d) : SubSeq(e, 1, Len(d))[i] = d[i]
            BY <5>1, <5>2, <6>1
          <6>3. QED BY <5>2, <6>2, SeqEqual
        <5>4. ASSUME NEW i \in (Len(d) + 1)..Len(e)
              PROVE  /\ (IF i = Len(d) + 1 THEN C_ack[p] ELSE e[i - 1]) < e[i]
                     /\ e[i] <= seq - 1
          <6>1. i - 1 \in Int /\ i \in 1..Len(e) /\ (i # Len(d) + 1 => i - 1 \in 1..Len(e))
            BY <5>1
          <6>2. i # Len(d) + 1 => e[i - 1] < e[i]
            <7>1. \A k, l \in 1..Len(e) : k < l => e[k] < e[l] BY <5>1 DEF Increasing
            <7>2. i - 1 < i BY <6>1
            <7> HIDE DEF e
            <7>3. QED BY <6>1, <7>1, <7>2
          <6>3. e[i] \in Nat /\ e[i] < seq /\ C_ack[p] < e[i] BY <5>1, <6>1
          <6>4. e[i] <= seq - 1 BY <2>1, <6>3
          <6>5. QED BY <6>2, <6>3, <6>4
        <5>5. Stream!Release
          <6>1. delivered[current_addr] = d /\ delivered'[current_addr'] = e
            BY <3>1, <4>1 DEF d, e
          <6>2. Stream!Last = C_ack[p] BY <5>2, <6>1 DEF Stream!Last
          <6>3. QED BY <3>1, <5>1, <5>3, <5>4, <6>1, <6>2 DEF Stream!Release
        <5>6. QED BY <5>5
      <4>3. QED BY <3>2, <3>5, <4>2, DeliverBrings
    <3>6. QED BY <2>3, <3>3, <3>4, <3>5
  <2>4. QED BY <2>2, <2>3, StepsForApplications
<1>3. QED
  BY <1>1, <1>2, RealTimeCorrect, OutputAlwaysRight, PTL DEF RtSpec, ImplementsGapStream, Stream!Spec

-----------------------------------------------------------------------------
(* Types *)

\* Datagrams to the clients with a time that a server's clock can show.
StampedMsg ==
    [dst : Clients, type : {DATA, ACKACK, PERMIT, DECLINE, RESENT}, seq : Int, ts : Nat]

RtTyped == RtTypeOK /\ toCli \subseteq StampedMsg

\* A stamped datagram is one.
LEMMA StampedIsTyped == StampedMsg \subseteq ToCliMsg
BY DEF StampedMsg, ToCliMsg

\* What holds of 0 and of the number after each one it holds of, holds up to n.
LEMMA UpTo ==
    ASSUME NEW n \in Nat, NEW S, 0 \in S, \A i \in 1..n : i - 1 \in S => i \in S
    PROVE  \A i \in 0..n : i \in S
<1> DEFINE T == {i \in 0..n : i \notin S}
<1>1. CASE T = {} BY <1>1
<1>2. CASE T # {}
  <2>1. T \in SUBSET Nat OBVIOUS
  <2>2. PICK x \in T : \A y \in T : x <= y BY <1>2, <2>1, LeastExists
  <2>3. x \in 0..n /\ x \notin S OBVIOUS
  <2>4. x # 0 BY <2>3
  <2>5. x \in 1..n /\ x - 1 \in 0..n /\ ~(x <= x - 1) BY <2>3, <2>4
  <2>6. x - 1 \notin T BY <2>2, <2>5
  <2>7. x - 1 \in S BY <2>5, <2>6
  <2>8. QED BY <2>3, <2>5, <2>7
<1>3. QED BY <1>1, <1>2

\* The NACKs in rcv_pkt after place i of nack has been looked at.
AfterPlace(i, nack) ==
    IF Resendable(nack[i]) THEN srvWindow[Slot(nack[i])].nack ELSE nack

\* They are NACKs again.
LEMMA AfterPlaceType ==
    ASSUME srvWindow \in [Slots -> Package], NEW i \in 1..NACK_SIZE, NEW nack \in NackArray
    PROVE  AfterPlace(i, nack) \in NackArray
<1>1. nack[i] \in Int BY DEF NackArray
<1>2. Slot(nack[i]) \in Slots BY <1>1, SlotType
<1>3. srvWindow[Slot(nack[i])].nack \in NackArray BY <1>2 DEF Package
<1>4. QED BY <1>3 DEF AfterPlace

\* The walk over the NACKs of m has a result at every place (the recursion of NacksSeen
\* has a solution), and it is NACKs.
LEMMA NacksSeenType ==
    ASSUME srvWindow \in [Slots -> Package], NEW m, m.nack \in NackArray
    PROVE  \A i \in 0..NACK_SIZE : NacksSeen(m)[i] \in NackArray
<1> DEFINE N == NACK_SIZE
           Walk(n, g) == /\ g \in [0..n -> NackArray] /\ g[0] = m.nack
                         /\ \A i \in 1..n : g[i] = AfterPlace(i, g[i - 1])
           Far == {n \in 0..N : \E g : Walk(n, g)}
           Seen(g) == g = [i \in 0..N |-> IF i = 0 THEN m.nack ELSE AfterPlace(i, g[i - 1])]
<1>1. N \in Nat BY RtConstants
<1>2. 0 \in Far
  <2>1. Walk(0, [i \in 0..0 |-> m.nack]) OBVIOUS
  <2> HIDE DEF Walk
  <2>2. QED BY <1>1, <2>1
<1>3. ASSUME NEW n \in 1..N, n - 1 \in Far PROVE n \in Far
  <2>1. PICK g : Walk(n - 1, g) BY <1>3
  <2> DEFINE h == [i \in 0..n |-> IF i = n THEN AfterPlace(n, g[n - 1]) ELSE g[i]]
  <2>2. n - 1 \in 0..(n - 1) /\ \A i \in 0..n : i # n => i \in 0..(n - 1) BY <1>1
  <2>3. AfterPlace(n, g[n - 1]) \in NackArray BY <1>1, <2>1, <2>2, AfterPlaceType
  <2>4. h \in [0..n -> NackArray] BY <2>1, <2>2, <2>3
  <2>5. h[0] = m.nack BY <1>1, <2>1
  <2>6. ASSUME NEW i \in 1..n PROVE h[i] = AfterPlace(i, h[i - 1])
    <3>1. i - 1 \in 0..n /\ i - 1 # n /\ i \in 0..n BY <1>1
    <3>2. h[i - 1] = g[i - 1] BY <3>1
    <3>3. CASE i = n BY <3>1, <3>2, <3>3
    <3>4. CASE i # n
      <4>1. i \in 1..(n - 1) BY <1>1, <3>4
      <4>2. h[i] = g[i] /\ g[i] = AfterPlace(i, g[i - 1]) BY <2>1, <3>1, <3>4, <4>1
      <4>3. QED BY <3>2, <4>2
    <3>5. QED BY <3>3, <3>4
  <2>7. Walk(n, h) BY <2>4, <2>5, <2>6
  <2>8. n \in 0..N BY <1>1
  <2> HIDE DEF Walk, h
  <2>9. QED BY <2>7, <2>8
<1>4. N \in Far
  <2> HIDE DEF Far
  <2>1. \A i \in 0..N : i \in Far BY <1>1, <1>2, <1>3, UpTo
  <2>2. QED BY <1>1, <2>1
<1>5. PICK g : Walk(N, g) BY <1>4
<1>6. Seen(g)
  <2>1. \A i \in 0..N : g[i] = IF i = 0 THEN m.nack ELSE AfterPlace(i, g[i - 1])
    <3>1. \A i \in 0..N : i # 0 => i \in 1..N BY <1>1
    <3>2. QED BY <1>5, <3>1
  <2>2. g \in [0..N -> NackArray] BY <1>5
  <2>3. QED BY <2>1, <2>2
<1>7. NacksSeen(m) = CHOOSE f : Seen(f) BY DEF NacksSeen, AfterPlace
<1> HIDE DEF Seen
<1>8. Seen(NacksSeen(m)) BY <1>6, <1>7
<1> DEFINE Good == {i \in 0..N : NacksSeen(m)[i] \in NackArray}
<1>9. \A i \in 0..N : NacksSeen(m)[i] =
          IF i = 0 THEN m.nack ELSE AfterPlace(i, NacksSeen(m)[i - 1])
  BY <1>8 DEF Seen
<1>10. 0 \in Good BY <1>1, <1>9
<1>11. ASSUME NEW i \in 1..N, i - 1 \in Good PROVE i \in Good
  <2>1. i \in 0..N /\ i # 0 BY <1>1
  <2>2. AfterPlace(i, NacksSeen(m)[i - 1]) \in NackArray BY <1>11, AfterPlaceType
  <2>3. QED BY <1>9, <2>1, <2>2
<1>12. \A i \in 0..N : i \in Good
  <2> HIDE DEF Good
  <2>1. QED BY <1>1, <1>10, <1>11, UpTo
<1>13. QED BY <1>12

\* The largest integer of the machine.
LEMMA MaxInt == MAX_INT \in Nat /\ MAX_INT >= 1
BY SMT DEF MAX_INT

\* head stays an integer of the machine.
LEMMA SlidType ==
    ASSUME head \in 1..MAX_INT, NEW until, NEW half
    PROVE  Slid(until, half) \in 1..MAX_INT
<1> DEFINE fresh == {s \in head..(head + (WINDOW_SIZE - 1)) : ~Expired(s, until, half)}
<1>1. WINDOW_SIZE \in Nat /\ WINDOW_SIZE > 0 /\ MAX_INT \in Nat BY RtConstants, MaxInt
<1>2. Slid(until, half) =
        IF head > MAX_INT - WINDOW_SIZE THEN head
        ELSE IF fresh = {} THEN MAX_INT - WINDOW_SIZE + 1
        ELSE CHOOSE s \in fresh : \A x \in fresh : s <= x
  BY DEF Slid
<1>3. \A s \in fresh : s \in head..(head + (WINDOW_SIZE - 1)) OBVIOUS
<1> HIDE DEF fresh
<1>4. CASE head > MAX_INT - WINDOW_SIZE BY <1>2, <1>4
<1>5. CASE ~(head > MAX_INT - WINDOW_SIZE) /\ fresh = {}
  <2>1. MAX_INT - WINDOW_SIZE + 1 \in 1..MAX_INT BY <1>1, <1>5
  <2>2. QED BY <1>2, <1>5, <2>1
<1>6. CASE ~(head > MAX_INT - WINDOW_SIZE) /\ fresh # {}
  <2>1. \A s \in fresh : s \in 1..MAX_INT BY <1>1, <1>3, <1>6
  <2>2. fresh \in SUBSET Nat BY <2>1
  <2>3. \E s \in fresh : \A x \in fresh : s <= x BY <1>6, <2>2, LeastExists
  <2>4. QED BY <1>2, <1>6, <2>1, <2>3
<1>7. QED BY <1>4, <1>5, <1>6

\* What is sent to the clients are datagrams to them.
LEMMA SentTyped ==
    ASSUME RtTyped, NEW burst, SentToCli(burst), burst \subseteq StampedMsg
    PROVE  toCli' \subseteq StampedMsg
<1>1. \A m \in toCli' : m \in toCli \/ m \in burst BY CarriedOnly DEF SentToCli
<1>2. QED BY <1>1 DEF RtTyped

\* The type of a datagram to a client.
LEMMA ToCliType ==
    ASSUME NEW q \in Clients, NEW t \in {DATA, ACKACK, PERMIT, DECLINE, RESENT},
           NEW n \in Int, NEW time \in Nat
    PROVE  ToCli(q, t, n, time) \in StampedMsg
BY DEF ToCli, StampedMsg

\* A step of the server that sends datagrams to clients keeps all types, if its own
\* variables keep theirs.
LEMMA SrvTyped ==
    ASSUME RtTyped, UNCHANGED <<now, cliVars>>, toSrv' \subseteq toSrv,
           toCli' \subseteq StampedMsg, SrvTypeOK'
    PROVE  RtTyped'
<1>1. /\ UNCHANGED <<cliPhase, C_ack, buffer, buffersize, cliWindow>>
      /\ UNCHANGED <<Base_Delta, rcvd_count, cliReport, atTop, delivered>>
  BY DEF cliVars
<1>2. CliTypeOK' BY <1>1 DEF RtTyped, RtTypeOK, CliTypeOK
<1>3. RtNetTypeOK' BY StampedIsTyped DEF RtTyped, RtTypeOK, RtNetTypeOK
<1>4. QED BY <1>2, <1>3 DEF RtTyped, RtTypeOK

\* The server's steps keep the types.
LEMMA SrvKeepsTypes ==
    ASSUME RtTyped, SrvNext, UNCHANGED cliVars
    PROVE  RtTyped'
<1>1. /\ SrvTypeOK /\ now \in Nat /\ toCli \subseteq StampedMsg /\ toSrv \subseteq ToSrvMsg
  BY DEF RtTyped, RtTypeOK, RtNetTypeOK
<1>2. \A m \in toSrv : m.src \in Clients /\ m.nack \in NackArray /\ m.half \in Nat
  BY <1>1 DEF ToSrvMsg
<1>3. UNCHANGED cliVars OBVIOUS
<1>4. EndTurn => head' \in 1..MAX_INT /\ midTurn' \in BOOLEAN
  <2>1. head \in 1..MAX_INT BY <1>1 DEF SrvTypeOK
  <2>2. QED BY <2>1, SlidType DEF EndTurn
<1>5. ASSUME NEW m \in toSrv, Permit(m) PROVE RtTyped'
  <2>1. ToCli(m.src, PERMIT, 0, now) \in StampedMsg BY <1>1, <1>2, ToCliType
  <2>2. toCli' \subseteq StampedMsg BY <1>5, <2>1, SentTyped DEF Permit
  <2>3. SrvTypeOK' BY <1>1, <1>2, <1>5 DEF Permit, SrvTypeOK
  <2>4. toSrv' \subseteq toSrv /\ UNCHANGED now BY <1>5, ConsumedLeaves DEF Permit
  <2>5. QED BY <1>3, <2>2, <2>3, <2>4, SrvTyped
<1>6. ASSUME NEW m \in toSrv, RecvAck(m) PROVE RtTyped'
  <2>1. \A i \in 0..NACK_SIZE : NacksSeen(m)[i] \in NackArray
    BY <1>1, <1>2, NacksSeenType DEF SrvTypeOK
  <2>2. NACK_SIZE \in 0..NACK_SIZE /\ \A i \in 1..NACK_SIZE : i - 1 \in 0..NACK_SIZE
    BY RtConstants
  <2>3. Answer(m) \subseteq StampedMsg
    <3> DEFINE asked == {NacksSeen(m)[i - 1][i] : i \in 1..NACK_SIZE}
               kept == {srvWindow[Slot(s)] : s \in {s \in asked : Resendable(s)}}
    <3>1. \A s \in asked : s \in Int BY <2>1, <2>2 DEF NackArray
    <3>2. \A k \in kept : \E s \in asked : k = srvWindow[Slot(s)] OBVIOUS
    <3>3. \A k \in kept : k \in Package BY <1>1, <3>1, <3>2, SlotType DEF SrvTypeOK
    <3>4. Answer(m) = {ToCli(m.src, ACKACK, 0, now)}
                        \cup {ToCli(m.src, RESENT, k.seq, k.ts) : k \in kept}
      BY DEF Answer
    <3> HIDE DEF asked, kept
    <3>5. ToCli(m.src, ACKACK, 0, now) \in StampedMsg BY <1>1, <1>2, ToCliType
    <3>6. ASSUME NEW k \in kept PROVE ToCli(m.src, RESENT, k.seq, k.ts) \in StampedMsg
      <4>1. k.seq \in Int /\ k.ts \in Nat BY <3>3 DEF Package
      <4>2. QED BY <1>2, <4>1, ToCliType
    <3>7. QED BY <3>4, <3>5, <3>6
  <2>4. toCli' \subseteq StampedMsg BY <1>6, <2>3, SentTyped DEF RecvAck
  <2>5. NacksSeen(m)[NACK_SIZE] \in NackArray BY <2>1, <2>2
  <2>6. SrvTypeOK' BY <1>1, <1>2, <1>4, <1>6, <2>5 DEF RecvAck, SrvTypeOK
  <2>7. toSrv' \subseteq toSrv /\ UNCHANGED now BY <1>6, ConsumedLeaves DEF RecvAck
  <2>8. QED BY <1>3, <2>4, <2>6, <2>7, SrvTyped
<1>7. ASSUME NEW m \in toSrv, RecvRequest(m) PROVE RtTyped'
  <2>1. ToCli(m.src, DECLINE, 0, now) \in StampedMsg BY <1>1, <1>2, ToCliType
  <2>2. toCli' \subseteq StampedMsg
    <3> DEFINE burst == IF m.src # current_addr THEN {ToCli(m.src, DECLINE, 0, now)} ELSE {}
    <3>1. burst \subseteq StampedMsg BY <2>1
    <3>2. SentToCli(burst) BY <1>7 DEF RecvRequest
    <3> HIDE DEF burst
    <3>3. QED BY <3>1, <3>2, SentTyped
  <2>3. SrvTypeOK' BY <1>1, <1>2, <1>4, <1>7 DEF RecvRequest, SrvTypeOK
  <2>4. toSrv' \subseteq toSrv /\ UNCHANGED now BY <1>7, ConsumedLeaves DEF RecvRequest
  <2>5. QED BY <1>3, <2>2, <2>3, <2>4, SrvTyped
<1>8. CASE SrvReport
  <2>1. SrvTypeOK' BY <1>1, <1>4, <1>8, RtConstants DEF SrvReport, SrvTypeOK
  <2>2. UNCHANGED <<toCli, toSrv, now>> BY <1>8 DEF SrvReport, rtNetVars
  <2>3. QED BY <1>1, <1>3, <2>1, <2>2, SrvTyped
<1>9. CASE App
  <2>1. /\ seq \in Nat /\ rcv_addr \in Clients /\ srvNack \in NackArray
        /\ slide \in [Slots -> Nat] /\ srvWindow \in [Slots -> Package]
    BY <1>1 DEF SrvTypeOK
  <2>2. ToCli(rcv_addr, DATA, seq, now) \in StampedMsg BY <1>1, <2>1, ToCliType
  <2>3. toCli' \subseteq StampedMsg BY <1>9, <2>2, SentTyped DEF App
  <2>4. srvNack' \in NackArray
    <3>1. PICK spill \in [1..2 -> Stale] : srvNack' = Spilled(srvNack, spill) BY <1>9 DEF App
    <3>2. \A i \in 1..2 : spill[i] \in Int BY RtNetAssumption
    <3>3. \A i \in 1..NACK_SIZE : i <= 2 => i \in 1..2 BY RtConstants
    <3>4. QED BY <2>1, <3>1, <3>2, <3>3 DEF Spilled, NackArray
  <2>5. srvWindow' \in [Slots -> Package]
    <3>1. [seq |-> seq, ts |-> now, nack |-> srvNack'] \in Package
      BY <1>1, <2>1, <2>4 DEF Package
    <3>2. QED BY <1>9, <2>1, <3>1 DEF App
  <2>6. slide' \in [Slots -> Nat]
    <3>1. now + Latency \in Nat BY <1>1, RtNetAssumption
    <3>2. QED BY <1>9, <2>1, <3>1 DEF App
  <2>7. head' \in 1..MAX_INT /\ midTurn' \in BOOLEAN BY <1>1, <1>4, <1>9 DEF App, SrvTypeOK
  <2>8. srvReport' \in Nat BY <1>1, <1>9, RtConstants DEF App, SrvTypeOK
  <2>9. seq' \in Nat BY <1>9, <2>1 DEF App
  <2>10. UNCHANGED <<Request, current_addr, rcv_addr, Halfrtt>> BY <1>9 DEF App
  <2>11. SrvTypeOK'
    BY <1>1, <2>4, <2>5, <2>6, <2>7, <2>8, <2>9, <2>10 DEF SrvTypeOK
  <2>12. UNCHANGED <<toSrv, now>> BY <1>9 DEF App
  <2>13. QED BY <1>3, <2>3, <2>11, <2>12, SrvTyped
<1>10. QED BY <1>5, <1>6, <1>7, <1>8, <1>9 DEF SrvNext, SrvRecv

\* Some slots are finitely many.
LEMMA SlotsFinite ==
    ASSUME NEW S \in SUBSET Slots
    PROVE  Cardinality(S) \in Nat
<1>1. IsFiniteSet(Slots) BY FS_Interval, RtConstants DEF Slots
<1>2. IsFiniteSet(S) BY <1>1, FS_Subset
<1>3. QED BY <1>2, FS_CardinalityType

\* What the invariant says of the clients' types.
LEMMA InvTypes ==
    ASSUME RtInv, OutputRight
    PROVE  /\ C_ack \in [Clients -> Nat] /\ buffer \in [Clients -> [Slots -> BOOLEAN]]
           /\ rcvd_count \in [Clients -> Nat] /\ cliReport \in [Clients -> Nat \cup {Unset}]
           /\ delivered \in [Clients -> Seq(Nat)]
           /\ \A p \in Clients : buffersize[p] \in Nat
<1>1. \A p \in Clients : buffersize[p] = Cardinality(TakenSlots(p))
  BY DEF RtInv, RtBufferAgrees, TakenSlots
<1>2. QED BY <1>1, TakenSlotsFinite DEF RtInv, CliBasics, OutputRight

\* An ACK asks for numbers.
LEMMA MissingType ==
    ASSUME NEW p, C_ack[p] \in Nat, NEW s \in Int
    PROVE  Missing(p, s) \in NackArray
<1> DEFINE gaps == {x \in (C_ack[p] + 1)..(s - 1) : ~buffer[p][Slot(x)]}
           Place(x) == Cardinality({y \in gaps : y <= x})
           At(i) == IF \E x \in gaps : Place(x) = i
                    THEN CHOOSE x \in gaps : Place(x) = i ELSE -1
<1>1. Missing(p, s) = [i \in 1..NACK_SIZE |-> At(i)] BY DEF Missing
<1>2. \A x \in gaps : x \in Int OBVIOUS
<1> HIDE DEF gaps, Place
<1>3. \A i \in 1..NACK_SIZE : At(i) \in Int
  <2>1. ASSUME NEW i \in 1..NACK_SIZE PROVE At(i) \in Int
    <3>1. CASE \E x \in gaps : Place(x) = i
      <4>1. At(i) \in gaps BY <3>1
      <4>2. QED BY <1>2, <4>1
    <3>2. CASE ~\E x \in gaps : Place(x) = i BY <3>2
    <3>3. QED BY <3>1, <3>2
  <2>2. QED BY <2>1
<1> HIDE DEF At
<1>4. QED BY <1>1, <1>3 DEF NackArray

\* What is sent to the server are datagrams to it.
LEMMA SentToSrvTyped ==
    ASSUME RtTyped, NEW m \in ToSrvMsg, SentToSrv({m})
    PROVE  toSrv' \subseteq ToSrvMsg
<1>1. \A x \in toSrv' : x \in toSrv \/ x = m BY CarriedOnly DEF SentToSrv
<1>2. QED BY <1>1 DEF RtTyped, RtTypeOK, RtNetTypeOK

\* A step of a client keeps all types, if those of what the invariant leaves out are kept.
LEMMA CliTyped ==
    ASSUME RtTyped, RtInv', OutputRight', UNCHANGED <<now, srvVars>>,
           toCli' \subseteq toCli, toSrv' \subseteq ToSrvMsg,
           cliPhase' \in [Clients -> {"requesting", "receiving", "exited"}],
           DOMAIN buffersize' = Clients /\ buffersize' = [p \in Clients |-> buffersize'[p]],
           cliWindow' \in [Clients -> [Slots -> [seq : Nat, ts : Nat]]],
           Base_Delta' \in [Clients -> Nat],
           atTop' \in [Clients -> BOOLEAN]
    PROVE  RtTyped'
<1>1. /\ C_ack' \in [Clients -> Nat] /\ buffer' \in [Clients -> [Slots -> BOOLEAN]]
      /\ rcvd_count' \in [Clients -> Nat] /\ cliReport' \in [Clients -> Nat \cup {Unset}]
      /\ delivered' \in [Clients -> Seq(Nat)]
      /\ \A p \in Clients : buffersize'[p] \in Nat
  <2>1. ASSUME NEW p \in Clients PROVE buffersize'[p] \in Nat
    <3> DEFINE slots == {s \in Slots : buffer'[p][s]}
    <3>1. buffersize'[p] = Cardinality(slots) BY DEF RtInv, RtBufferAgrees
    <3>2. slots \in SUBSET Slots OBVIOUS
    <3> HIDE DEF slots
    <3>3. QED BY <3>1, <3>2, SlotsFinite
  <2>2. QED BY <2>1 DEF RtInv, CliBasics, OutputRight
<1>2. buffersize' \in [Clients -> Nat] BY <1>1
<1>3. CliTypeOK' BY <1>1, <1>2 DEF CliTypeOK
<1>4. SrvTypeOK'
  <2>1. /\ UNCHANGED <<Request, current_addr, rcv_addr, seq, head, slide>>
        /\ UNCHANGED <<srvWindow, srvNack, Halfrtt, srvReport, midTurn>>
    BY DEF srvVars
  <2>2. QED BY <2>1 DEF RtTyped, RtTypeOK, SrvTypeOK
<1>5. now \in Nat /\ toCli \subseteq StampedMsg BY DEF RtTyped, RtTypeOK, RtNetTypeOK
<1>6. RtNetTypeOK' /\ toCli' \subseteq StampedMsg BY <1>5, StampedIsTyped DEF RtNetTypeOK
<1>7. QED BY <1>3, <1>4, <1>6 DEF RtTyped, RtTypeOK

\* The clients' steps keep the types.
LEMMA CliKeepsTypes ==
    ASSUME RtTyped, RtInv', OutputRight', RtInv, NEW p \in Clients, CliNext(p),
           UNCHANGED srvVars
    PROVE  RtTyped'
<1>1. /\ cliPhase \in [Clients -> {"requesting", "receiving", "exited"}]
      /\ buffersize \in [Clients -> Nat]
      /\ cliWindow \in [Clients -> [Slots -> [seq : Nat, ts : Nat]]]
      /\ Base_Delta \in [Clients -> Nat] /\ atTop \in [Clients -> BOOLEAN]
      /\ C_ack \in [Clients -> Nat]
      /\ toSrv \subseteq ToSrvMsg /\ toCli \subseteq StampedMsg
  BY DEF RtTyped, RtTypeOK, CliTypeOK, RtNetTypeOK
<1>2. \A m : ReadFrom(m) => toCli' \subseteq toCli BY ReadLeaves
<1>3. Estimated(p) => Base_Delta' \in [Clients -> Nat]
  <2>1. \A d \in Estimates : d \in Nat BY RtNetAssumption, RtConstants
  <2>2. QED BY <1>1, <2>1 DEF Estimated
<1>4. NextTurn(p) => atTop' \in [Clients -> BOOLEAN] BY <1>1 DEF NextTurn
<1>5. UNCHANGED buffersize =>
        DOMAIN buffersize' = Clients /\ buffersize' = [q \in Clients |-> buffersize'[q]]
  BY <1>1
<1>6. CASE SendRequest(p)
  <2>1. PICK nack \in [1..NACK_SIZE -> Stale] :
          SentToSrv({[src |-> p, type |-> REQUEST, nack |-> nack, half |-> 0]})
    BY <1>6 DEF SendRequest
  <2>2. nack \in NackArray BY RtNetAssumption DEF NackArray
  <2>3. [src |-> p, type |-> REQUEST, nack |-> nack, half |-> 0] \in ToSrvMsg
    BY <2>2 DEF ToSrvMsg
  <2>4. toSrv' \subseteq ToSrvMsg BY <2>1, <2>3, SentToSrvTyped
  <2>5. UNCHANGED <<toCli, now, cliPhase, buffersize, cliWindow, Base_Delta, atTop>>
    BY <1>6 DEF SendRequest, cliVars
  <2>6. QED BY <1>1, <1>5, <2>4, <2>5, CliTyped
<1>7. ASSUME NEW m \in toCli, Permitted(p, m) \/ Declined(p, m) \/ TooEarly(p, m)
      PROVE  RtTyped'
  <2>1. /\ toCli' \subseteq toCli
        /\ UNCHANGED <<toSrv, now, buffersize, cliWindow>>
        /\ cliPhase' \in [Clients -> {"requesting", "receiving", "exited"}]
        /\ Base_Delta' \in [Clients -> Nat] /\ atTop' \in [Clients -> BOOLEAN]
    <3>1. CASE Permitted(p, m) BY <1>1, <1>2, <1>3, <1>4, <3>1 DEF Permitted
    <3>2. CASE Declined(p, m) BY <1>1, <1>2, <3>2 DEF Declined
    <3>3. CASE TooEarly(p, m) BY <1>1, <1>2, <3>3 DEF TooEarly, cliVars
    <3>4. QED BY <1>7, <3>1, <3>2, <3>3
  <2>2. QED BY <1>1, <1>5, <2>1, CliTyped
<1>8. ASSUME NEW m \in toCli, RecvUnwanted(p, m) \/ RecvAckAck(p, m) \/ RecvOther(p, m)
      PROVE  RtTyped'
  <2>1. /\ UNCHANGED <<toSrv, now, buffersize, cliWindow, cliPhase>>
        /\ Base_Delta' \in [Clients -> Nat] /\ Receiving(p, m)
    BY <1>1, <1>3, <1>8 DEF RecvUnwanted, RecvAckAck, RecvOther, Receiving
  <2>2. toCli' \subseteq toCli /\ atTop' \in [Clients -> BOOLEAN]
    BY <1>2, <1>4, <2>1 DEF Receiving
  <2>3. QED BY <1>1, <1>5, <2>1, <2>2, CliTyped
<1>9. ASSUME NEW m \in toCli, RecvWanted(p, m) PROVE RtTyped'
  <2>1. m.seq \in Int /\ m.ts \in Nat BY <1>1 DEF StampedMsg
  <2>2. m.seq \in Nat
    <3>1. C_ack[p] < m.seq /\ C_ack[p] \in Nat BY <1>1, <1>9 DEF RecvWanted, Wanted, InWindow
    <3>2. QED BY <2>1, <3>1
  <2>3. Receiving(p, m) /\ Estimated(p) BY <1>9 DEF RecvWanted
  <2>4. /\ toCli' \subseteq toCli /\ UNCHANGED <<now, cliPhase>>
        /\ Base_Delta' \in [Clients -> Nat] /\ atTop' \in [Clients -> BOOLEAN]
    BY <1>2, <1>3, <1>4, <2>3 DEF Receiving
  <2>5. cliWindow' \in [Clients -> [Slots -> [seq : Nat, ts : Nat]]]
    <3>1. [seq |-> m.seq, ts |-> m.ts] \in [seq : Nat, ts : Nat] /\ Slot(m.seq) \in Slots
      BY <2>1, <2>2, SlotType
    <3>2. cliWindow' = [cliWindow EXCEPT ![p][Slot(m.seq)] = [seq |-> m.seq, ts |-> m.ts]]
      BY <1>9 DEF RecvWanted
    <3>3. QED BY <1>1, <3>1, <3>2
  <2>6. PICK half \in Estimates :
          SentToSrv({[src |-> p, type |-> ACK, nack |-> Missing(p, m.seq), half |-> half]})
    BY <1>9 DEF RecvWanted
  <2>7. [src |-> p, type |-> ACK, nack |-> Missing(p, m.seq), half |-> half] \in ToSrvMsg
    <3>1. Missing(p, m.seq) \in NackArray BY <1>1, <2>1, MissingType
    <3>2. half \in Nat BY RtNetAssumption
    <3>3. QED BY <3>1, <3>2 DEF ToSrvMsg
  <2>8. toSrv' \subseteq ToSrvMsg BY <2>6, <2>7, SentToSrvTyped
  <2>9. DOMAIN buffersize' = Clients /\ buffersize' = [q \in Clients |-> buffersize'[q]]
    BY <1>1, <1>9 DEF RecvWanted
  <2>10. cliPhase' \in [Clients -> {"requesting", "receiving", "exited"}] BY <1>1, <2>4
  <2>11. QED BY <2>4, <2>5, <2>8, <2>9, <2>10, CliTyped
<1>10. CASE Deliver(p)
  <2>1. UNCHANGED <<toCli, toSrv, now, cliPhase, cliWindow, Base_Delta>>
    BY <1>10 DEF Deliver, rtNetVars
  <2>2. DOMAIN buffersize' = Clients /\ buffersize' = [q \in Clients |-> buffersize'[q]]
    BY <1>1, <1>10 DEF Deliver
  <2>3. atTop' \in [Clients -> BOOLEAN] BY <1>1, <1>10 DEF Deliver
  <2>4. QED BY <1>1, <2>1, <2>2, <2>3, CliTyped
<1>11. CASE CliReport(p)
  <2>1. UNCHANGED <<toCli, toSrv, now, cliPhase, buffersize, cliWindow, Base_Delta>>
    BY <1>11 DEF CliReport, rtNetVars
  <2>2. atTop' \in [Clients -> BOOLEAN] BY <1>4, <1>11 DEF CliReport
  <2>3. QED BY <1>1, <1>5, <2>1, <2>2, CliTyped
<1>12. QED BY <1>6, <1>7, <1>8, <1>9, <1>10, <1>11 DEF CliNext, CliRecv

\* Both ends keep the types of what they hold, the NACKs of stale datagrams included.
THEOREM RtTypeCorrect == RtSpec => []RtTypeOK
<1>1. RtInit => RtTyped
  <2> SUFFICES ASSUME RtInit PROVE RtTyped OBVIOUS
  <2>1. RtNetInit /\ SrvInit /\ CliInit BY DEF RtInit
  <2>2. RtNetTypeOK /\ toCli \subseteq StampedMsg
    BY <2>1, RtConstants DEF RtNetInit, RtNetTypeOK
  <2>3. SrvTypeOK
    <3>1. NoNack \in NackArray /\ [i \in 1..NACK_SIZE |-> 0] \in NackArray
      BY DEF NoNack, NackArray
    <3>2. [seq |-> 0, ts |-> 0, nack |-> [i \in 1..NACK_SIZE |-> 0]] \in Package
      BY <3>1 DEF Package
    <3>3. 1 \in 1..MAX_INT BY MaxInt
    <3>4. /\ Request = FALSE /\ current_addr \in Clients /\ rcv_addr = current_addr
          /\ seq = 1 /\ head = 1 /\ slide = [s \in Slots |-> 0]
          /\ srvWindow = [s \in Slots |-> [seq |-> 0, ts |-> 0, nack |-> [i \in 1..NACK_SIZE |-> 0]]]
          /\ srvNack = NoNack /\ Halfrtt = DefaultHalf /\ srvReport = 0 /\ midTurn = FALSE
      BY <2>1 DEF SrvInit
    <3>5. srvWindow \in [Slots -> Package] BY <3>2, <3>4
    <3>6. slide \in [Slots -> Nat] BY <3>4
    <3>7. QED BY <3>1, <3>3, <3>4, <3>5, <3>6, SrvAssumption DEF SrvTypeOK
  <2>4. CliTypeOK
    <3>1. /\ cliPhase = [p \in Clients |-> "requesting"]
          /\ Base_Delta = [p \in Clients |-> 0] /\ atTop = [p \in Clients |-> FALSE]
          /\ buffersize = [p \in Clients |-> 0]
          /\ cliWindow = [p \in Clients |-> [s \in Slots |-> [seq |-> 0, ts |-> 0]]]
      BY <2>1 DEF CliInit
    <3>2. buffersize \in [Clients -> Nat] /\ Base_Delta \in [Clients -> Nat] BY <3>1
    <3>3. cliWindow \in [Clients -> [Slots -> [seq : Nat, ts : Nat]]] BY <3>1
    <3>4. /\ cliPhase \in [Clients -> {"requesting", "receiving", "exited"}]
          /\ atTop \in [Clients -> BOOLEAN]
      BY <3>1
    <3>5. RtInv /\ OutputRight BY RtInvInit, OutputInit
    <3>6. QED BY <3>2, <3>3, <3>4, <3>5, InvTypes DEF CliTypeOK
  <2>5. QED BY <2>2, <2>3, <2>4 DEF RtTyped, RtTypeOK
<1>2. RtTyped /\ RtInv /\ RtInv' /\ OutputRight' /\ [RtNext]_rtVars => RtTyped'
  <2> SUFFICES ASSUME RtTyped, RtInv, RtInv', OutputRight', [RtNext]_rtVars PROVE RtTyped'
    OBVIOUS
  <2>1. /\ SrvTypeOK /\ CliTypeOK /\ now \in Nat /\ toSrv \subseteq ToSrvMsg
        /\ toCli \subseteq StampedMsg
    BY DEF RtTyped, RtTypeOK, RtNetTypeOK
  <2>2. ASSUME UNCHANGED <<srvVars, cliVars>>, toCli' \subseteq toCli, UNCHANGED toSrv,
               now' \in Nat
        PROVE  RtTyped'
    <3>1. /\ UNCHANGED <<Request, current_addr, rcv_addr, seq, head, slide>>
          /\ UNCHANGED <<srvWindow, srvNack, Halfrtt, srvReport, midTurn>>
      BY <2>2 DEF srvVars
    <3>2. /\ UNCHANGED <<cliPhase, C_ack, buffer, buffersize, cliWindow>>
          /\ UNCHANGED <<Base_Delta, rcvd_count, cliReport, atTop, delivered>>
      BY <2>2 DEF cliVars
    <3>3. SrvTypeOK' BY <2>1, <3>1 DEF SrvTypeOK
    <3>4. CliTypeOK' BY <2>1, <3>2 DEF CliTypeOK
    <3>5. RtNetTypeOK' /\ toCli' \subseteq StampedMsg
      BY <2>1, <2>2, StampedIsTyped DEF RtNetTypeOK
    <3>6. QED BY <3>3, <3>4, <3>5 DEF RtTyped, RtTypeOK
  <2>3. CASE SrvNext /\ UNCHANGED cliVars BY <2>3, SrvKeepsTypes
  <2>4. ASSUME NEW p \in Clients, CliNext(p), UNCHANGED srvVars PROVE RtTyped'
    BY <2>4, CliKeepsTypes
  <2>5. CASE CliPortClosed BY <2>1, <2>2, <2>5 DEF CliPortClosed
  <2>6. CASE Tick /\ UNCHANGED <<srvVars, cliVars>> BY <2>1, <2>2, <2>6 DEF Tick
  <2>7. CASE UNCHANGED rtVars BY <2>1, <2>2, <2>7 DEF rtVars, rtNetVars
  <2>8. QED BY <2>3, <2>4, <2>5, <2>6, <2>7 DEF RtNext
<1>3. RtTyped => RtTypeOK BY DEF RtTyped
<1>4. QED BY <1>1, <1>2, <1>3, RealTimeCorrect, OutputAlwaysRight, PTL DEF RtSpec
=============================================================================
