------------------------ MODULE FileTransferProofs ------------------------
(***************************************************************************)
(* Theorems about FileTransfer for every value of its constants.  For any    *)
(* number of senders: its types, and that a session opens the file its       *)
(* sender named.  Up to the first acknowledgement that goes astray:          *)
(* SessionInv is inductive, whatever the number of senders, the window size,  *)
(* the files and the number of datagrams under way, and on it rests what is  *)
(* said of the windows and of the buffers: full packets reach the file of     *)
(* their session.  With a sender alone no acknowledgement goes astray.        *)
(***************************************************************************)
EXTENDS StrayAcks, SequenceTheorems, FunctionTheorems, FiniteSetTheorems,
        WellFoundedInduction, TLAPS

-----------------------------------------------------------------------------
(* The buffers: what the operators of MessBuf return *)

\* A non-empty set of naturals has a least element.
LEMMA LeastNat ==
    ASSUME NEW T, T \subseteq Nat, T # {}
    PROVE  \E x \in T : \A y \in T : x <= y
<1>1. PICK x \in T : \A y \in T : ~(<<y, x>> \in OpToRel(<, Nat))
  BY WFMin, NatLessThanWellFounded
<1>2. ASSUME NEW y \in T PROVE ~(y < x)
  <2>1. <<y, x>> \in Nat \X Nat /\ <<y, x>>[1] = y /\ <<y, x>>[2] = x OBVIOUS
  <2>2. <<y, x>> \notin OpToRel(<, Nat) BY <1>1
  <2>3. QED BY <2>1, <2>2 DEF OpToRel
<1>3. QED BY <1>2

\* There is room for a read and the NUL behind it.
LEMMA BufLen == BUF_LEN \in Nat /\ BUF_LEN = DATA_LEN + 1 /\ DATA_LEN \in Nat /\ DATA_LEN >= 1
BY BufAssumption DEF BUF_LEN

\* A datagram's data is a sequence of at most BUF_LEN bytes.
LEMMA PayloadType ==
    ASSUME NEW d \in Payload
    PROVE  /\ d \in Seq(Cell)
           /\ Len(d) \in 0..BUF_LEN
           /\ \A i \in 1..Len(d) : d[i] \in Cell
<1>1. PICK n \in 0..BUF_LEN : d \in [1..n -> Cell]
  BY DEF Payload
<1>2. n \in Nat BY BufLen
<1>3. d \in Seq(Cell) /\ Len(d) = n BY <1>1, <1>2
<1>4. QED BY <1>1, <1>3

\* What has at most BUF_LEN elements, all of them bytes, is a datagram's data.
LEMMA PayloadIntro ==
    ASSUME NEW n \in 0..BUF_LEN, NEW d \in [1..n -> Cell]
    PROVE  d \in Payload
BY DEF Payload

\* A whole buffer may be sent.
LEMMA BufIsPayload ==
    ASSUME NEW buf \in Buf
    PROVE  buf \in Payload /\ Len(buf) = BUF_LEN
BY BufLen DEF Payload, Buf

\* Receiving into a buffer gives a buffer.
LEMMA OverlayType ==
    ASSUME NEW buf \in Buf, NEW d \in Payload
    PROVE  Overlay(buf, d) \in Buf
<1>1. \A i \in 1..BUF_LEN : i <= Len(d) => d[i] \in Cell
  BY PayloadType, BufLen
<1>2. \A i \in 1..BUF_LEN : (IF i <= Len(d) THEN d[i] ELSE buf[i]) \in Cell
  BY <1>1 DEF Buf
<1>3. QED BY <1>2 DEF Overlay, Buf

\* bzero leaves a buffer a buffer.
LEMMA BzeroType ==
    ASSUME NEW buf \in Buf
    PROVE  Bzero(buf) \in Buf
BY DEF Bzero, Buf, Cell

\* strlen stops inside the buffer, at its first NUL.
LEMMA StrLenType ==
    ASSUME NEW buf \in Buf
    PROVE  /\ StrLen(buf) \in 0..BUF_LEN
           /\ \A i \in 1..StrLen(buf) : buf[i] # NUL
           /\ StrLen(buf) < BUF_LEN => buf[StrLen(buf) + 1] = NUL
<1> DEFINE Stop(n) == /\ \A i \in 1..n : buf[i] # NUL
                      /\ n < BUF_LEN => buf[n + 1] = NUL
           Nuls == {n \in 0..(BUF_LEN - 1) : buf[n + 1] = NUL}
<1>1. \E n \in 0..BUF_LEN : Stop(n)
  <2>1. CASE Nuls = {}
    <3>1. Stop(BUF_LEN)
      <4>1. ASSUME NEW i \in 1..BUF_LEN PROVE buf[i] # NUL
        <5>1. i - 1 \in 0..(BUF_LEN - 1) /\ (i - 1) + 1 = i BY BufLen
        <5>2. i - 1 \notin Nuls BY <2>1
        <5>3. QED BY <5>1, <5>2
      <4>2. QED BY <4>1, BufLen
    <3>2. QED BY <3>1, BufLen
  <2>2. CASE Nuls # {}
    <3>1. Nuls \subseteq Nat BY BufLen
    <3>2. PICK n \in Nuls : \A y \in Nuls : n <= y BY <2>2, <3>1, LeastNat
    <3>3. \A i \in 1..n : buf[i] # NUL
      <4>1. SUFFICES ASSUME NEW i \in 1..n, buf[i] = NUL PROVE FALSE OBVIOUS
      <4>2. i - 1 \in Nuls /\ i - 1 < n BY <4>1, BufLen
      <4>3. QED BY <4>2, <3>2, BufLen
    <3>4. QED BY <3>3, BufLen
  <2>3. QED BY <2>1, <2>2
<1>2. StrLen(buf) \in 0..BUF_LEN /\ Stop(StrLen(buf))
  <2> HIDE DEF Stop
  <2>1. StrLen(buf) = CHOOSE n \in 0..BUF_LEN : Stop(n) BY DEF StrLen, Stop
  <2>2. QED BY <1>1, <2>1
<1>3. QED BY <1>2

\* The string in a buffer may be sent, and has no NUL in it.
LEMMA StrType ==
    ASSUME NEW buf \in Buf
    PROVE  /\ Str(buf) \in Payload
           /\ Len(Str(buf)) = StrLen(buf)
<1>1. \A i \in 1..StrLen(buf) : buf[i] \in Cell BY StrLenType, BufLen DEF Buf
<1>2. Str(buf) \in [1..StrLen(buf) -> Cell] BY <1>1 DEF Str
<1>3. QED BY <1>2, StrLenType, BufLen, PayloadIntro

USE BufAssumption, NetAssumption

-----------------------------------------------------------------------------
(* The network *)

\* What is in flight after a burst was in flight before or is in the burst.
LEMMA SentToRcvType ==
    ASSUME NEW burst, SentToRcv(burst)
    PROVE  toRcv' \subseteq toRcv \cup burst
BY DEF SentToRcv, Carried

\* The same towards the senders.
LEMMA SentToNcpType ==
    ASSUME NEW burst, SentToNcp(burst)
    PROVE  toNcp' \subseteq toNcp \cup burst
BY DEF SentToNcp, Carried

\* A delivery adds nothing to what is in flight.
LEMMA ConsumedType ==
    ASSUME NEW net, NEW m, NEW n \in Consumed(net, m)
    PROVE  n \subseteq net
BY DEF Consumed

-----------------------------------------------------------------------------
(* What the sender puts into its buffer and sends *)

\* Slot maps every sequence number to a slot.
LEMMA SlotType ==
    ASSUME NEW s \in Int
    PROVE  Slot(s) \in Slots
BY DEF Slot, Slots

\* A set of integers with an upper bound has a greatest element.
LEMMA GreatestInt ==
    ASSUME NEW b \in Int, NEW T, T # {}, \A t \in T : t \in Int /\ t <= b
    PROVE  \E x \in T : \A y \in T : y <= x
<1> DEFINE U == {b - t : t \in T}
<1>1. U \subseteq Nat /\ U # {} OBVIOUS
<1>2. PICK u \in U : \A y \in U : u <= y BY <1>1, LeastNat
<1>3. PICK x \in T : u = b - x OBVIOUS
<1>4. ASSUME NEW y \in T PROVE y <= x
  <2>1. b - y \in U OBVIOUS
  <2>2. QED BY <1>2, <1>3, <2>1
<1>5. QED BY <1>4

\* A read returns at most DATA_LEN bytes.
LEMMA ReadType ==
    ASSUME NEW p \in Senders, NEW n \in Int
    PROVE  /\ Read(p, n) \in Payload
           /\ Len(Read(p, n)) \in 0..DATA_LEN
<1>1. CASE n \in 1..Len(File[p])
  <2>1. File[p] \in Seq(Payload) /\ Len(File[p][n]) \in 1..DATA_LEN BY <1>1, NcpAssumption
  <2>2. File[p][n] \in Payload BY <1>1, <2>1
  <2>3. QED BY <1>1, <2>1, <2>2, BufLen DEF Read
<1>2. CASE n \notin 1..Len(File[p])
  <2>1. <<>> \in [1..0 -> Cell] /\ 0 \in 0..BUF_LEN BY BufLen
  <2>2. <<>> \in Payload BY <2>1, PayloadIntro
  <2>3. QED BY <1>2, <2>2, BufLen DEF Read
<1>3. QED BY <1>1, <1>2

\* Reading into a buffer gives a buffer.
LEMMA BufAfterType ==
    ASSUME NEW p \in Senders, NEW buf \in Buf, NEW lo \in Int, NEW n \in Int
    PROVE  BufAfter(p, buf, lo, n) \in Buf
<1> DEFINE Reached(j) == {r \in lo..n : j <= Len(Read(p, r)) + 1}
           Last(j) == CHOOSE x \in Reached(j) : \A y \in Reached(j) : y <= x
           Byt(j) == IF Reached(j) = {} THEN buf[j]
                      ELSE IF j <= Len(Read(p, Last(j))) THEN Read(p, Last(j))[j] ELSE NUL
<1>1. BufAfter(p, buf, lo, n) = [j \in 1..BUF_LEN |-> Byt(j)] BY DEF BufAfter
<1>2. ASSUME NEW j \in 1..BUF_LEN PROVE Byt(j) \in Cell
  <2>1. CASE Reached(j) = {} BY <2>1 DEF Buf
  <2>2. CASE Reached(j) # {}
    <3>1. \E x \in Reached(j) : \A y \in Reached(j) : y <= x
      <4>1. \A t \in Reached(j) : t \in Int /\ t <= n OBVIOUS
      <4> HIDE DEF Reached
      <4>2. QED BY <2>2, <4>1, GreatestInt
    <3>2. Last(j) \in Reached(j)
      <4> HIDE DEF Reached
      <4>1. QED BY <3>1
    <3>3. Last(j) \in Int BY <3>2
    <3> HIDE DEF Last
    <3>4. Read(p, Last(j)) \in Payload BY <3>3, ReadType
    <3>5. j <= Len(Read(p, Last(j))) => Read(p, Last(j))[j] \in Cell
      BY <3>4, PayloadType, BufLen
    <3>6. QED BY <2>2, <3>5 DEF Cell
  <2>3. QED BY <2>1, <2>2
<1> HIDE DEF Byt
<1>3. QED BY <1>1, <1>2 DEF Buf

\* What the receiver echoes leaves the sender's buffer a buffer.
LEMMA EchoedType ==
    ASSUME TypeOK, NEW p \in Senders
    PROVE  Echoed(p) \in Buf
BY OverlayType, NcpAssumption DEF Echoed, TypeOK, NcpTypeOK

\* A stored packet is sent as it is, whatever slot it is in.
LEMMA ResendType ==
    ASSUME TypeOK, NEW p \in Senders, NEW s \in Int
    PROVE  Resend(p, s) \in ToRcvMsg
<1>1. ncpWindow[p][Slot(s)] \in Packet BY SlotType DEF TypeOK, NcpTypeOK
<1>2. QED BY <1>1, BufIsPayload DEF Resend, ToRcvMsg, Packet

\* The datagrams a sender makes are datagrams.
LEMMA SentType ==
    ASSUME NEW p \in Senders, NEW buf \in Buf, NEW n \in Int
    PROVE  /\ FilenameMsg(p, buf) \in ToRcvMsg
           /\ FirstSend(p, n, buf) \in ToRcvMsg
           /\ FinMsg(p, buf) \in ToRcvMsg
BY BufIsPayload, StrType DEF FilenameMsg, FirstSend, FinMsg, ToRcvMsg

\* Shifting the window stores packets in it.
LEMMA ShiftedType ==
    ASSUME TypeOK, NEW p \in Senders, NEW buf \in Buf, NEW n \in Nat
    PROVE  Shifted(p, buf, n) \in [Slots -> Packet]
<1> DEFINE Stored(s) == {k \in 1..n : Slot(tail[p] + k) = s}
           Last(s) == CHOOSE x \in Stored(s) : \A y \in Stored(s) : y <= x
           Pkt(k) == [seq |-> seq[p] + k - 1,
                      data |-> BufAfter(p, buf, seq[p], seq[p] + k - 1)]
           Cont(s) == IF Stored(s) = {} THEN ncpWindow[p][s] ELSE Pkt(Last(s))
<1>1. Shifted(p, buf, n) = [s \in Slots |-> Cont(s)] BY DEF Shifted
<1>2. ASSUME NEW k \in 1..n PROVE Pkt(k) \in Packet
  <2>1. seq[p] \in Nat BY DEF TypeOK, NcpTypeOK
  <2>2. BufAfter(p, buf, seq[p], seq[p] + k - 1) \in Buf BY <2>1, BufAfterType
  <2>3. QED BY <2>1, <2>2 DEF Packet
<1>3. ASSUME NEW s \in Slots PROVE Cont(s) \in Packet
  <2>1. CASE Stored(s) = {} BY <2>1 DEF TypeOK, NcpTypeOK
  <2>2. CASE Stored(s) # {}
    <3>1. \A t \in Stored(s) : t \in Int /\ t <= n OBVIOUS
    <3>2. Stored(s) \subseteq 1..n OBVIOUS
    <3> HIDE DEF Stored
    <3>3. \E x \in Stored(s) : \A y \in Stored(s) : y <= x BY <2>2, <3>1, GreatestInt
    <3>4. Last(s) \in Stored(s) BY <3>3
    <3> HIDE DEF Last, Pkt
    <3>5. QED BY <2>2, <3>2, <3>4, <1>2
  <2>3. QED BY <2>1, <2>2
<1> HIDE DEF Cont
<1>4. QED BY <1>1, <1>3

-----------------------------------------------------------------------------
(* Type correctness *)

\* The senders start with values of their types (ncp.c:27-89).
THEOREM NcpInitType ==
    NcpInit => NcpTypeOK
<1> SUFFICES ASSUME NcpInit PROVE NcpTypeOK OBVIOUS
<1>1. Uninitialised \in Buf BY DEF Uninitialised, Buf, Cell
<1>2. ASSUME NEW p \in Senders
      PROVE  DestName[p] \o <<NUL>> \in Payload
  <2>1. DestName[p] \in Seq(Byte) /\ Len(DestName[p]) \in 1..DATA_LEN BY NcpAssumption
  <2>2. DestName[p] \in Seq(Cell) /\ <<NUL>> \in Seq(Cell) BY <2>1 DEF Cell
  <2>3. /\ DestName[p] \o <<NUL>> \in Seq(Cell)
        /\ Len(DestName[p] \o <<NUL>>) = Len(DestName[p]) + 1
    BY <2>2, ConcatProperties
  <2>4. DestName[p] \o <<NUL>> \in [1..(Len(DestName[p]) + 1) -> Cell]
    BY <2>3, LenProperties
  <2>5. Len(DestName[p]) + 1 \in 0..BUF_LEN BY <2>1, BufLen
  <2>6. QED BY <2>4, <2>5, PayloadIntro
<1>3. \A p \in Senders : Overlay(Uninitialised, DestName[p] \o <<NUL>>) \in Buf
  BY <1>1, <1>2, OverlayType
<1>4. [seq |-> 0, data |-> Uninitialised] \in Packet BY <1>1 DEF Packet
<1>5. QED BY <1>3, <1>4 DEF NcpInit, NcpTypeOK

\* Every step of a sender keeps the types of its state and of the network.
LEMMA NcpStepType ==
    ASSUME TypeOK, NEW p \in Senders, NcpNext(p)
    PROVE  NcpTypeOK' /\ NetTypeOK'
<1>0. NcpTypeOK /\ NetTypeOK BY DEF TypeOK
<1>1. CASE SendFilename(p)
  <2>1. FilenameMsg(p, ncpBuf[p]) \in ToRcvMsg
    BY <1>0, SentType DEF NcpTypeOK
  <2>2. toRcv' \subseteq ToRcvMsg
    BY <1>0, <1>1, <2>1, SentToRcvType DEF SendFilename, NetTypeOK
  <2>3. QED BY <1>0, <1>1, <2>2 DEF SendFilename, NetTypeOK, NcpTypeOK, ncpVars
<1>2. CASE TimeoutFinish(p)
  <2>1. FinMsg(p, ncpBuf[p]) \in ToRcvMsg BY <1>0, SentType DEF NcpTypeOK
  <2>2. toRcv' \subseteq ToRcvMsg
    BY <1>0, <1>2, <2>1, SentToRcvType DEF TimeoutFinish, Exit, NetTypeOK
  <2>3. QED BY <1>0, <1>2, <2>2 DEF TimeoutFinish, Exit, NetTypeOK, NcpTypeOK
<1>3. CASE Timeout(p)
  <2>1. {Resend(p, s) : s \in head[p]..tail[p]} \subseteq ToRcvMsg BY ResendType
  <2>2. toRcv' \subseteq ToRcvMsg
    BY <1>0, <1>3, <2>1, SentToRcvType DEF Timeout, NetTypeOK
  <2>3. QED BY <1>0, <1>3, <2>2 DEF Timeout, NetTypeOK, NcpTypeOK, ncpVars
<1>4. ASSUME NEW m \in toNcp, NcpRecv(p, m)
      PROVE  NcpTypeOK' /\ NetTypeOK'
  <2>0. /\ m.cack \in Int /\ m.nack \in NackArray
        /\ Echoed(p) \in Buf
    BY <1>0, EchoedType DEF NetTypeOK, ToNcpMsg
  <2>1. toNcp' \subseteq ToNcpMsg
    <3>1. toNcp' \in Consumed(toNcp, m)
      BY <1>4 DEF NcpRecv, RecvDecline, RecvAccept, RecvFinish, RecvStale, RecvNack,
                  RecvAckAtEof, RecvAck
    <3>2. QED BY <1>0, <3>1, ConsumedType DEF NetTypeOK
  <2>2. CASE RecvDecline(p, m)
    <3>1. FilenameMsg(p, Echoed(p)) \in ToRcvMsg BY <2>0, SentType
    <3>2. toRcv' \subseteq ToRcvMsg
      BY <1>0, <2>2, <3>1, SentToRcvType DEF RecvDecline, NetTypeOK
    <3>3. QED BY <1>0, <2>0, <2>1, <2>2, <3>2 DEF RecvDecline, NetTypeOK, NcpTypeOK
  <2>3. CASE RecvAccept(p, m)
    <3> DEFINE filled(n) == BufAfter(p, Echoed(p), 1, n)
               first == {FilenameMsg(p, Echoed(p))}
                        \cup {FirstSend(p, n, filled(n)) : n \in 1..WINDOW_SIZE}
    <3>1. \A n \in Int : filled(n) \in Buf BY <2>0, BufAfterType
    <3>2. ncpBuf' = [ncpBuf EXCEPT ![p] = filled(WINDOW_SIZE)]
      BY <2>3 DEF RecvAccept
    <3>3. ncpWindow' = [ncpWindow EXCEPT ![p] =
                 [s \in Slots |-> LET n == IF s = 0 THEN WINDOW_SIZE ELSE s
                                  IN  [seq |-> n, data |-> filled(n)]]]
      BY <2>3 DEF RecvAccept
    <3>4. toRcv' \subseteq toRcv \cup first
      BY <2>3, SentToRcvType DEF RecvAccept
    <3> HIDE DEF filled
    <3>5. first \subseteq ToRcvMsg BY <2>0, <3>1, SentType
    <3> HIDE DEF first
    <3>6. ncpBuf' \in [Senders -> Buf] BY <1>0, <3>1, <3>2 DEF NcpTypeOK
    <3>7. ncpWindow' \in [Senders -> [Slots -> Packet]]
      BY <1>0, <3>1, <3>3 DEF NcpTypeOK, Packet, Slots
    <3>8. /\ phase' \in [Senders -> {"connecting", "sending", "exited"}]
          /\ seq' \in [Senders -> Nat]
          /\ UNCHANGED <<head, tail, eof>>
      BY <1>0, <2>3 DEF RecvAccept, NcpTypeOK
    <3>9. QED BY <1>0, <2>1, <3>4, <3>5, <3>6, <3>7, <3>8 DEF NetTypeOK, NcpTypeOK
  <2>4. CASE RecvFinish(p, m)
    <3>1. FinMsg(p, Echoed(p)) \in ToRcvMsg BY <2>0, SentType
    <3>2. toRcv' \subseteq ToRcvMsg
      BY <1>0, <2>4, <3>1, SentToRcvType DEF RecvFinish, Exit, NetTypeOK
    <3>3. QED BY <1>0, <2>0, <2>1, <2>4, <3>2 DEF RecvFinish, Exit, NetTypeOK, NcpTypeOK
  <2>5. CASE RecvStale(p, m)
    BY <1>0, <2>0, <2>1, <2>5 DEF RecvStale, NetTypeOK, NcpTypeOK
  <2>6. CASE RecvNack(p, m)
    <3>1. Requested(p, m.nack) \subseteq Int BY <2>0 DEF Requested, NackArray
    <3>2. {Resend(p, s) : s \in Requested(p, m.nack)} \subseteq ToRcvMsg
      BY <3>1, ResendType
    <3>3. toRcv' \subseteq ToRcvMsg
      BY <1>0, <2>6, <3>2, SentToRcvType DEF RecvNack, NetTypeOK
    <3>4. QED BY <1>0, <2>0, <2>1, <2>6, <3>3 DEF RecvNack, NetTypeOK, NcpTypeOK
  <2>7. CASE RecvAckAtEof(p, m)
    <3>1. m.cack + 1 \in Nat BY <1>0, <2>0, <2>7 DEF RecvAckAtEof, NcpTypeOK
    <3>2. QED BY <1>0, <2>0, <2>1, <2>7, <3>1 DEF RecvAckAtEof, NetTypeOK, NcpTypeOK
  <2>8. CASE RecvAck(p, m)
    <3> DEFINE filled(k) == BufAfter(p, Echoed(p), seq[p], seq[p] + k - 1)
               sent(n) == {FirstSend(p, seq[p] + k - 1, filled(k)) : k \in 1..n}
    <3>1. PICK n \in 1..(m.cack - head[p] + 1) :
            /\ head' = [head EXCEPT ![p] = m.cack + 1]
            /\ tail' = [tail EXCEPT ![p] = @ + n]
            /\ seq' = [seq EXCEPT ![p] = seq[p] + n - 1 + 1]
            /\ eof' = [eof EXCEPT ![p] = Len(Read(p, seq[p] + n - 1)) < DATA_LEN]
            /\ ncpBuf' = [ncpBuf EXCEPT ![p] = filled(n)]
            /\ ncpWindow' = [ncpWindow EXCEPT ![p] = Shifted(p, Echoed(p), n)]
            /\ SentToRcv(sent(n))
      BY <2>8 DEF RecvAck
    <3>0. /\ head[p] \in Nat /\ seq[p] \in Nat
          /\ head[p] <= m.cack
      BY <1>0, <2>0, <2>8 DEF NcpTypeOK, RecvAck
    <3>2. /\ n \in Nat /\ seq[p] \in Nat /\ head[p] \in Nat /\ m.cack + 1 \in Nat
          /\ \A k \in Int : seq[p] + k - 1 \in Int
      <4> HIDE DEF filled, sent
      <4> QED BY <2>0, <3>0
    <3>3. \A k \in Int : filled(k) \in Buf BY <2>0, <3>2, BufAfterType
    <3>4. Shifted(p, Echoed(p), n) \in [Slots -> Packet] BY <2>0, <3>2, ShiftedType
    <3> HIDE DEF filled
    <3>5. sent(n) \subseteq ToRcvMsg BY <3>2, <3>3, SentType
    <3> HIDE DEF sent
    <3>6. toRcv' \subseteq ToRcvMsg BY <1>0, <3>1, <3>5, SentToRcvType DEF NetTypeOK
    <3>7. head' \in [Senders -> Nat] /\ tail' \in [Senders -> Nat] /\ seq' \in [Senders -> Nat]
      BY <1>0, <3>1, <3>2 DEF NcpTypeOK
    <3>8. eof' \in [Senders -> BOOLEAN] /\ ncpBuf' \in [Senders -> Buf]
      BY <1>0, <3>1, <3>2, <3>3 DEF NcpTypeOK
    <3>9. ncpWindow' \in [Senders -> [Slots -> Packet]]
      BY <1>0, <3>1, <3>4 DEF NcpTypeOK
    <3>10. UNCHANGED phase BY <2>8 DEF RecvAck
    <3>11. QED BY <1>0, <2>1, <3>6, <3>7, <3>8, <3>9, <3>10 DEF NetTypeOK, NcpTypeOK
  <2>9. QED BY <1>4, <2>2, <2>3, <2>4, <2>5, <2>6, <2>7, <2>8 DEF NcpRecv
<1>5. QED BY <1>1, <1>2, <1>3, <1>4 DEF NcpNext

\* The nack arrays the receiver sends are nack arrays.
LEMMA NackType ==
    ASSUME NEW c \in Int
    PROVE  NoNack \in NackArray /\ TimedNack(c) \in NackArray
BY DEF NoNack, TimedNack, NackArray

\* A turn's replies are datagrams if what the handler replies is, and what stays in
\* the echo buffer is a nack array.
LEMMA ReplyType ==
    ASSUME NetTypeOK, C_ack' \in Int, from' \in Senders,
           NEW replies, replies \subseteq ToNcpMsg, NEW nack \in NackArray, NEW due \in BOOLEAN,
           Reply(replies, nack, due)
    PROVE  toNcp' \subseteq ToNcpMsg /\ echoNack' \in NackArray
<1> DEFINE ack == [dst |-> from', cack |-> C_ack', nack |-> TimedNack(C_ack')]
<1>1. ack \in ToNcpMsg /\ TimedNack(C_ack') \in NackArray BY NackType DEF ToNcpMsg
<1>2. PICK timed \in BOOLEAN :
        /\ echoNack' = IF timed THEN TimedNack(C_ack') ELSE nack
        /\ SentToNcp(IF timed THEN replies \cup {ack} ELSE replies)
  BY DEF Reply
<1> HIDE DEF ack
<1>3. (IF timed THEN replies \cup {ack} ELSE replies) \subseteq ToNcpMsg BY <1>1
<1>4. toNcp' \subseteq toNcp \cup (IF timed THEN replies \cup {ack} ELSE replies)
  BY <1>2, SentToNcpType
<1>5. QED BY <1>1, <1>2, <1>3, <1>4 DEF NetTypeOK

\* The initial state of the receiver is well typed.
LEMMA RcvInitType ==
    RcvInit => RcvTypeOK
<1> SUFFICES ASSUME RcvInit PROVE RcvTypeOK OBVIOUS
<1>1. Uninitialised \in Buf BY DEF Uninitialised, Buf, Cell
<1>2. [seq |-> 0, data |-> Uninitialised] \in RcvPacket BY <1>1 DEF RcvPacket
<1>3. <<>> \in Seq(Payload) OBVIOUS
<1>4. echoNack \in NackArray BY DEF RcvInit, NackArray
<1>5. fw \in DOMAIN file /\ file \in [DOMAIN file -> Seq(Payload)]
  <2>1. file = [f \in {<<>>} |-> <<>>] /\ fw = <<>> BY DEF RcvInit
  <2>2. DOMAIN file = {<<>>} BY <2>1
  <2>3. file \in [{<<>>} -> Seq(Payload)] BY <2>1, <1>3
  <2>4. QED BY <2>1, <2>2, <2>3
<1>6. rcvWindow \in [Slots -> RcvPacket] /\ rcvBuf \in Buf
  BY <1>1, <1>2 DEF RcvInit
<1>7. /\ up \in BOOLEAN /\ hassender \in BOOLEAN
      /\ current \in Senders /\ from \in Senders
  BY DEF RcvInit
<1>8. /\ C_ack \in Nat /\ lastACK \in Int /\ NACKTime \in 0..2
      /\ buffer \in [Slots -> {0, 1}] /\ buffersize \in Nat
  BY DEF RcvInit
<1>9. QED BY <1>4, <1>5, <1>6, <1>7, <1>8 DEF RcvTypeOK

\* Every step of the receiver keeps the types of its state and of the network.
LEMMA RcvStepType ==
    ASSUME TypeOK, RcvNext
    PROVE  RcvTypeOK' /\ NetTypeOK'
<1>0. RcvTypeOK /\ NetTypeOK BY DEF TypeOK
<1>a. echoNack \in NackArray BY <1>0 DEF RcvTypeOK
<1>b. C_ack \in Int BY <1>0 DEF RcvTypeOK
<1>c. C_ack \in Nat /\ buffersize \in Nat BY <1>0 DEF RcvTypeOK
<1>1. CASE RcvIdle
  <2>1. toNcp' \subseteq ToNcpMsg /\ echoNack' \in NackArray
    <3>1. Reply({}, echoNack, TRUE) BY <1>1 DEF RcvIdle
    <3>2. C_ack' \in Int /\ from' \in Senders
      BY <1>0, <1>1 DEF RcvIdle, RcvTypeOK, sessionVars
    <3>3. QED BY <1>0, <1>a, <3>1, <3>2, ReplyType
  <2>2. QED BY <1>0, <1>1, <2>1 DEF RcvIdle, RcvTypeOK, NetTypeOK, sessionVars
<1>2. ASSUME NEW m \in toRcv, RcvRecv(m)
      PROVE  RcvTypeOK' /\ NetTypeOK'
  <2>0. /\ m.src \in Senders /\ m.seq \in Int /\ m.data \in Payload
        /\ Received(m) \in Buf
    BY <1>0, OverlayType DEF NetTypeOK, ToRcvMsg, Received, RcvTypeOK
  <2>1. toRcv' \subseteq ToRcvMsg /\ from' \in Senders
    <3>1. Take(m)
      BY <1>2 DEF RcvRecv, RcvStray, RcvOpen, RcvOpenFails, RcvDecline, RcvClose,
                  RcvInOrder, RcvEarly, RcvDrop
    <3>2. QED BY <1>0, <2>0, <3>1, ConsumedType DEF Take, NetTypeOK
  <2>a. ASSUME NEW c \in Int, NEW nack \in NackArray
        PROVE  {To(m, c, nack)} \subseteq ToNcpMsg
    BY <2>0, <2>a DEF To, ToNcpMsg
  <2>2. CASE RcvStray(m)
    BY <1>0, <2>0, <2>1, <2>2 DEF RcvStray, Take, RcvTypeOK, NetTypeOK, sessionVars
  <2>3. CASE RcvOpen(m)
    <3> DEFINE name == Str(Received(m))
    <3>1. /\ C_ack' = 0 /\ Reply({To(m, 0, echoNack)}, echoNack, FALSE)
      BY <2>3 DEF RcvOpen
    <3>2. toNcp' \subseteq ToNcpMsg /\ echoNack' \in NackArray
      <4>1. {To(m, 0, echoNack)} \subseteq ToNcpMsg BY <1>a, <2>a
      <4>2. C_ack' \in Int BY <3>1
      <4>3. QED BY <1>0, <1>a, <2>1, <3>1, <4>1, <4>2, ReplyType
    <3>3. /\ fw' = name
          /\ file' = [f \in DOMAIN file \cup {name} |-> IF f = name THEN <<>> ELSE file[f]]
      BY <2>3 DEF RcvOpen
    <3> HIDE DEF name
    <3>4. fw' \in DOMAIN file' /\ file' \in [DOMAIN file' -> Seq(Payload)]
      <4>1. DOMAIN file' = DOMAIN file \cup {name} BY <3>3
      <4>2. \A f \in DOMAIN file : file[f] \in Seq(Payload) BY <1>0 DEF RcvTypeOK
      <4>3. <<>> \in Seq(Payload) OBVIOUS
      <4>4. \A f \in DOMAIN file \cup {name} :
              (IF f = name THEN <<>> ELSE file[f]) \in Seq(Payload)
        BY <4>2, <4>3
      <4>5. file' \in [DOMAIN file \cup {name} -> Seq(Payload)] BY <3>3, <4>4
      <4>6. QED BY <3>3, <4>1, <4>5
    <3>5. QED BY <1>0, <2>0, <2>1, <2>3, <3>2, <3>4 DEF RcvOpen, Take, RcvTypeOK, NetTypeOK
  <2>4. CASE RcvOpenFails(m)
    BY <1>0, <2>0, <2>1, <2>4 DEF RcvOpenFails, Take, RcvTypeOK, NetTypeOK, sessionVars
  <2>5. CASE RcvDecline(m)
    <3>1. Reply({To(m, -1, echoNack)}, echoNack, FALSE) BY <2>5 DEF RcvDecline
    <3>2. C_ack' \in Int BY <1>b, <2>5 DEF RcvDecline, sessionVars
    <3>a. {To(m, -1, echoNack)} \subseteq ToNcpMsg BY <1>a, <2>a
    <3>3. toNcp' \subseteq ToNcpMsg /\ echoNack' \in NackArray
      BY <1>0, <1>a, <2>1, <3>1, <3>2, <3>a, ReplyType
    <3>4. QED BY <1>0, <2>0, <2>1, <2>5, <3>3
             DEF RcvDecline, Take, RcvTypeOK, NetTypeOK, sessionVars
  <2>6. CASE RcvClose(m)
    BY <1>0, <2>0, <2>1, <2>6 DEF RcvClose, Take, RcvTypeOK, NetTypeOK, sessionVars
  <2>7. CASE RcvInOrder(m)
    <3> DEFINE drained(d) == {Slot(C_ack + 1 + j) : j \in 1..d}
               Text(j) == IF j = 1 THEN Str(Received(m))
                            ELSE Str(rcvWindow[Slot(C_ack + j)].data)
    <3>1. PICK d \in 0..(WINDOW_SIZE - 1) :
            /\ Drains(C_ack, d)
            /\ C_ack' = C_ack + 1 + d
            /\ buffersize' = buffersize - d
            /\ buffer' = [s \in Slots |-> IF s \in drained(d) THEN 0 ELSE buffer[s]]
            /\ rcvWindow' = [s \in Slots |->
                  IF s \in drained(d) THEN [rcvWindow[s] EXCEPT !.data = Bzero(@)]
                                     ELSE rcvWindow[s]]
            /\ file' = [file EXCEPT ![fw] = @ \o [j \in 1..(d + 1) |-> Text(j)]]
      BY <2>7 DEF RcvInOrder
    <3>2. /\ lastACK' = C_ack' /\ NACKTime' = 0 /\ rcvBuf' = Bzero(Received(m))
          /\ Reply({To(m, C_ack', NoNack)}, NoNack, TRUE)
          /\ UNCHANGED <<up, hassender, current, fw>>
      BY <2>7 DEF RcvInOrder
    <3>a. Drains(C_ack, d) /\ buffersize' = buffersize - d /\ C_ack' = C_ack + 1 + d BY ONLY <3>1
    <3>3. d \in Nat /\ C_ack \in Nat /\ buffersize \in Nat /\ C_ack' \in Nat
      <4>1. d \in Nat BY ONLY d \in 0..(WINDOW_SIZE - 1)
      <4>2. QED BY ONLY <1>c, <3>a, <4>1
    <3>4. buffersize' \in Nat
      <4>1. d \in 0..SearchLimit
        <5>1. Drains(C_ack, d) BY ONLY <3>a
        <5>2. QED BY ONLY <5>1 DEF Drains
      <4>2. WINDOW_SIZE \in Nat BY NetAssumption
      <4>3. d <= buffersize BY ONLY <3>3, <4>1, <4>2 DEF SearchLimit
      <4>4. QED BY ONLY <3>3, <3>a, <4>3
    <3> HIDE DEF drained
    <3>5. buffer' \in [Slots -> {0, 1}] BY <1>0, <3>1 DEF RcvTypeOK
    <3>6. rcvWindow' \in [Slots -> RcvPacket]
      <4>1. ASSUME NEW s \in Slots
            PROVE  [rcvWindow[s] EXCEPT !.data = Bzero(@)] \in RcvPacket
        <5>1. rcvWindow[s] \in RcvPacket BY <1>0 DEF RcvTypeOK
        <5>2. Bzero(rcvWindow[s].data) \in Buf BY <5>1, BzeroType DEF RcvPacket
        <5>3. QED BY <5>1, <5>2 DEF RcvPacket
      <4>2. QED BY <1>0, <3>1, <4>1 DEF RcvTypeOK
    <3>7. ASSUME NEW j \in 1..(d + 1) PROVE Text(j) \in Payload
      <4>1. Str(Received(m)) \in Payload BY <2>0, StrType
      <4>2. rcvWindow[Slot(C_ack + j)] \in RcvPacket BY <1>0, <3>3, SlotType DEF RcvTypeOK
      <4>3. Str(rcvWindow[Slot(C_ack + j)].data) \in Payload
        BY <4>2, StrType DEF RcvPacket
      <4>4. QED BY <4>1, <4>3
    <3> HIDE DEF Text
    <3>8. file' \in [DOMAIN file' -> Seq(Payload)] /\ fw' \in DOMAIN file'
      <4>1. [j \in 1..(d + 1) |-> Text(j)] \in Seq(Payload) BY <3>3, <3>7
      <4>2. file[fw] \in Seq(Payload) BY <1>0 DEF RcvTypeOK
      <4>3. file[fw] \o [j \in 1..(d + 1) |-> Text(j)] \in Seq(Payload)
        BY <4>1, <4>2, ConcatProperties
      <4>4. QED BY <1>0, <3>1, <3>2, <4>3 DEF RcvTypeOK
    <3>9. toNcp' \subseteq ToNcpMsg /\ echoNack' \in NackArray
      <4>1. C_ack' \in Int /\ NoNack \in NackArray BY <3>3, NackType
      <4>2. {To(m, C_ack', NoNack)} \subseteq ToNcpMsg BY <2>a, <4>1
      <4>3. Reply({To(m, C_ack', NoNack)}, NoNack, TRUE) BY <3>2
      <4>4. QED BY <1>0, <2>1, <4>1, <4>2, <4>3, ReplyType
    <3>10. rcvBuf' \in Buf BY <2>0, <3>2, BzeroType
    <3>11. /\ up' \in BOOLEAN /\ hassender' \in BOOLEAN /\ current' \in Senders
           /\ lastACK' \in Int /\ NACKTime' \in 0..2
      BY <1>0, <3>2, <3>3 DEF RcvTypeOK
    <3>12. QED BY <2>1, <3>3, <3>4, <3>5, <3>6, <3>8, <3>9, <3>10, <3>11 DEF RcvTypeOK, NetTypeOK
  <2>8. CASE RcvEarly(m)
    <3>0. Slot(m.seq) \in Slots BY <2>0, SlotType
    <3>1. /\ buffer' \in [Slots -> {0, 1}] /\ buffersize' \in Nat
          /\ rcvWindow' \in [Slots -> RcvPacket] /\ rcvBuf' \in Buf
      BY <1>0, <2>0, <2>8, <3>0 DEF RcvEarly, RcvTypeOK, RcvPacket
    <3>2. /\ UNCHANGED <<up, hassender, current, C_ack, fw, file>>
          /\ C_ack' \in Nat
      BY <1>0, <2>8 DEF RcvEarly, RcvTypeOK
    <3>3. CASE lastACK # C_ack \/ NACKTime < 2
      <4> DEFINE nack == Missing(m.seq, buffer')
      <4>1. /\ NACKTime' = IF lastACK = C_ack THEN NACKTime + 1 ELSE 0
            /\ lastACK' = C_ack
            /\ Reply({To(m, C_ack, nack)}, nack, TRUE)
        BY <2>8, <3>3 DEF RcvEarly
      <4>2. nack \in NackArray BY <1>0 DEF Missing, NackArray, RcvTypeOK
      <4> HIDE DEF nack
      <4>3. {To(m, C_ack, nack)} \subseteq ToNcpMsg BY <1>b, <2>a, <4>2
      <4>a. C_ack' \in Int BY <3>2
      <4>b. Reply({To(m, C_ack, nack)}, nack, TRUE) BY <4>1
      <4>4. toNcp' \subseteq ToNcpMsg /\ echoNack' \in NackArray
        BY <1>0, <2>1, <4>a, <4>b, <4>2, <4>3, ReplyType
      <4>5. NACKTime' \in 0..2 /\ lastACK' \in Int BY <1>0, <3>3, <4>1 DEF RcvTypeOK
      <4>6. QED BY <1>0, <2>1, <3>1, <3>2, <4>4, <4>5 DEF RcvTypeOK, NetTypeOK
    <3>4. CASE ~(lastACK # C_ack \/ NACKTime < 2)
      <4>1. UNCHANGED <<lastACK, NACKTime>> BY <2>8, <3>4 DEF RcvEarly
      <4>2. Reply({}, echoNack, TRUE) BY <2>8, <3>4 DEF RcvEarly
      <4>a. C_ack' \in Int BY <3>2
      <4>3. toNcp' \subseteq ToNcpMsg /\ echoNack' \in NackArray
        BY <1>0, <1>a, <2>1, <4>a, <4>2, ReplyType
      <4>4. QED BY <1>0, <2>1, <3>1, <3>2, <4>1, <4>3 DEF RcvTypeOK, NetTypeOK
    <3>5. QED BY <3>3, <3>4
  <2>9. CASE RcvDrop(m)
    <3>1. Reply({}, echoNack, TRUE) BY <2>9 DEF RcvDrop
    <3>2. C_ack' \in Int BY <1>b, <2>9 DEF RcvDrop, sessionVars
    <3>3. toNcp' \subseteq ToNcpMsg /\ echoNack' \in NackArray
      BY <1>0, <1>a, <2>1, <3>1, <3>2, ReplyType
    <3>4. QED BY <1>0, <2>0, <2>1, <2>9, <3>3
             DEF RcvDrop, Take, RcvTypeOK, NetTypeOK, sessionVars
  <2>10. QED BY <1>2, <2>2, <2>3, <2>4, <2>5, <2>6, <2>7, <2>8, <2>9 DEF RcvRecv
<1>3. QED BY <1>1, <1>2 DEF RcvNext

\* Every step keeps the types.
LEMMA TypeStep ==
    ASSUME TypeOK, [Next]_vars
    PROVE  TypeOK'
<1>1. ASSUME NEW p \in Senders, NcpNext(p), UNCHANGED rcvVars PROVE TypeOK'
  <2>1. NcpTypeOK' /\ NetTypeOK' BY <1>1, NcpStepType
  <2>2. RcvTypeOK' BY <1>1 DEF TypeOK, RcvTypeOK, rcvVars, sessionVars
  <2>3. QED BY <2>1, <2>2 DEF TypeOK
<1>2. CASE RcvNext /\ UNCHANGED ncpVars
  <2>1. RcvTypeOK' /\ NetTypeOK' BY <1>2, RcvStepType
  <2>2. NcpTypeOK' BY <1>2 DEF TypeOK, NcpTypeOK, ncpVars
  <2>3. QED BY <2>1, <2>2 DEF TypeOK
<1>3. CASE PortClosed
  BY <1>3 DEF PortClosed, TypeOK, NetTypeOK, NcpTypeOK, RcvTypeOK, ncpVars, rcvVars, sessionVars
<1>4. CASE UNCHANGED vars
  BY <1>4 DEF vars, netVars, TypeOK, NetTypeOK, NcpTypeOK, RcvTypeOK, ncpVars, rcvVars, sessionVars
<1>5. QED BY <1>1, <1>2, <1>3, <1>4 DEF Next

\* Type correctness of the file transfer, for every value of the constants.
THEOREM TypeCorrect == Spec => []TypeOK
<1>1. Init => TypeOK
  BY NcpInitType, RcvInitType DEF Init, NetInit, NetTypeOK, TypeOK
<1>2. TypeOK /\ [Next]_vars => TypeOK' BY TypeStep
<1>3. QED BY <1>1, <1>2, PTL DEF Spec

-----------------------------------------------------------------------------
(* Slots *)

\* Division by a window size.
LEMMA Division ==
    ASSUME NEW n \in Nat, n > 0, NEW a \in Int
    PROVE  a = n * (a \div n) + (a % n)
OBVIOUS

\* The remainder, from a quotient.
LEMMA Remainder ==
    ASSUME NEW n \in Nat, n > 0, NEW q \in Int, NEW r \in 0..(n - 1)
    PROVE  (n * q + r) % n = r
OBVIOUS

\* Two sequence numbers less than a window apart have different slots.
LEMMA SlotInjective ==
    ASSUME NEW a \in Int, NEW b \in Int, a <= b, b < a + WINDOW_SIZE, Slot(a) = Slot(b)
    PROVE  a = b
<1> DEFINE Windows(k) == WINDOW_SIZE * k
           q == a \div WINDOW_SIZE
           r == b \div WINDOW_SIZE
<1>1. WINDOW_SIZE \in Nat /\ WINDOW_SIZE > 0 BY NetAssumption
<1>2. q \in Int /\ r \in Int /\ Slot(a) \in Int BY <1>1 DEF Slot
<1>3. a = Windows(q) + Slot(a) BY <1>1, Division DEF Slot
<1>4. b = Windows(r) + Slot(b) BY <1>1, Division DEF Slot
<1> HIDE DEF q, r
<1>5. /\ Windows(r) \in Int /\ Windows(q) \in Int
      /\ r - q >= 1 => Windows(r) - Windows(q) >= WINDOW_SIZE
      /\ r - q <= -1 => Windows(q) - Windows(r) >= WINDOW_SIZE
  <2>1. \A k \in Int : k >= 1 => WINDOW_SIZE * k >= WINDOW_SIZE BY <1>1
  <2>2. /\ WINDOW_SIZE * (r - q) = Windows(r) - Windows(q)
        /\ WINDOW_SIZE * (q - r) = Windows(q) - Windows(r)
    BY <1>1, <1>2
  <2>3. Windows(r) \in Int /\ Windows(q) \in Int BY <1>1, <1>2
  <2> HIDE DEF Windows
  <2>4. QED BY <1>2, <2>1, <2>2, <2>3
<1> HIDE DEF Windows
<1>6. ~(r - q >= 1) /\ ~(r - q <= -1) BY <1>1, <1>2, <1>3, <1>4, <1>5
<1>7. r = q BY <1>2, <1>6
<1>8. QED BY <1>3, <1>4, <1>7

\* A window further on the slots are the same.
LEMMA SlotShift ==
    ASSUME NEW a \in Int
    PROVE  Slot(a + WINDOW_SIZE) = Slot(a)
<1> DEFINE Windows(k) == WINDOW_SIZE * k
           q == a \div WINDOW_SIZE
<1>1. WINDOW_SIZE \in Nat /\ WINDOW_SIZE > 0 BY NetAssumption
<1>2. q \in Int /\ Slot(a) \in 0..(WINDOW_SIZE - 1) BY <1>1 DEF Slot
<1>3. a = Windows(q) + Slot(a) BY <1>1, Division DEF Slot
<1> HIDE DEF q
<1>4. Windows(q + 1) = Windows(q) + WINDOW_SIZE /\ Windows(q) \in Int BY <1>1, <1>2
<1>5. (Windows(q + 1) + Slot(a)) % WINDOW_SIZE = Slot(a)
  BY <1>1, <1>2, Remainder DEF Slot
<1> HIDE DEF Windows
<1>6. a + WINDOW_SIZE = Windows(q + 1) + Slot(a) BY <1>1, <1>2, <1>3, <1>4
<1>7. (a + WINDOW_SIZE) % WINDOW_SIZE = Slot(a) BY <1>5, <1>6
<1>8. QED BY <1>7 DEF Slot

\* The d slots behind packet c + 1 are d slots.
LEMMA DrainedSlots ==
    ASSUME NEW c \in Int, NEW d \in 0..(WINDOW_SIZE - 1)
    PROVE  /\ IsFiniteSet({Slot(c + 1 + j) : j \in 1..d})
           /\ Cardinality({Slot(c + 1 + j) : j \in 1..d}) = d
<1> DEFINE drained == {Slot(c + 1 + j) : j \in 1..d}
           f == [j \in 1..d |-> Slot(c + 1 + j)]
<1>0. WINDOW_SIZE \in Nat BY NetAssumption
<1>1. f \in [1..d -> drained] OBVIOUS
<1>2. ASSUME NEW i \in 1..d, NEW j \in 1..d, f[i] = f[j] PROVE i = j
  <2>1. Slot(c + 1 + i) = Slot(c + 1 + j) BY <1>2
  <2>2. CASE i <= j
    <3>1. c + 1 + i = c + 1 + j BY <1>0, <2>1, <2>2, SlotInjective
    <3>2. QED BY <3>1
  <2>3. CASE j <= i
    <3>1. c + 1 + j = c + 1 + i BY <1>0, <2>1, <2>3, SlotInjective
    <3>2. QED BY <3>1
  <2>4. QED BY <2>2, <2>3
<1>3. ASSUME NEW s \in drained PROVE \E j \in 1..d : f[j] = s OBVIOUS
<1> HIDE DEF f, drained
<1>a. \A i, j \in 1..d : f[i] = f[j] => i = j BY <1>2
<1>b. \A s \in drained : \E j \in 1..d : f[j] = s BY <1>3
<1>4. f \in Bijection(1..d, drained) BY <1>1, <1>a, <1>b, Fun_IsBij
<1>5. ExistsBijection(1..d, drained) BY <1>4 DEF ExistsBijection
<1>6. IsFiniteSet(1..d) /\ Cardinality(1..d) = d BY <1>0, FS_Interval
<1>7. IsFiniteSet(drained) /\ Cardinality(drained) = d BY <1>5, <1>6, FS_Bijection
<1>8. QED BY <1>7 DEF drained

\* The taken slots are finitely many.
LEMMA TakenFinite == IsFiniteSet(Taken)
<1>1. IsFiniteSet(Slots) BY FS_Interval, NetAssumption DEF Slots
<1>2. QED BY <1>1, FS_Subset DEF Taken

\* The receiver's count of its taken slots stays right, whatever the senders do.
LEMMA CounterStep ==
    ASSUME TypeOK, CounterRight, [Next]_vars
    PROVE  CounterRight'
<1>1. CASE UNCHANGED <<buffer, buffersize>>
  <2>1. Taken' = Taken BY <1>1 DEF Taken
  <2>2. QED BY <1>1, <2>1 DEF CounterRight
<1>2. ASSUME NEW m \in toRcv, RcvOpen(m) PROVE CounterRight'
  <2>1. buffersize' = 0 /\ \A s \in Slots : buffer'[s] = 0 BY <1>2 DEF RcvOpen
  <2>2. Taken' = {} BY <2>1 DEF Taken
  <2>3. QED BY <2>1, <2>2, FS_EmptySet DEF CounterRight
<1>3. ASSUME NEW m \in toRcv, RcvEarly(m) PROVE CounterRight'
  <2>1. Slot(m.seq) \in Slots
    BY SlotType DEF TypeOK, NetTypeOK, ToRcvMsg
  <2>2. /\ buffer' = [buffer EXCEPT ![Slot(m.seq)] = 1]
        /\ buffersize' = buffersize + 1
        /\ buffer[Slot(m.seq)] = 0
    BY <1>3 DEF RcvEarly, Early
  <2>3. buffer \in [Slots -> {0, 1}] BY DEF TypeOK, RcvTypeOK
  <2>4. Taken' = Taken \cup {Slot(m.seq)} /\ Slot(m.seq) \notin Taken
    BY <2>1, <2>2, <2>3 DEF Taken
  <2>5. QED BY <2>2, <2>4, TakenFinite, FS_AddElement DEF CounterRight
<1>4. ASSUME NEW m \in toRcv, RcvInOrder(m) PROVE CounterRight'
  <2> DEFINE drained(d) == {Slot(C_ack + 1 + j) : j \in 1..d}
  <2>1. PICK d \in 0..(WINDOW_SIZE - 1) :
          /\ Drains(C_ack, d)
          /\ buffersize' = buffersize - d
          /\ buffer' = [s \in Slots |-> IF s \in drained(d) THEN 0 ELSE buffer[s]]
    BY <1>4 DEF RcvInOrder
  <2>2. C_ack \in Int BY DEF TypeOK, RcvTypeOK
  <2>3. IsFiniteSet(drained(d)) /\ Cardinality(drained(d)) = d BY <2>2, DrainedSlots
  <2>4. drained(d) \subseteq Taken
    <3>1. \A j \in 1..d : C_ack + 1 + j \in Int BY <2>2
    <3>2. \A j \in 1..d : buffer[Slot(C_ack + 1 + j)] = 1 BY <2>1 DEF Drains
    <3>3. QED BY <3>1, <3>2, SlotType DEF Taken
  <2> HIDE DEF drained
  <2>5. Taken' = Taken \ drained(d) BY <2>1 DEF Taken
  <2>6. Taken \cap drained(d) = drained(d) BY <2>4
  <2>7. Cardinality(Taken \ drained(d)) = Cardinality(Taken) - Cardinality(Taken \cap drained(d))
    BY TakenFinite, FS_Difference
  <2>8. Cardinality(Taken') = Cardinality(Taken) - d BY <2>3, <2>5, <2>6, <2>7
  <2>9. QED BY <2>1, <2>8 DEF CounterRight
<1>5. ASSUME NEW m \in toRcv, RcvRecv(m) PROVE CounterRight'
  <2>1. RcvOpen(m) \/ RcvEarly(m) \/ RcvInOrder(m) \/ UNCHANGED <<buffer, buffersize>>
    BY <1>5 DEF RcvRecv, RcvStray, RcvOpenFails, RcvDecline, RcvClose, RcvDrop, sessionVars
  <2>2. QED BY <1>1, <1>2, <1>3, <1>4, <2>1
<1>6. RcvIdle => UNCHANGED <<buffer, buffersize>> BY DEF RcvIdle, sessionVars
<1>7. UNCHANGED rcvVars => UNCHANGED <<buffer, buffersize>> BY DEF rcvVars, sessionVars
<1>8. QED BY <1>1, <1>5, <1>6, <1>7 DEF Next, RcvNext, PortClosed, vars

-----------------------------------------------------------------------------
(* Steps of the sender *)

\* A packet sent again is the one its place stands for.
LEMMA ResendSeq ==
    ASSUME NEW p \in Senders, SenderHolds(p), NEW s \in head[p]..tail[p]
    PROVE  Resend(p, s).seq = s
BY DEF SenderHolds, Resend

\* Shifting by n keeps the packets the window still holds and adds the next n.
LEMMA ShiftedHolds ==
    ASSUME TypeOK, NEW p \in Senders, SenderHolds(p), seq[p] = tail[p] + 1,
           tail[p] < head[p] + WINDOW_SIZE,
           NEW h \in Int, head[p] <= h, h <= tail[p] + 1, NEW n \in 1..(h - head[p]),
           NEW buf,
           NEW s \in h..(tail[p] + n)
    PROVE  Shifted(p, buf, n)[Slot(s)].seq = s
<1> DEFINE Stored(x) == {k \in 1..n : Slot(tail[p] + k) = x}
           Pkt(k) == [seq |-> seq[p] + k - 1,
                      data |-> BufAfter(p, buf, seq[p], seq[p] + k - 1)]
           Last(x) == CHOOSE k \in Stored(x) : \A y \in Stored(x) : y <= k
           Cont(x) == IF Stored(x) = {} THEN ncpWindow[p][x] ELSE Pkt(Last(x))
<1>0. head[p] \in Nat /\ tail[p] \in Nat /\ WINDOW_SIZE \in Nat
  BY NetAssumption DEF TypeOK, NcpTypeOK
<1>1. Slot(s) \in Slots BY SlotType, <1>0
<1>2. Shifted(p, buf, n)[Slot(s)] = Cont(Slot(s)) BY <1>1 DEF Shifted
<1>3. CASE s <= tail[p]
  <2>1. ASSUME NEW k \in 1..n PROVE Slot(tail[p] + k) # Slot(s)
    <3>1. /\ s \in Int /\ tail[p] + k \in Int /\ s < tail[p] + k
          /\ tail[p] + k < s + WINDOW_SIZE
      BY <1>0, <1>3
    <3>2. QED BY <3>1, SlotInjective
  <2>2. Stored(Slot(s)) = {} BY <2>1
  <2>3. ncpWindow[p][Slot(s)].seq = s BY <1>0, <1>3 DEF SenderHolds
  <2> HIDE DEF Stored
  <2>4. QED BY <1>2, <2>2, <2>3
<1>4. CASE s > tail[p]
  <2> DEFINE j == s - tail[p]
  <2>1. j \in 1..n /\ tail[p] + j = s BY <1>0, <1>4
  <2>2. ASSUME NEW k \in 1..n, Slot(tail[p] + k) = Slot(s) PROVE k = j
    <3>1. tail[p] + k \in Int /\ s \in Int BY <1>0
    <3>2. n <= WINDOW_SIZE BY <1>0
    <3>3. CASE tail[p] + k <= s
      <4>1. s < tail[p] + k + WINDOW_SIZE BY <1>0, <3>2
      <4>2. tail[p] + k = s BY <2>2, <3>1, <3>3, <4>1, SlotInjective
      <4>3. QED BY <1>0, <4>2
    <3>4. CASE s <= tail[p] + k
      <4>1. tail[p] + k < s + WINDOW_SIZE BY <1>0, <1>4, <3>2
      <4>2. s = tail[p] + k BY <2>2, <3>1, <3>4, <4>1, SlotInjective
      <4>3. QED BY <1>0, <4>2
    <3>5. QED BY <1>0, <3>3, <3>4
  <2>3. Stored(Slot(s)) = {j} BY <2>1, <2>2
  <2> HIDE DEF Stored
  <2>4. Last(Slot(s)) = j BY <2>1, <2>3
  <2>5. Pkt(j).seq = s BY <1>0, <2>1
  <2> HIDE DEF Last, Pkt
  <2>6. QED BY <1>2, <2>3, <2>4, <2>5
<1>5. QED BY <1>0, <1>3, <1>4

\* The types the arithmetic of the windows needs.
LEMMA WindowTypes ==
    ASSUME TypeOK, NEW p \in Senders
    PROVE  /\ head[p] \in Nat /\ tail[p] \in Nat /\ C_ack \in Nat /\ WINDOW_SIZE \in Nat
           /\ WINDOW_SIZE > 0
           /\ phase \in [Senders -> {"connecting", "sending", "exited"}]
           /\ \A m \in toRcv : m.seq \in Int
           /\ \A m \in toNcp : m.cack \in Int /\ m.nack \in NackArray
<1>1. NetTypeOK /\ NcpTypeOK /\ RcvTypeOK BY DEF TypeOK
<1>2. /\ head[p] \in Nat /\ tail[p] \in Nat
      /\ phase \in [Senders -> {"connecting", "sending", "exited"}]
  BY <1>1 DEF NcpTypeOK
<1>3. C_ack \in Nat BY <1>1 DEF RcvTypeOK
<1>4. WINDOW_SIZE \in Nat /\ WINDOW_SIZE > 0 BY NetAssumption
<1>5. \A m \in toRcv : m.seq \in Int BY <1>1 DEF NetTypeOK, ToRcvMsg
<1>6. \A m \in toNcp : m.cack \in Int /\ m.nack \in NackArray BY <1>1 DEF NetTypeOK, ToNcpMsg
<1>7. QED BY <1>2, <1>3, <1>4, <1>5, <1>6

\* Every step of a sender keeps the windows consistent.
LEMMA NcpStepWindows ==
    ASSUME SessionInv, NEW p \in Senders, NcpNext(p), UNCHANGED rcvVars
    PROVE  WhileConnecting(p)' /\ WhileSending(p)'
<1>1. WhileConnecting(p) /\ WhileSending(p) /\ TypeOK BY DEF SessionInv
<1>0. /\ head[p] \in Nat /\ tail[p] \in Nat /\ C_ack \in Nat /\ WINDOW_SIZE \in Nat
      /\ WINDOW_SIZE > 0
      /\ phase \in [Senders -> {"connecting", "sending", "exited"}]
      /\ \A m \in toRcv : m.seq \in Int
      /\ \A m \in toNcp : m.cack \in Int /\ m.nack \in NackArray
  BY <1>1, WindowTypes
<1>2. UNCHANGED <<hassender, current, C_ack, buffer, rcvWindow>> BY DEF rcvVars, sessionVars
<1>3. Taken' = Taken BY <1>2 DEF Taken
<1>a. ASSUME phase'[p] = "exited"
      PROVE  WhileConnecting(p)' /\ WhileSending(p)'
  BY <1>a DEF WhileConnecting, WhileSending
\* A resent packet is of the window, and nothing else changes.
<1>b. ASSUME phase[p] = "sending", UNCHANGED <<phase, head, tail, seq, ncpWindow>>,
             toNcp' \subseteq toNcp,
             NEW asked, asked \subseteq head[p]..tail[p],
             toRcv' \subseteq toRcv \cup {Resend(p, s) : s \in asked}
      PROVE  WhileConnecting(p)' /\ WhileSending(p)'
  <2>1. /\ hassender /\ current = p /\ seq[p] = tail[p] + 1
        /\ DatagramsInWindow(p) /\ WindowsOverlap(p)
        /\ SenderHolds(p) /\ ReceiverHolds(p)
    BY <1>1, <1>b DEF WhileSending
  <2>2. \A s \in asked : Resend(p, s).seq = s BY <1>b, <2>1, ResendSeq
  <2>3. DatagramsInWindow(p)'
    <3>1. \A m \in toRcv : m.src = p => 0 <= m.seq /\ m.seq <= tail[p]
      BY <2>1 DEF DatagramsInWindow
    <3>2. \A s \in asked : 0 <= Resend(p, s).seq /\ Resend(p, s).seq <= tail[p]
      BY <1>0, <1>b, <2>2
    <3>3. \A m \in toRcv' : m.src = p => 0 <= m.seq /\ m.seq <= tail'[p]
      BY <1>b, <3>1, <3>2
    <3>4. \A m \in toNcp' : m.dst = p => m.cack <= C_ack' BY <1>2, <1>b, <2>1 DEF DatagramsInWindow
    <3>5. QED BY <3>3, <3>4 DEF DatagramsInWindow
  <2>4. WindowsOverlap(p)' /\ SenderHolds(p)' /\ ReceiverHolds(p)'
    BY <1>2, <1>b, <2>1 DEF WindowsOverlap, SenderHolds, ReceiverHolds
  <2>5. WhileSending(p)' BY <1>2, <1>b, <2>1, <2>3, <2>4 DEF WhileSending
  <2>6. WhileConnecting(p)' BY <1>b DEF WhileConnecting
  <2>7. QED BY <2>5, <2>6
\* Another file name goes out, and nothing else changes.
<1>c. ASSUME phase[p] = "connecting", UNCHANGED <<phase, head, tail>>,
             toNcp' \subseteq toNcp, NEW buf, toRcv' \subseteq toRcv \cup {FilenameMsg(p, buf)}
      PROVE  WhileConnecting(p)' /\ WhileSending(p)'
  <2>1. FilenameMsg(p, buf).seq = 0 BY DEF FilenameMsg
  <2>2. \A m \in toRcv' : m.src = p => m.seq = 0 BY <1>1, <1>c, <2>1 DEF WhileConnecting
  <2>3. WhileConnecting(p)' BY <1>1, <1>2, <1>3, <1>c, <2>2 DEF WhileConnecting
  <2>4. WhileSending(p)' BY <1>c DEF WhileSending
  <2>5. QED BY <2>3, <2>4
<1>4. CASE SendFilename(p)
  <2>1. toRcv' \subseteq toRcv \cup {FilenameMsg(p, ncpBuf[p])}
    BY <1>4, SentToRcvType DEF SendFilename
  <2>2. phase[p] = "connecting" /\ UNCHANGED <<phase, head, tail>> /\ toNcp' \subseteq toNcp
    BY <1>4 DEF SendFilename, ncpVars
  <2>3. QED BY <2>1, <2>2, <1>c
<1>5. CASE TimeoutFinish(p)
  BY <1>0, <1>5, <1>a DEF TimeoutFinish, Exit
<1>6. CASE Timeout(p)
  <2>1. /\ phase[p] = "sending" /\ UNCHANGED <<phase, head, tail, seq, ncpWindow>>
        /\ toNcp' \subseteq toNcp
    BY <1>6 DEF Timeout, ncpVars
  <2>2. toRcv' \subseteq toRcv \cup {Resend(p, s) : s \in head[p]..tail[p]}
    BY <1>6, SentToRcvType DEF Timeout
  <2>3. QED BY <2>1, <2>2, <1>b
<1>7. ASSUME NEW m \in toNcp, NcpRecv(p, m)
      PROVE  WhileConnecting(p)' /\ WhileSending(p)'
  <2>0. toNcp' \subseteq toNcp
    <3>1. toNcp' \in Consumed(toNcp, m)
      BY <1>7 DEF NcpRecv, RecvDecline, RecvAccept, RecvFinish, RecvStale, RecvNack,
                  RecvAckAtEof, RecvAck
    <3>2. QED BY <3>1, ConsumedType
  <2>1. CASE RecvDecline(p, m)
    <3>1. toRcv' \subseteq toRcv \cup {FilenameMsg(p, Echoed(p))}
      BY <2>1, SentToRcvType DEF RecvDecline
    <3>2. phase[p] = "connecting" /\ UNCHANGED <<phase, head, tail>> BY <2>1 DEF RecvDecline
    <3>3. QED BY <2>0, <3>1, <3>2, <1>c
  <2>2. CASE RecvAccept(p, m)
    <3> DEFINE filled(n) == BufAfter(p, Echoed(p), 1, n)
    <3>1. /\ phase[p] = "connecting" /\ phase'[p] = "sending"
          /\ head' = head /\ tail' = tail /\ seq'[p] = WINDOW_SIZE + 1
      BY <1>0, <2>2 DEF RecvAccept, SessionInv, TypeOK, NcpTypeOK
    <3>2. /\ head[p] = 1 /\ tail[p] = WINDOW_SIZE /\ C_ack = 0 /\ Taken = {}
          /\ hassender /\ current = p
          /\ \A x \in toRcv : x.src = p => x.seq = 0
          /\ \A x \in toNcp : x.dst = p => x.cack <= 0
      <4>1. m.dst = p /\ m.cack = 0 BY <2>2 DEF RecvAccept
      <4>2. m.cack >= 0 BY <4>1
      <4>3. hassender /\ current = p BY <1>1, <1>7, <3>1, <4>1, <4>2 DEF WhileConnecting
      <4>4. QED BY <1>0, <1>1, <3>1, <4>3 DEF WhileConnecting
    <3>3. \A x \in toRcv' : x.src = p => 0 <= x.seq /\ x.seq <= WINDOW_SIZE
      <4>1. toRcv' \subseteq toRcv \cup {FilenameMsg(p, Echoed(p))}
                     \cup {FirstSend(p, n, filled(n)) : n \in 1..WINDOW_SIZE}
        BY <2>2, SentToRcvType DEF RecvAccept
      <4> HIDE DEF filled
      <4>2. FilenameMsg(p, Echoed(p)).seq = 0 BY DEF FilenameMsg
      <4>3. \A n \in 1..WINDOW_SIZE : FirstSend(p, n, filled(n)).seq = n BY DEF FirstSend
      <4>4. QED BY <1>0, <3>2, <4>1, <4>2, <4>3
    <3>4. DatagramsInWindow(p)'
      BY <1>0, <1>2, <2>0, <3>1, <3>2, <3>3 DEF DatagramsInWindow
    <3>5. WindowsOverlap(p)' BY <1>0, <1>2, <3>1, <3>2 DEF WindowsOverlap
    <3>6. SenderHolds(p)'
      <4>1. ASSUME NEW s \in 1..WINDOW_SIZE PROVE ncpWindow'[p][Slot(s)].seq = s
        <5>1. Slot(s) = IF s = WINDOW_SIZE THEN 0 ELSE s BY <1>0 DEF Slot
        <5>2. Slot(s) \in Slots BY SlotType
        <5>3. ncpWindow'[p][Slot(s)].seq = IF Slot(s) = 0 THEN WINDOW_SIZE ELSE Slot(s)
          BY <2>2, <5>2 DEF RecvAccept, SessionInv, TypeOK, NcpTypeOK
        <5>4. QED BY <1>0, <5>1, <5>3
      <4>2. QED BY <3>1, <3>2, <4>1 DEF SenderHolds
    <3>7. ReceiverHolds(p)'
      <4>1. \A s \in Int : buffer[Slot(s)] = 0
        BY <3>2, SlotType DEF Taken, SessionInv, TypeOK, RcvTypeOK
      <4>2. QED BY <1>0, <1>2, <4>1 DEF ReceiverHolds
    <3>8. WhileSending(p)'
      BY <1>2, <3>1, <3>2, <3>4, <3>5, <3>6, <3>7 DEF WhileSending
    <3>9. WhileConnecting(p)' BY <3>1 DEF WhileConnecting
    <3>10. QED BY <3>8, <3>9
  <2>3. CASE RecvFinish(p, m)
    BY <1>0, <2>3, <1>a DEF RecvFinish, Exit
  <2>4. CASE RecvStale(p, m)
    <3>1. /\ phase[p] = "sending" /\ UNCHANGED <<phase, head, tail, seq, ncpWindow>>
          /\ toRcv' \subseteq toRcv \cup {Resend(p, s) : s \in {}}
      BY <2>4 DEF RecvStale
    <3>2. {} \subseteq head[p]..tail[p] OBVIOUS
    <3>3. QED BY <2>0, <3>1, <3>2, <1>b
  <2>5. CASE RecvNack(p, m)
    <3>1. /\ phase[p] = "sending" /\ UNCHANGED <<phase, head, tail, seq, ncpWindow>>
          /\ toRcv' \subseteq toRcv \cup {Resend(p, s) : s \in Requested(p, m.nack)}
      BY <2>5, SentToRcvType DEF RecvNack
    <3>2. Requested(p, m.nack) \subseteq head[p]..tail[p]
      <4>1. \A k \in 1..NACK_SIZE : m.nack[k] \in Int BY <1>0 DEF NackArray
      <4>2. QED BY <1>0, <4>1 DEF Requested
    <3>3. QED BY <2>0, <3>1, <3>2, <1>b
  <2>6. CASE RecvAckAtEof(p, m)
    <3>1. /\ phase[p] = "sending" /\ UNCHANGED <<phase, tail, seq, ncpWindow, toRcv>>
          /\ m.cack >= head[p] /\ head'[p] = m.cack + 1
      BY <1>0, <2>6 DEF RecvAckAtEof, SessionInv, TypeOK, NcpTypeOK
    <3>2. /\ hassender /\ current = p /\ seq[p] = tail[p] + 1
          /\ DatagramsInWindow(p) /\ WindowsOverlap(p)
          /\ SenderHolds(p) /\ ReceiverHolds(p)
      BY <1>1, <3>1 DEF WhileSending
    <3>3. m.cack \in Int /\ m.cack <= C_ack
      BY <1>0, <2>6, <3>2 DEF DatagramsInWindow, RecvAckAtEof
    <3>4. DatagramsInWindow(p)' BY <1>2, <2>0, <3>1, <3>2 DEF DatagramsInWindow
    <3>5. WindowsOverlap(p)' BY <1>0, <1>2, <3>1, <3>2, <3>3 DEF WindowsOverlap
    <3>6. SenderHolds(p)' BY <1>0, <3>1, <3>2, <3>3 DEF SenderHolds
    <3>7. ReceiverHolds(p)' BY <1>2, <3>1, <3>2 DEF ReceiverHolds
    <3>8. WhileSending(p)'
      BY <1>2, <3>1, <3>2, <3>4, <3>5, <3>6, <3>7 DEF WhileSending
    <3>9. WhileConnecting(p)' BY <3>1 DEF WhileConnecting
    <3>10. QED BY <3>8, <3>9
  <2>7. CASE RecvAck(p, m)
    <3> DEFINE filled(k) == BufAfter(p, Echoed(p), seq[p], seq[p] + k - 1)
    <3>1. /\ phase[p] = "sending" /\ UNCHANGED phase /\ m.cack >= head[p]
      BY <2>7 DEF RecvAck
    <3>2. /\ hassender /\ current = p /\ seq[p] = tail[p] + 1
          /\ DatagramsInWindow(p) /\ WindowsOverlap(p)
          /\ SenderHolds(p) /\ ReceiverHolds(p)
      BY <1>1, <3>1 DEF WhileSending
    <3>3. PICK n \in 1..(m.cack - head[p] + 1) :
            /\ head' = [head EXCEPT ![p] = m.cack + 1]
            /\ tail' = [tail EXCEPT ![p] = @ + n]
            /\ seq' = [seq EXCEPT ![p] = seq[p] + n - 1 + 1]
            /\ ncpWindow' = [ncpWindow EXCEPT ![p] = Shifted(p, Echoed(p), n)]
            /\ SentToRcv({FirstSend(p, seq[p] + k - 1, filled(k)) : k \in 1..n})
      BY <2>7 DEF RecvAck
    <3> HIDE DEF filled
    <3>4. /\ head'[p] = m.cack + 1 /\ tail'[p] = tail[p] + n /\ seq'[p] = seq[p] + n - 1 + 1
          /\ ncpWindow'[p] = Shifted(p, Echoed(p), n)
      BY <3>3, <1>1 DEF TypeOK, NcpTypeOK
    <3>5. m.cack \in Int /\ m.cack <= C_ack
      BY <1>0, <2>7, <3>2 DEF DatagramsInWindow, RecvAck
    <3>6. n \in Nat /\ n <= m.cack - head[p] + 1 BY <1>0, <3>5
    <3>7. WindowsOverlap(p)'
      BY <1>0, <1>2, <3>1, <3>2, <3>4, <3>5, <3>6 DEF WindowsOverlap
    <3>8. \A x \in toRcv' : x.src = p => 0 <= x.seq /\ x.seq <= tail[p] + n
      <4>1. toRcv' \subseteq toRcv \cup {FirstSend(p, seq[p] + k - 1, filled(k)) : k \in 1..n}
        BY <3>3, SentToRcvType
      <4>2. \A x \in toRcv : x.src = p => 0 <= x.seq /\ x.seq <= tail[p]
        BY <3>2 DEF DatagramsInWindow
      <4>3. \A k \in 1..n : FirstSend(p, seq[p] + k - 1, filled(k)).seq = seq[p] + k - 1
        BY DEF FirstSend
      <4>4. \A k \in 1..n : 0 <= seq[p] + k - 1 /\ seq[p] + k - 1 <= tail[p] + n
        BY <1>0, <3>2, <3>6
      <4>5. \A x \in toRcv : x.src = p => 0 <= x.seq /\ x.seq <= tail[p] + n
        BY <1>0, <3>6, <4>2
      <4>6. QED BY <4>1, <4>3, <4>4, <4>5
    <3>9. DatagramsInWindow(p)'
      BY <1>2, <2>0, <3>2, <3>4, <3>8 DEF DatagramsInWindow
    <3>10. SenderHolds(p)'
      <4> DEFINE h == m.cack + 1
      <4>1. h \in Int /\ h = m.cack + 1 BY <3>5
      <4> HIDE DEF h
      <4>2. /\ head[p] <= h /\ h <= tail[p] + 1 /\ n \in 1..(h - head[p])
            /\ tail[p] < head[p] + WINDOW_SIZE
        BY <1>0, <3>1, <3>2, <3>5, <3>6, <4>1 DEF WindowsOverlap
      <4>3. ASSUME NEW s \in h..(tail[p] + n)
            PROVE  Shifted(p, Echoed(p), n)[Slot(s)].seq = s
        BY <1>1, <3>2, <4>1, <4>2, ShiftedHolds
      <4>4. head'[p] = h /\ tail'[p] = tail[p] + n BY <3>4, <4>1
      <4>5. QED BY <3>4, <4>3, <4>4 DEF SenderHolds
    <3>11. ReceiverHolds(p)'
      <4>1. tail[p] <= tail'[p] /\ tail'[p] \in Nat BY <1>0, <3>4, <3>6
      <4>2. \A s \in Int : s <= tail[p] => s <= tail'[p] BY <1>0, <4>1
      <4>3. /\ buffer[Slot(C_ack + 1)] = 0
            /\ \A s \in (C_ack + 2)..(C_ack + WINDOW_SIZE) :
                  buffer[Slot(s)] = 1 => rcvWindow[Slot(s)].seq = s /\ s <= tail'[p]
        BY <1>0, <3>2, <4>2 DEF ReceiverHolds
      <4>4. QED BY <1>2, <4>3 DEF ReceiverHolds
    <3>12. seq'[p] = tail'[p] + 1 BY <1>0, <3>2, <3>4, <3>6
    <3>13. WhileSending(p)'
      BY <1>2, <3>1, <3>2, <3>7, <3>9, <3>10, <3>11, <3>12 DEF WhileSending
    <3>14. WhileConnecting(p)' BY <3>1 DEF WhileConnecting
    <3>15. QED BY <3>13, <3>14
  <2>8. QED BY <1>7, <2>1, <2>2, <2>3, <2>4, <2>5, <2>6, <2>7 DEF NcpRecv
<1>8. QED BY <1>4, <1>5, <1>6, <1>7 DEF NcpNext

\* What a step of one sender leaves alone: all that is another's.
LEMMA NcpTouches ==
    ASSUME TypeOK, NEW q \in Senders, NcpNext(q)
    PROVE  /\ toNcp' \subseteq toNcp
           /\ \A x \in toRcv' : x \in toRcv \/ x.src = q
           /\ \A p \in Senders : p # q =>
                /\ phase'[p] = phase[p] /\ head'[p] = head[p] /\ tail'[p] = tail[p]
                /\ seq'[p] = seq[p] /\ ncpBuf'[p] = ncpBuf[p] /\ ncpWindow'[p] = ncpWindow[p]
<1>1. \A s : Resend(q, s).src = q BY DEF Resend
<1>2. \A buf : FilenameMsg(q, buf).src = q /\ FinMsg(q, buf).src = q BY DEF FilenameMsg, FinMsg
<1>3. \A n, buf : FirstSend(q, n, buf).src = q BY DEF FirstSend
<1>a. ASSUME NEW burst, SentToRcv(burst), \A x \in burst : x.src = q
      PROVE  \A x \in toRcv' : x \in toRcv \/ x.src = q
  BY <1>a, SentToRcvType
<1>4. CASE SendFilename(q)
  <2>1. \A x \in {FilenameMsg(q, ncpBuf[q])} : x.src = q BY <1>2
  <2>2. QED BY <1>4, <1>a, <2>1 DEF SendFilename, ncpVars
<1>b. ASSUME NEW buf, Exit(q, buf)
      PROVE  /\ \A x \in toRcv' : x \in toRcv \/ x.src = q
             /\ \A p \in Senders : p # q =>
                  /\ phase'[p] = phase[p] /\ head'[p] = head[p] /\ tail'[p] = tail[p]
                  /\ seq'[p] = seq[p] /\ ncpBuf'[p] = ncpBuf[p] /\ ncpWindow'[p] = ncpWindow[p]
  <2>1. \A x \in {FinMsg(q, buf)} : x.src = q BY <1>2
  <2>2. QED BY <1>a, <1>b, <2>1 DEF Exit, TypeOK, NcpTypeOK
<1>5. CASE TimeoutFinish(q) BY <1>5, <1>b DEF TimeoutFinish
<1>6. CASE Timeout(q)
  <2>1. \A x \in {Resend(q, s) : s \in head[q]..tail[q]} : x.src = q BY <1>1
  <2>2. QED BY <1>6, <1>a, <2>1 DEF Timeout, ncpVars
<1>7. ASSUME NEW m \in toNcp, NcpRecv(q, m)
      PROVE  /\ toNcp' \subseteq toNcp
             /\ \A x \in toRcv' : x \in toRcv \/ x.src = q
             /\ \A p \in Senders : p # q =>
                  /\ phase'[p] = phase[p] /\ head'[p] = head[p] /\ tail'[p] = tail[p]
                  /\ seq'[p] = seq[p] /\ ncpBuf'[p] = ncpBuf[p] /\ ncpWindow'[p] = ncpWindow[p]
  <2>0. toNcp' \subseteq toNcp
    <3>1. toNcp' \in Consumed(toNcp, m)
      BY <1>7 DEF NcpRecv, RecvDecline, RecvAccept, RecvFinish, RecvStale, RecvNack,
                  RecvAckAtEof, RecvAck
    <3>2. QED BY <3>1, ConsumedType
  <2>1. CASE RecvDecline(q, m)
    <3>1. \A x \in {FilenameMsg(q, Echoed(q))} : x.src = q BY <1>2
    <3>2. \A x \in toRcv' : x \in toRcv \/ x.src = q BY <2>1, <1>a, <3>1 DEF RecvDecline
    <3>3. QED BY <2>0, <2>1, <3>2 DEF RecvDecline, TypeOK, NcpTypeOK
  <2>2. CASE RecvAccept(q, m)
    <3> DEFINE filled(n) == BufAfter(q, Echoed(q), 1, n)
               first == {FirstSend(q, n, filled(n)) : n \in 1..WINDOW_SIZE}
    <3>1. \A x \in first : x.src = q
      <4> HIDE DEF filled
      <4>1. QED BY <1>3
    <3>2. SentToRcv({FilenameMsg(q, Echoed(q))} \cup first) BY <2>2 DEF RecvAccept
    <3> HIDE DEF first
    <3>3. \A x \in {FilenameMsg(q, Echoed(q))} \cup first : x.src = q BY <1>2, <3>1
    <3>4. \A x \in toRcv' : x \in toRcv \/ x.src = q BY <1>a, <3>2, <3>3
    <3>5. QED BY <2>0, <2>2, <3>4 DEF RecvAccept, TypeOK, NcpTypeOK
  <2>3. CASE RecvFinish(q, m) BY <2>0, <2>3, <1>b DEF RecvFinish
  <2>4. CASE RecvStale(q, m) BY <2>0, <2>4 DEF RecvStale, TypeOK, NcpTypeOK
  <2>5. CASE RecvNack(q, m)
    <3>1. \A x \in {Resend(q, s) : s \in Requested(q, m.nack)} : x.src = q BY <1>1
    <3>2. \A x \in toRcv' : x \in toRcv \/ x.src = q BY <2>5, <1>a, <3>1 DEF RecvNack
    <3>3. QED BY <2>0, <2>5, <3>2 DEF RecvNack, TypeOK, NcpTypeOK
  <2>6. CASE RecvAckAtEof(q, m) BY <2>0, <2>6 DEF RecvAckAtEof, TypeOK, NcpTypeOK
  <2>7. CASE RecvAck(q, m)
    <3> DEFINE filled(k) == BufAfter(q, Echoed(q), seq[q], seq[q] + k - 1)
               more(n) == {FirstSend(q, seq[q] + k - 1, filled(k)) : k \in 1..n}
    <3>1. PICK n \in 1..(m.cack - head[q] + 1) :
            /\ head' = [head EXCEPT ![q] = m.cack + 1]
            /\ tail' = [tail EXCEPT ![q] = @ + n]
            /\ seq' = [seq EXCEPT ![q] = seq[q] + n - 1 + 1]
            /\ ncpBuf' = [ncpBuf EXCEPT ![q] = filled(n)]
            /\ ncpWindow' = [ncpWindow EXCEPT ![q] = Shifted(q, Echoed(q), n)]
            /\ SentToRcv(more(n))
      BY <2>7 DEF RecvAck
    <3>2. \A x \in more(n) : x.src = q
      <4> HIDE DEF filled
      <4>1. QED BY <1>3
    <3> HIDE DEF more, filled
    <3>3. \A x \in toRcv' : x \in toRcv \/ x.src = q BY <1>a, <3>1, <3>2
    <3>4. phase' = phase BY <2>7 DEF RecvAck
    <3>5. QED BY <2>0, <3>1, <3>3, <3>4 DEF TypeOK, NcpTypeOK
  <2>8. QED BY <1>7, <2>1, <2>2, <2>3, <2>4, <2>5, <2>6, <2>7 DEF NcpRecv
<1>8. QED BY <1>4, <1>5, <1>6, <1>7 DEF NcpNext, SendFilename, TimeoutFinish, Timeout, ncpVars

\* Nor does it disturb what holds of another.
LEMMA OtherStepWindows ==
    ASSUME SessionInv, NEW p \in Senders, NEW q \in Senders, p # q, NcpNext(q),
           UNCHANGED rcvVars
    PROVE  WhileConnecting(p)' /\ WhileSending(p)'
<1>1. WhileConnecting(p) /\ WhileSending(p) /\ TypeOK BY DEF SessionInv
<1>2. /\ toNcp' \subseteq toNcp
      /\ \A x \in toRcv' : x.src = p => x \in toRcv
      /\ phase'[p] = phase[p] /\ head'[p] = head[p] /\ tail'[p] = tail[p]
      /\ seq'[p] = seq[p] /\ ncpWindow'[p] = ncpWindow[p]
  BY <1>1, NcpTouches
<1>3. UNCHANGED <<hassender, current, C_ack, buffer, rcvWindow>> BY DEF rcvVars, sessionVars
<1>4. Taken' = Taken BY <1>3 DEF Taken
<1>5. WhileConnecting(p)' BY <1>1, <1>2, <1>3, <1>4 DEF WhileConnecting
<1>6. WhileSending(p)'
  <2>1. DatagramsInWindow(p) => DatagramsInWindow(p)' BY <1>2, <1>3 DEF DatagramsInWindow
  <2>2. WindowsOverlap(p) => WindowsOverlap(p)' BY <1>2, <1>3 DEF WindowsOverlap
  <2>3. SenderHolds(p) => SenderHolds(p)' BY <1>2 DEF SenderHolds
  <2>4. ReceiverHolds(p) => ReceiverHolds(p)' BY <1>2, <1>3 DEF ReceiverHolds
  <2>5. QED BY <1>1, <1>2, <1>3, <2>1, <2>2, <2>3, <2>4 DEF WhileSending
<1>7. QED BY <1>5, <1>6

-----------------------------------------------------------------------------
(* Steps of the receiver *)

\* A reply is the handler's or acknowledges C_ack.
LEMMA ReplyCack ==
    ASSUME NEW replies, NEW nack, NEW due \in BOOLEAN, Reply(replies, nack, due)
    PROVE  \A x \in toNcp' : x \in toNcp \/ x \in replies \/ x.cack = C_ack'
<1> DEFINE ack == [dst |-> from', cack |-> C_ack', nack |-> TimedNack(C_ack')]
<1>1. PICK timed \in BOOLEAN : SentToNcp(IF timed THEN replies \cup {ack} ELSE replies)
  BY DEF Reply
<1>2. ack.cack = C_ack' OBVIOUS
<1> HIDE DEF ack
<1>3. toNcp' \subseteq toNcp \cup (IF timed THEN replies \cup {ack} ELSE replies)
  BY <1>1, SentToNcpType
<1>4. QED BY <1>2, <1>3

\* The same of a turn without a reply.
LEMMA AckOnly ==
    ASSUME NEW none, none = {}, NEW nack, Reply(none, nack, TRUE)
    PROVE  \A x \in toNcp' : x \in toNcp \/ x.cack = C_ack'
<1>1. \A x \in toNcp' : x \in toNcp \/ x \in none \/ x.cack = C_ack' BY ReplyCack
<1>2. QED BY <1>1

\* What a step of the receiver takes off the network is all it does to toRcv.
LEMMA RcvTakes ==
    ASSUME RcvNext
    PROVE  toRcv' \subseteq toRcv
<1>1. CASE RcvIdle BY <1>1 DEF RcvIdle
<1>2. ASSUME NEW m \in toRcv, RcvRecv(m) PROVE toRcv' \subseteq toRcv
  <2>1. Take(m)
    BY <1>2 DEF RcvRecv, RcvStray, RcvOpen, RcvOpenFails, RcvDecline, RcvClose,
                RcvInOrder, RcvEarly, RcvDrop
  <2>2. toRcv' \in Consumed(toRcv, m) BY <2>1 DEF Take
  <2>3. QED BY <2>2, ConsumedType
<1>3. QED BY <1>1, <1>2 DEF RcvNext

\* While the sender waits for its answer the receiver at most opens a session for it.
LEMMA RcvStepConnecting ==
    ASSUME SessionInv, NoneAstray, RcvNext, UNCHANGED ncpVars,
           NEW p \in Senders, phase[p] = "connecting"
    PROVE  WhileConnecting(p)'
<1>1. WhileConnecting(p) /\ TypeOK BY DEF SessionInv
<1>2. /\ head[p] = 1 /\ tail[p] = WINDOW_SIZE
      /\ hassender /\ current = p => C_ack = 0 /\ Taken = {}
      /\ \A m \in toRcv : m.src = p => m.seq = 0
      /\ \A m \in toNcp : m.dst = p /\ m.cack >= 0 => m.cack = 0 /\ hassender /\ current = p
  BY <1>1 DEF WhileConnecting
<1>3. head' = head /\ tail' = tail /\ phase' = phase BY DEF ncpVars
<1>4. \A m \in toRcv' : m.src = p => m.seq = 0 BY <1>2, RcvTakes
\* A session of its own goes on, and one that opens for it is new.
<1>a. ASSUME hassender /\ current = p => hassender' /\ current' = p,
             hassender' /\ current' = p =>
               /\ C_ack' = 0 /\ Taken' = {}
               /\ \A x \in toNcp' : x \in toNcp \/ x.cack = 0 \/ x.cack = -1
      PROVE  WhileConnecting(p)'
  <2>1. ASSUME NEW x \in toNcp', x.dst = p, x.cack >= 0
        PROVE  x.cack = 0 /\ hassender' /\ current' = p
    <3>1. CASE x \in toNcp BY <1>2, <1>a, <2>1, <3>1
    <3>2. CASE x \notin toNcp
      <4>1. hassender' /\ current' = p BY <2>1, <3>2 DEF NoneAstray, Misleading
      <4>2. QED BY <1>a, <2>1, <3>2, <4>1
    <3>3. QED BY <3>1, <3>2
  <2>2. QED BY <1>2, <1>3, <1>4, <1>a, <2>1 DEF WhileConnecting
\* The session, whose ever it is, goes on, and at most C_ack is acknowledged.
<1>b. ASSUME hassender, UNCHANGED <<hassender, current, sessionVars>>, NEW nack,
             NEW replies, \A x \in replies : x.cack = -1, NEW due \in BOOLEAN,
             Reply(replies, nack, due)
      PROVE  WhileConnecting(p)'
  <2>1. ASSUME hassender' /\ current' = p
        PROVE  /\ C_ack' = 0 /\ Taken' = {}
               /\ \A x \in toNcp' : x \in toNcp \/ x.cack = 0 \/ x.cack = -1
    <3>1. C_ack' = 0 /\ buffer' = buffer BY <1>2, <1>b, <2>1 DEF sessionVars
    <3>2. Taken' = {} BY <1>2, <1>b, <2>1, <3>1 DEF Taken
    <3>3. \A x \in toNcp' : x \in toNcp \/ x \in replies \/ x.cack = C_ack'
      BY <1>b, ReplyCack
    <3>4. QED BY <1>b, <3>1, <3>2, <3>3
  <2>2. QED BY <1>a, <1>b, <2>1
\* That of another goes on or ends.
<1>c. ASSUME hassender, current # p, current' = current PROVE WhileConnecting(p)'
  BY <1>a, <1>c
<1>5. CASE RcvIdle
  <2>1. Reply({}, echoNack, TRUE) /\ hassender /\ UNCHANGED <<hassender, current, sessionVars>>
    BY <1>5 DEF RcvIdle
  <2>2. QED BY <2>1, <1>b
<1>6. ASSUME NEW m \in toRcv, RcvRecv(m) PROVE WhileConnecting(p)'
  <2>0. m.src = p => m.seq = 0 BY <1>2
  <2>1. CASE RcvOpen(m)
    <3>1. ~hassender /\ C_ack' = 0 /\ Reply({To(m, 0, echoNack)}, echoNack, FALSE)
      BY <2>1 DEF RcvOpen
    <3>2. \A x \in toNcp' : x \in toNcp \/ x \in {To(m, 0, echoNack)} \/ x.cack = C_ack'
      BY <3>1, ReplyCack
    <3>3. To(m, 0, echoNack).cack = 0 BY DEF To
    <3>4. \A x \in toNcp' : x \in toNcp \/ x.cack = 0 BY <3>1, <3>2, <3>3
    <3>5. \A s \in Slots : buffer'[s] = 0 BY <2>1 DEF RcvOpen
    <3>6. Taken' = {} BY <3>5 DEF Taken
    <3>7. QED BY <3>1, <3>4, <3>6, <1>a
  <2>2. CASE RcvOpenFails(m) \/ RcvStray(m)
    <3>1. ~hassender /\ ~hassender' BY <2>2 DEF RcvOpenFails, RcvStray
    <3>2. QED BY <3>1, <1>a
  <2>3. CASE RcvDrop(m)
    <3>1. /\ Reply({}, echoNack, TRUE) /\ hassender
          /\ UNCHANGED <<hassender, current, sessionVars>>
      BY <2>3 DEF RcvDrop, FromCurrent
    <3>2. QED BY <3>1, <1>b
  <2>4. CASE RcvDecline(m)
    <3>1. /\ Reply({To(m, -1, echoNack)}, echoNack, FALSE) /\ hassender
          /\ UNCHANGED <<hassender, current, sessionVars>>
      BY <2>4 DEF RcvDecline
    <3>2. \A x \in {To(m, -1, echoNack)} : x.cack = -1 BY DEF To
    <3>3. QED BY <3>1, <3>2, <1>b
  <2>5. CASE RcvClose(m) \/ RcvInOrder(m) \/ RcvEarly(m)
    <3>1. hassender /\ m.src = current /\ current' = current
      BY <2>5 DEF RcvClose, RcvInOrder, RcvEarly, FromCurrent
    <3>2. CASE current = p
      <4>1. m.seq = 0 /\ C_ack = 0 BY <1>2, <2>0, <3>1, <3>2
      <4>2. QED BY <2>5, <4>1 DEF RcvClose, RcvInOrder, RcvEarly, Early
    <3>3. QED BY <3>1, <3>2, <1>c
  <2>6. QED BY <1>6, <2>1, <2>2, <2>3, <2>4, <2>5 DEF RcvRecv
<1>7. QED BY <1>5, <1>6 DEF RcvNext

\* An early packet is kept in a slot that is not the expected packet's.
LEMMA EarlyHolds ==
    ASSUME SessionInv, NEW p \in Senders, phase[p] = "sending", UNCHANGED ncpVars,
           NEW m \in toRcv, RcvEarly(m)
    PROVE  ReceiverHolds(p)'
<1>1. TypeOK /\ WhileSending(p) BY DEF SessionInv
<1>2. DatagramsInWindow(p) /\ WindowsOverlap(p) /\ ReceiverHolds(p) BY <1>1 DEF WhileSending
<1>3. /\ tail[p] \in Nat /\ head[p] \in Nat /\ C_ack \in Nat /\ WINDOW_SIZE \in Nat
      /\ WINDOW_SIZE > 0 /\ m.seq \in Int
  BY <1>1, WindowTypes
<1>4. buffer \in [Slots -> {0, 1}] /\ rcvWindow \in [Slots -> RcvPacket]
  BY <1>1 DEF TypeOK, RcvTypeOK
<1>5. /\ C_ack' = C_ack /\ tail' = tail
      /\ buffer' = [buffer EXCEPT ![Slot(m.seq)] = 1]
      /\ rcvWindow' = [rcvWindow EXCEPT ![Slot(m.seq)] = [seq |-> m.seq, data |-> Received(m)]]
  BY DEF RcvEarly, ncpVars
<1>6. C_ack + 2 <= m.seq /\ m.seq <= tail[p] /\ m.seq <= C_ack + WINDOW_SIZE
  <2>1. C_ack + 2 <= m.seq BY <1>3 DEF RcvEarly, Early
  <2>2. m.src = p BY <1>1 DEF WhileSending, RcvEarly, FromCurrent
  <2>3. m.seq <= tail[p] BY <1>2, <2>2 DEF DatagramsInWindow
  <2>4. QED BY <1>2, <1>3, <2>1, <2>3 DEF WindowsOverlap
<1>7. buffer'[Slot(C_ack + 1)] = 0
  <2>1. Slot(C_ack + 1) # Slot(m.seq)
    <3>1. C_ack + 1 \in Int /\ C_ack + 1 < m.seq /\ m.seq < C_ack + 1 + WINDOW_SIZE
      BY <1>3, <1>6
    <3>2. QED BY <1>3, <3>1, SlotInjective
  <2>2. buffer[Slot(C_ack + 1)] = 0 BY <1>2 DEF ReceiverHolds
  <2>3. Slot(C_ack + 1) \in Slots BY <1>3, SlotType
  <2>4. QED BY <1>4, <1>5, <2>1, <2>2, <2>3
<1>8. ASSUME NEW s \in (C_ack + 2)..(C_ack + WINDOW_SIZE), buffer'[Slot(s)] = 1
      PROVE  rcvWindow'[Slot(s)].seq = s /\ s <= tail[p]
  <2>1. Slot(s) \in Slots /\ s \in Int BY <1>3, SlotType
  <2>2. CASE Slot(s) = Slot(m.seq)
    <3>1. s = m.seq
      <4>1. s < m.seq + WINDOW_SIZE /\ m.seq < s + WINDOW_SIZE BY <1>3, <1>6
      <4>2. CASE s <= m.seq BY <1>3, <2>1, <2>2, <4>1, <4>2, SlotInjective
      <4>3. CASE m.seq <= s BY <1>3, <2>1, <2>2, <4>1, <4>3, SlotInjective
      <4>4. QED BY <1>3, <2>1, <4>2, <4>3
    <3>2. rcvWindow'[Slot(s)].seq = m.seq BY <1>4, <1>5, <2>1, <2>2
    <3>3. QED BY <1>6, <3>1, <3>2
  <2>3. CASE Slot(s) # Slot(m.seq)
    <3>1. buffer[Slot(s)] = 1 /\ rcvWindow'[Slot(s)] = rcvWindow[Slot(s)]
      BY <1>4, <1>5, <1>8, <2>1, <2>3
    <3>2. QED BY <1>2, <3>1 DEF ReceiverHolds
  <2>4. QED BY <2>2, <2>3
<1>9. QED BY <1>5, <1>7, <1>8 DEF ReceiverHolds

\* The packets drained from the window have been sent, the one expected next is not
\* in it, and what it still holds is in its place.
LEMMA InOrderHolds ==
    ASSUME SessionInv, CounterRight', NEW p \in Senders, phase[p] = "sending",
           UNCHANGED ncpVars, NEW m \in toRcv, RcvInOrder(m)
    PROVE  ReceiverHolds(p)' /\ C_ack' \in Nat /\ C_ack <= C_ack' /\ C_ack' <= tail[p]
<1>1. TypeOK /\ WhileSending(p) BY DEF SessionInv
<1>2. DatagramsInWindow(p) /\ WindowsOverlap(p) /\ ReceiverHolds(p) BY <1>1 DEF WhileSending
<1>3. /\ tail[p] \in Nat /\ head[p] \in Nat /\ C_ack \in Nat /\ WINDOW_SIZE \in Nat
      /\ WINDOW_SIZE > 0 /\ m.seq \in Int
  BY <1>1, WindowTypes
<1>4. /\ buffer \in [Slots -> {0, 1}] /\ rcvWindow \in [Slots -> RcvPacket]
      /\ buffersize \in Nat
  BY <1>1 DEF TypeOK, RcvTypeOK
<1> DEFINE drained(d) == {Slot(C_ack + 1 + j) : j \in 1..d}
<1>5. PICK d \in 0..(WINDOW_SIZE - 1) :
        /\ Drains(C_ack, d)
        /\ C_ack' = C_ack + 1 + d
        /\ buffersize' = buffersize - d
        /\ buffer' = [s \in Slots |-> IF s \in drained(d) THEN 0 ELSE buffer[s]]
        /\ rcvWindow' = [s \in Slots |->
              IF s \in drained(d) THEN [rcvWindow[s] EXCEPT !.data = Bzero(@)]
                                 ELSE rcvWindow[s]]
  BY DEF RcvInOrder
<1>6. tail' = tail /\ m.seq = C_ack + 1 /\ m.seq <= tail[p]
  <2>1. m.src = p BY <1>1 DEF WhileSending, RcvInOrder, FromCurrent
  <2>2. QED BY <1>2, <2>1 DEF RcvInOrder, ncpVars, DatagramsInWindow
<1>7. d \in Int /\ 0 <= d /\ d <= WINDOW_SIZE - 1 BY <1>3
<1>8. \A j \in 1..d : buffer[Slot(C_ack + 1 + j)] = 1 BY <1>5 DEF Drains
<1>9. C_ack' <= tail[p]
  <2>1. CASE d = 0 BY <1>3, <1>5, <1>6, <2>1
  <2>2. CASE d # 0
    <3>1. d \in 1..d /\ C_ack + 1 + d \in (C_ack + 2)..(C_ack + WINDOW_SIZE)
      BY <1>3, <1>7, <2>2
    <3>2. buffer[Slot(C_ack + 1 + d)] = 1 BY <1>8, <3>1
    <3>3. QED BY <1>2, <1>5, <3>1, <3>2 DEF ReceiverHolds
  <2>3. QED BY <2>1, <2>2
<1>10. C_ack' \in Nat /\ C_ack <= C_ack' BY <1>3, <1>5, <1>7
<1>11. \A x \in Slots : /\ x \in drained(d) => buffer'[x] = 0
                        /\ x \notin drained(d) => buffer'[x] = buffer[x]
                                                 /\ rcvWindow'[x] = rcvWindow[x]
  <2> HIDE DEF drained
  <2>1. QED BY <1>5
<1>12. buffer'[Slot(C_ack' + 1)] = 0
  <2>0. /\ C_ack' + 1 = C_ack + 2 + d /\ Slot(C_ack' + 1) \in Slots
    BY <1>3, <1>5, <1>7, <1>10, SlotType
  <2>a. \A x \in Slots : buffer[x] # 1 => buffer'[x] = 0
    <3> HIDE DEF drained
    <3>1. QED BY <1>4, <1>11
  <2>1. CASE d < SearchLimit
    <3>1. buffer[Slot(C_ack + 2 + d)] # 1 BY <1>5, <2>1 DEF Drains
    <3>2. QED BY <2>0, <2>a, <3>1
  <2>2. CASE d = WINDOW_SIZE - 1
    <3>1. C_ack' + 1 = (C_ack + 1) + WINDOW_SIZE /\ C_ack + 1 \in Int BY <1>3, <2>0, <2>2
    <3>2. Slot(C_ack' + 1) = Slot(C_ack + 1) BY <3>1, SlotShift
    <3>3. buffer[Slot(C_ack + 1)] = 0 BY <1>2 DEF ReceiverHolds
    <3>4. QED BY <2>0, <2>a, <3>2, <3>3
  <2>3. CASE d = buffersize
    <3>1. buffersize' = 0 BY <1>4, <1>5, <2>3
    <3>2. Cardinality(Taken') = 0 BY <3>1 DEF CounterRight
    <3>3. IsFiniteSet(Taken')
      <4>1. IsFiniteSet(Slots) BY FS_Interval, NetAssumption DEF Slots
      <4>2. Taken' \subseteq Slots BY DEF Taken
      <4>3. QED BY <4>1, <4>2, FS_Subset
    <3>4. Taken' = {} BY <3>2, <3>3, FS_EmptySet
    <3>5. \A x \in Slots : buffer'[x] # 1 BY <3>4 DEF Taken
    <3>6. \A x \in Slots : buffer'[x] = 0 \/ buffer'[x] = buffer[x]
      <4> HIDE DEF drained
      <4>1. QED BY <1>11
    <3>7. QED BY <1>4, <2>0, <3>5, <3>6
  <2>4. d = SearchLimit \/ d < SearchLimit
    <3>1. d \in 0..SearchLimit BY <1>5 DEF Drains
    <3>2. SearchLimit \in Int BY <1>3, <1>4 DEF SearchLimit
    <3>3. QED BY <1>7, <3>1, <3>2
  <2>5. SearchLimit = buffersize \/ SearchLimit = WINDOW_SIZE - 1 BY DEF SearchLimit
  <2>6. QED BY <2>1, <2>2, <2>3, <2>4, <2>5
<1>13. ASSUME NEW s \in Int, C_ack' + 2 <= s, s <= C_ack' + WINDOW_SIZE, buffer'[Slot(s)] = 1
       PROVE  rcvWindow'[Slot(s)].seq = s /\ s <= tail[p]
  <2>1. Slot(s) \in Slots /\ s \in Int BY SlotType
  <2>2. /\ Slot(s) \notin drained(d) /\ buffer[Slot(s)] = 1
        /\ rcvWindow'[Slot(s)] = rcvWindow[Slot(s)]
    <3> HIDE DEF drained
    <3>1. QED BY <1>11, <1>13, <2>1
  <2>3. CASE s <= C_ack + WINDOW_SIZE
    <3> HIDE DEF drained
    <3>a. C_ack + 2 <= s
      <4> DEFINE c == C_ack'
      <4>1. c \in Nat /\ C_ack <= c /\ c + 2 <= s BY <1>10, <1>13
      <4> HIDE DEF c
      <4>2. QED BY <1>3, <4>1
    <3>1. s \in (C_ack + 2)..(C_ack + WINDOW_SIZE) BY <1>3, <2>1, <2>3, <3>a
    <3>2. QED BY <1>2, <2>2, <3>1 DEF ReceiverHolds
  <2>4. CASE s > C_ack + WINDOW_SIZE
    <3> DEFINE b == s - WINDOW_SIZE
    <3>1. b \in Int /\ b + WINDOW_SIZE = s /\ C_ack + 1 <= b /\ b <= C_ack + 1 + d
      BY <1>3, <1>5, <1>7, <1>13, <2>4
    <3> HIDE DEF b
    <3>2. Slot(s) = Slot(b) BY <3>1, SlotShift
    <3>3. b # C_ack + 1
      <4>1. buffer[Slot(C_ack + 1)] = 0 BY <1>2 DEF ReceiverHolds
      <4>2. QED BY <2>2, <3>2, <4>1
    <3>4. b - C_ack - 1 \in 1..d /\ C_ack + 1 + (b - C_ack - 1) = b
      BY <1>3, <1>7, <3>1, <3>3
    <3>5. Slot(b) \in drained(d) BY <3>4
    <3>6. QED BY <2>2, <3>2, <3>5
  <2>5. QED BY <1>3, <2>1, <2>3, <2>4
<1>14. \A s \in (C_ack' + 2)..(C_ack' + WINDOW_SIZE) :
         buffer'[Slot(s)] = 1 => rcvWindow'[Slot(s)].seq = s /\ s <= tail[p]
  <2> DEFINE c == C_ack'
             Right(s) == buffer'[Slot(s)] = 1 => rcvWindow'[Slot(s)].seq = s /\ s <= tail[p]
  <2>1. c \in Nat /\ \A s \in Int : c + 2 <= s /\ s <= c + WINDOW_SIZE => Right(s)
    BY <1>10, <1>13
  <2> HIDE DEF c, Right
  <2>2. \A s \in (c + 2)..(c + WINDOW_SIZE) : Right(s) BY <1>3, <2>1
  <2>3. QED BY <2>2 DEF c, Right
<1>15. QED BY <1>6, <1>9, <1>10, <1>12, <1>14 DEF ReceiverHolds

\* While the sender sends, the receiver's session is open and it stays in the window.
LEMMA RcvStepSending ==
    ASSUME SessionInv, CounterRight', RcvNext, UNCHANGED ncpVars,
           NEW p \in Senders, phase[p] = "sending"
    PROVE  WhileSending(p)'
<1>1. WhileSending(p) /\ TypeOK BY DEF SessionInv
<1>2. /\ hassender /\ current = p /\ seq[p] = tail[p] + 1
      /\ DatagramsInWindow(p) /\ WindowsOverlap(p)
      /\ SenderHolds(p) /\ ReceiverHolds(p)
  BY <1>1 DEF WhileSending
<1>3. UNCHANGED <<head, tail, seq, phase, ncpWindow>> BY DEF ncpVars
<1>4. /\ head[p] \in Nat /\ tail[p] \in Nat /\ C_ack \in Nat
      /\ \A m \in toRcv : m.seq \in Int
      /\ \A m \in toNcp : m.cack \in Int
  BY <1>1, WindowTypes
<1>5. toRcv' \subseteq toRcv BY RcvTakes
<1>6. SenderHolds(p)' BY <1>2, <1>3 DEF SenderHolds
\* It is enough that C_ack moves up to the tail at most and that nothing beyond it is
\* acknowledged.
<1>a. ASSUME hassender', current' = p,
             C_ack' \in Nat, C_ack <= C_ack', C_ack' <= tail[p],
             \A x \in toNcp' : x \in toNcp \/ x.cack = C_ack' \/ x.cack = -1,
             ReceiverHolds(p)'
      PROVE  WhileSending(p)'
  <2>1. \A x \in toNcp' : x.dst = p => x.cack <= C_ack'
    <3>1. \A x \in toNcp : x.dst = p => x.cack <= C_ack'
      BY <1>2, <1>4, <1>a DEF DatagramsInWindow
    <3>2. -1 <= C_ack' BY <1>a
    <3>3. QED BY <1>a, <3>1, <3>2
  <2>2. DatagramsInWindow(p)' BY <1>2, <1>3, <1>5, <2>1 DEF DatagramsInWindow
  <2>3. WindowsOverlap(p)'
    <3>1. head[p] - 1 <= C_ack' BY <1>2, <1>4, <1>a DEF WindowsOverlap
    <3>2. QED BY <1>2, <1>3, <1>a, <3>1 DEF WindowsOverlap
  <2>4. QED BY <1>2, <1>3, <1>6, <1>a, <2>2, <2>3 DEF WhileSending
\* The session goes on, and C_ack is acknowledged.
<1>b. ASSUME UNCHANGED <<hassender, current, sessionVars>>, NEW replies,
             \A x \in replies : x.cack = -1, NEW nack, NEW due \in BOOLEAN,
             Reply(replies, nack, due)
      PROVE  WhileSending(p)'
  <2>1. C_ack' = C_ack /\ buffer' = buffer /\ rcvWindow' = rcvWindow /\ hassender' /\ current' = p
    BY <1>2, <1>b DEF sessionVars
  <2>2. \A x \in toNcp' : x \in toNcp \/ x \in replies \/ x.cack = C_ack' BY <1>b, ReplyCack
  <2>3. \A x \in toNcp' : x \in toNcp \/ x.cack = C_ack' \/ x.cack = -1 BY <1>b, <2>2
  <2>4. ReceiverHolds(p)' BY <1>2, <1>3, <2>1 DEF ReceiverHolds
  <2>5. C_ack' \in Nat /\ C_ack <= C_ack' /\ C_ack' <= tail[p]
    BY <1>2, <1>4, <2>1 DEF WindowsOverlap
  <2>6. QED BY <2>1, <2>3, <2>4, <2>5, <1>a
<1>7. CASE RcvIdle
  <2>1. Reply({}, echoNack, TRUE) /\ UNCHANGED <<hassender, current, sessionVars>>
    BY <1>7 DEF RcvIdle
  <2>2. QED BY <2>1, <1>b
<1>8. ASSUME NEW m \in toRcv, RcvRecv(m) PROVE WhileSending(p)'
  <2>1. CASE RcvDrop(m)
    <3>1. Reply({}, echoNack, TRUE) /\ UNCHANGED <<hassender, current, sessionVars>>
      BY <2>1 DEF RcvDrop
    <3>2. QED BY <3>1, <1>b
  <2>2. CASE RcvEarly(m)
    <3>1. C_ack' = C_ack /\ hassender' /\ current' = p BY <1>2, <2>2 DEF RcvEarly
    <3>2. \A x \in toNcp' : x \in toNcp \/ x.cack = C_ack'
      <4>1. CASE lastACK # C_ack \/ NACKTime < 2
        <5> DEFINE nack == Missing(m.seq, buffer')
        <5>1. Reply({To(m, C_ack, nack)}, nack, TRUE) BY <2>2, <4>1 DEF RcvEarly
        <5> HIDE DEF nack
        <5>2. \A x \in toNcp' : x \in toNcp \/ x \in {To(m, C_ack, nack)} \/ x.cack = C_ack'
          BY <5>1, ReplyCack
        <5>3. To(m, C_ack, nack).cack = C_ack BY DEF To
        <5>4. QED BY <3>1, <5>2, <5>3
      <4>2. CASE ~(lastACK # C_ack \/ NACKTime < 2)
        <5>1. Reply({}, echoNack, TRUE) BY <2>2, <4>2 DEF RcvEarly
        <5>2. QED BY <5>1, AckOnly
      <4>3. QED BY <4>1, <4>2
    <3>3. ReceiverHolds(p)' BY <2>2, EarlyHolds
    <3>4. C_ack' \in Nat /\ C_ack <= C_ack' /\ C_ack' <= tail[p]
      BY <1>2, <1>4, <3>1 DEF WindowsOverlap
    <3>5. QED BY <3>1, <3>2, <3>3, <3>4, <1>a
  <2>3. CASE RcvInOrder(m)
    <3>1. hassender' /\ current' = p /\ Reply({To(m, C_ack', NoNack)}, NoNack, TRUE)
      BY <1>2, <2>3 DEF RcvInOrder
    <3>2. \A x \in toNcp' : x \in toNcp \/ x \in {To(m, C_ack', NoNack)} \/ x.cack = C_ack'
      BY <3>1, ReplyCack
    <3>3. To(m, C_ack', NoNack).cack = C_ack' BY DEF To
    <3>4. ReceiverHolds(p)' /\ C_ack' \in Nat /\ C_ack <= C_ack' /\ C_ack' <= tail[p]
      BY <2>3, InOrderHolds
    <3>5. QED BY <3>1, <3>2, <3>3, <3>4, <1>a
  <2>4. ~RcvStray(m) /\ ~RcvOpen(m) /\ ~RcvOpenFails(m)
    BY <1>2 DEF RcvStray, RcvOpen, RcvOpenFails
  <2>5. CASE RcvDecline(m)
    <3>1. /\ Reply({To(m, -1, echoNack)}, echoNack, FALSE)
          /\ UNCHANGED <<hassender, current, sessionVars>>
      BY <2>5 DEF RcvDecline
    <3>2. \A x \in {To(m, -1, echoNack)} : x.cack = -1 BY DEF To
    <3>3. QED BY <3>1, <3>2, <1>b
  <2>6. ~RcvClose(m)
    <3>1. m.src = p => 0 <= m.seq BY <1>2 DEF DatagramsInWindow
    <3>2. QED BY <1>2, <1>4, <3>1 DEF RcvClose, FromCurrent
  <2>7. QED BY <1>8, <2>1, <2>2, <2>3, <2>4, <2>5, <2>6 DEF RcvRecv
<1>9. QED BY <1>7, <1>8 DEF RcvNext

-----------------------------------------------------------------------------
(* The inductive invariant *)

\* The receiver keeps the windows consistent.
LEMMA RcvStepWindows ==
    ASSUME SessionInv, CounterRight', NoneAstray, RcvNext, UNCHANGED ncpVars,
           NEW p \in Senders
    PROVE  WhileConnecting(p)' /\ WhileSending(p)'
<1>1. phase' = phase BY DEF ncpVars
<1>2. phase[p] = "connecting" => WhileConnecting(p)' BY RcvStepConnecting
<1>3. phase[p] # "connecting" => WhileConnecting(p)' BY <1>1 DEF WhileConnecting
<1>4. phase[p] = "sending" => WhileSending(p)' BY RcvStepSending
<1>5. phase[p] # "sending" => WhileSending(p)' BY <1>1 DEF WhileSending
<1>6. QED BY <1>2, <1>3, <1>4, <1>5

\* Losing acknowledgements disturbs nothing.
LEMMA StillWindows ==
    ASSUME SessionInv, UNCHANGED <<toRcv, ncpVars, rcvVars>>, toNcp' \subseteq toNcp,
           NEW p \in Senders
    PROVE  WhileConnecting(p)' /\ WhileSending(p)'
<1>1. WhileConnecting(p) /\ WhileSending(p) BY DEF SessionInv
<1>2. /\ UNCHANGED <<toRcv, phase, head, tail, seq, ncpWindow>>
      /\ UNCHANGED <<hassender, current, C_ack, buffer, rcvWindow>>
  BY DEF ncpVars, rcvVars, sessionVars
<1>3. Taken' = Taken BY <1>2 DEF Taken
<1>4. WhileConnecting(p)' BY <1>1, <1>2, <1>3 DEF WhileConnecting
<1>5. WhileSending(p)'
  BY <1>1, <1>2 DEF WhileSending, DatagramsInWindow, WindowsOverlap, SenderHolds,
                    ReceiverHolds
<1>6. QED BY <1>4, <1>5

\* Any number of senders starts with consistent windows.
LEMMA SessionInit ==
    ASSUME Init
    PROVE  SessionInv
<1>1. TypeOK BY NcpInitType, RcvInitType DEF Init, NetInit, NetTypeOK, TypeOK
<1>2. Taken = {} BY DEF Init, RcvInit, Taken
<1>3. CounterRight BY <1>2, FS_EmptySet DEF CounterRight, Init, RcvInit
<1>4. ASSUME NEW p \in Senders PROVE WhileConnecting(p) /\ WhileSending(p)
  <2>1. phase[p] = "connecting" /\ head[p] = 1 /\ tail[p] = WINDOW_SIZE
    BY DEF Init, NcpInit
  <2>2. C_ack = 0 /\ toRcv = {} /\ toNcp = {} BY DEF Init, RcvInit, NetInit
  <2>3. QED BY <1>2, <2>1, <2>2 DEF WhileConnecting, WhileSending
<1>5. QED BY <1>1, <1>3, <1>4 DEF SessionInv

\* Every step that sends no acknowledgement astray keeps SessionInv.
LEMMA SessionStep ==
    ASSUME SessionInv, [Next]_vars, NoneAstray
    PROVE  SessionInv'
<1>1. TypeOK /\ CounterRight BY DEF SessionInv
<1>2. TypeOK' BY <1>1, TypeStep
<1>3. CounterRight' BY <1>1, CounterStep
<1>4. ASSUME NEW p \in Senders PROVE WhileConnecting(p)' /\ WhileSending(p)'
  <2>1. ASSUME NEW q \in Senders, NcpNext(q), UNCHANGED rcvVars
        PROVE  WhileConnecting(p)' /\ WhileSending(p)'
    <3>1. CASE q = p BY <2>1, <3>1, NcpStepWindows
    <3>2. CASE q # p BY <2>1, <3>2, OtherStepWindows
    <3>3. QED BY <3>1, <3>2
  <2>2. CASE RcvNext /\ UNCHANGED ncpVars BY <1>3, <2>2, RcvStepWindows
  <2>3. CASE PortClosed
    <3>1. UNCHANGED <<toRcv, ncpVars, rcvVars>> /\ toNcp' \subseteq toNcp
      BY <2>3 DEF PortClosed
    <3>2. QED BY <3>1, StillWindows
  <2>4. CASE UNCHANGED vars
    <3>1. UNCHANGED <<toRcv, ncpVars, rcvVars>> /\ toNcp' \subseteq toNcp
      BY <2>4 DEF vars, netVars
    <3>2. QED BY <3>1, StillWindows
  <2>5. QED BY <2>1, <2>2, <2>3, <2>4 DEF Next
<1>5. QED BY <1>2, <1>3, <1>4 DEF SessionInv

\* With a sender alone no acknowledgement goes astray: there is nobody else.
LEMMA SoleNoneAstray ==
    ASSUME OneSender, TypeOK, TypeOK', [Next]_vars
    PROVE  NoneAstray
<1> SUFFICES ASSUME NEW x \in toNcp', x \notin toNcp
             PROVE  hassender' /\ current' = x.dst
  BY DEF NoneAstray, Misleading
<1>1. current' = x.dst
  <2>1. x.dst \in Senders BY DEF TypeOK, NetTypeOK, ToNcpMsg
  <2>2. current' \in Senders BY DEF TypeOK, RcvTypeOK
  <2>3. QED BY <2>1, <2>2 DEF OneSender
<1>2. ~(toNcp' \subseteq toNcp) OBVIOUS
<1>3. RcvNext
  <2>1. \A q \in Senders : ~NcpNext(q) BY <1>2, NcpTouches
  <2>2. ~PortClosed /\ ~UNCHANGED vars BY <1>2 DEF PortClosed, vars, netVars
  <2>3. QED BY <2>1, <2>2 DEF Next
<1>4. RcvIdle => hassender' BY DEF RcvIdle
<1>5. ASSUME NEW m \in toRcv, RcvRecv(m) PROVE hassender'
  <2>1. ~RcvStray(m) /\ ~RcvOpenFails(m) /\ ~RcvClose(m)
    BY <1>2 DEF RcvStray, RcvOpenFails, RcvClose
  <2>2. RcvOpen(m) => hassender' BY DEF RcvOpen
  <2>3. RcvDecline(m) => hassender' BY DEF RcvDecline
  <2>4. RcvInOrder(m) => hassender' BY DEF RcvInOrder, FromCurrent
  <2>5. RcvEarly(m) => hassender' BY DEF RcvEarly, FromCurrent
  <2>6. RcvDrop(m) => hassender' BY DEF RcvDrop, FromCurrent
  <2>7. QED BY <1>5, <2>1, <2>2, <2>3, <2>4, <2>5, <2>6 DEF RcvRecv
<1>6. QED BY <1>1, <1>3, <1>4, <1>5 DEF RcvNext

\* A sender that has its answer does not go back to asking.
LEMMA StaysConnected ==
    ASSUME TypeOK, [Next]_vars, NEW p \in Senders, phase'[p] = "connecting"
    PROVE  phase[p] = "connecting"
<1>1. phase' = phase => phase[p] = "connecting" OBVIOUS
<1>2. ASSUME NEW q \in Senders, NcpNext(q) PROVE phase[p] = "connecting"
  <2>1. q # p => phase'[p] = phase[p] BY <1>2, NcpTouches
  <2>2. CASE q = p
    <3>1. phase \in [Senders -> {"connecting", "sending", "exited"}] BY DEF TypeOK, NcpTypeOK
    <3>2. ~TimeoutFinish(p) BY <3>1 DEF TimeoutFinish, Exit
    <3>3. SendFilename(p) \/ Timeout(p) => phase' = phase BY DEF SendFilename, Timeout, ncpVars
    <3>4. ASSUME NEW m \in toNcp, NcpRecv(p, m) PROVE phase' = phase
      <4>1. ~RecvAccept(p, m) /\ ~RecvFinish(p, m) BY <3>1 DEF RecvAccept, RecvFinish, Exit
      <4>2. QED
        BY <3>4, <4>1 DEF NcpRecv, RecvDecline, RecvStale, RecvNack, RecvAckAtEof, RecvAck
    <3>5. phase' = phase BY <1>2, <2>2, <3>2, <3>3, <3>4 DEF NcpNext
    <3>6. QED BY <1>1, <3>5
  <2>3. QED BY <2>1, <2>2
<1>3. ~(\E q \in Senders : NcpNext(q)) => phase' = phase
  BY DEF Next, PortClosed, vars, ncpVars
<1>4. QED BY <1>1, <1>2, <1>3

\* C_ack is reset, or moves in a session.
LEMMA RcvMovesAck ==
    ASSUME RcvNext
    PROVE  C_ack' = C_ack \/ C_ack' = 0 \/ hassender'
<1>1. RcvIdle => C_ack' = C_ack BY DEF RcvIdle, sessionVars
<1>2. ASSUME NEW m \in toRcv, RcvRecv(m) PROVE C_ack' = C_ack \/ C_ack' = 0 \/ hassender'
  <2>1. RcvStray(m) \/ RcvOpenFails(m) \/ RcvDecline(m) \/ RcvClose(m) \/ RcvDrop(m)
          => C_ack' = C_ack
    BY DEF RcvStray, RcvOpenFails, RcvDecline, RcvClose, RcvDrop, sessionVars
  <2>2. RcvEarly(m) => C_ack' = C_ack BY DEF RcvEarly
  <2>3. RcvOpen(m) => C_ack' = 0 BY DEF RcvOpen
  <2>4. RcvInOrder(m) => hassender' BY DEF RcvInOrder, FromCurrent
  <2>5. QED BY <1>2, <2>1, <2>2, <2>3, <2>4 DEF RcvRecv
<1>3. QED BY <1>1, <1>2 DEF RcvNext

\* So a step keeps the invariant of a sender alone.
LEMMA SoleStep ==
    ASSUME SoleInv, [Next]_vars
    PROVE  SoleInv'
<1>1. OneSender /\ SessionInv /\ TypeOK BY DEF SoleInv, SessionInv
<1>2. TypeOK' BY <1>1, TypeStep
<1>3. NoneAstray BY <1>1, <1>2, SoleNoneAstray
<1>4. SessionInv' BY <1>1, <1>3, SessionStep
<1>5. OneSender' BY <1>1 DEF OneSender
<1>6. ASSUME NEW p \in Senders, phase'[p] = "connecting" PROVE C_ack' = 0
  <2>1. phase[p] = "connecting" BY <1>1, <1>6, StaysConnected
  <2>2. C_ack = 0 BY <2>1 DEF SoleInv
  <2>3. C_ack' = C_ack \/ C_ack' = 0 \/ (hassender' /\ current' = p)
    <3>1. RcvNext => C_ack' = C_ack \/ C_ack' = 0 \/ hassender' BY RcvMovesAck
    <3>2. ~RcvNext => C_ack' = C_ack BY DEF Next, PortClosed, vars, rcvVars, sessionVars
    <3>3. current' = p BY <1>1, <1>2 DEF OneSender, TypeOK, RcvTypeOK
    <3>4. QED BY <3>1, <3>2, <3>3
  <2>4. hassender' /\ current' = p => C_ack' = 0 BY <1>4, <1>6 DEF SessionInv, WhileConnecting
  <2>5. QED BY <2>2, <2>3, <2>4
<1>7. QED BY <1>4, <1>5, <1>6 DEF SoleInv

\* The invariant holds of a sender alone with the receiver, however large the window,
\* whatever is lost, overtaken or duplicated, and however much is under way.
THEOREM SoleCorrect == OneSender /\ Spec => []SoleInv
<1>1. OneSender /\ Init => SoleInv BY SessionInit DEF SoleInv, Init, RcvInit
<1>2. SoleInv /\ [Next]_vars => SoleInv' BY SoleStep
<1>3. QED BY <1>1, <1>2, PTL DEF Spec

-----------------------------------------------------------------------------
(* What follows from it *)

\* The windows, for any number of senders.
LEMMA WindowsFollow ==
    ASSUME SessionInv
    PROVE  WindowsAgree /\ NeverTooFarAhead /\ ResendsWhatIsAsked /\ BufferAgrees
<1>1. WindowsAgree BY DEF SessionInv, WindowsAgree, Served, WhileSending, WindowsOverlap
<1>2. NeverTooFarAhead
  <2> SUFFICES ASSUME NEW m \in toRcv, Served(m.src)
               PROVE  m.seq <= C_ack + WINDOW_SIZE
    BY DEF NeverTooFarAhead
  <2>1. TypeOK BY DEF SessionInv
  <2>2. m.src \in Senders BY <2>1 DEF TypeOK, NetTypeOK, ToRcvMsg
  <2>3. DatagramsInWindow(m.src) /\ WindowsOverlap(m.src)
    BY <2>2 DEF SessionInv, Served, WhileSending
  <2>4. /\ head[m.src] \in Nat /\ tail[m.src] \in Nat /\ C_ack \in Nat
        /\ WINDOW_SIZE \in Nat /\ m.seq \in Int
    BY <2>1, <2>2, WindowTypes
  <2>5. m.seq <= tail[m.src] BY <2>3 DEF DatagramsInWindow
  <2>6. QED BY <2>3, <2>4, <2>5 DEF WindowsOverlap
<1>3. ResendsWhatIsAsked BY DEF SessionInv, ResendsWhatIsAsked, WhileSending, SenderHolds
<1>4. BufferAgrees
  <2> SUFFICES ASSUME Served(current) PROVE BufferAgrees BY DEF BufferAgrees
  <2>1. current \in Senders BY DEF SessionInv, TypeOK, RcvTypeOK
  <2>2. ReceiverHolds(current) BY <2>1 DEF SessionInv, Served, WhileSending
  <2>3. QED BY <2>2 DEF SessionInv, BufferAgrees, ReceiverHolds
<1>5. QED BY <1>1, <1>2, <1>3, <1>4

\* The sender never believes more acknowledged than the receiver has written, and the
\* receiver is never ahead of what was sent.
THEOREM SoleWindowsAgree == OneSender /\ Spec => []WindowsAgree
<1>1. SoleInv => WindowsAgree BY WindowsFollow DEF SoleInv
<1>2. QED BY <1>1, SoleCorrect, PTL

\* The packet rcv would accept without ever searching for it (rcv.c:235 against 295)
\* is never under way.
THEOREM SoleNeverTooFarAhead == OneSender /\ Spec => []NeverTooFarAhead
<1>1. SoleInv => NeverTooFarAhead BY WindowsFollow DEF SoleInv
<1>2. QED BY <1>1, SoleCorrect, PTL

\* Whatever a NACK or a timeout asks for, the slot of ncp's window holds that packet.
THEOREM SoleResendsWhatIsAsked == OneSender /\ Spec => []ResendsWhatIsAsked
<1>1. SoleInv => ResendsWhatIsAsked BY WindowsFollow DEF SoleInv
<1>2. QED BY <1>1, SoleCorrect, PTL

\* The receiver counts its taken slots right, and each holds the packet of its place.
THEOREM SoleBufferAgrees == OneSender /\ Spec => []BufferAgrees
<1>1. SoleInv => BufferAgrees BY WindowsFollow DEF SoleInv
<1>2. QED BY <1>1, SoleCorrect, PTL

\* A sender leaves only when all its packets but the last are acknowledged.
LEMMA LeavingStep ==
    ASSUME SessionInv, [Next]_vars, NEW p \in Senders,
           phase[p] = "sending", phase'[p] = "exited"
    PROVE  hassender /\ current = p /\ C_ack >= tail[p] - 1
<1>1. TypeOK BY DEF SessionInv
<1>2. hassender /\ DatagramsInWindow(p) /\ WindowsOverlap(p) BY DEF SessionInv, WhileSending
<1>3. current = p BY DEF SessionInv, WhileSending
<1>4. /\ head[p] \in Nat /\ tail[p] \in Nat /\ C_ack \in Nat
      /\ \A m \in toNcp : m.cack \in Int
  BY <1>1, WindowTypes
<1>5. NcpNext(p)
  <2>1. phase' # phase OBVIOUS
  <2>2. ~(UNCHANGED vars) /\ ~PortClosed /\ ~(RcvNext /\ UNCHANGED ncpVars)
    BY <2>1 DEF vars, PortClosed, ncpVars
  <2>3. PICK q \in Senders : NcpNext(q) BY <2>2 DEF Next
  <2>4. p # q => phase'[p] = phase[p] BY <1>1, <2>3, NcpTouches
  <2>5. QED BY <2>3, <2>4
<1>6. CASE TimeoutFinish(p)
  <2>1. head[p] = tail[p] BY <1>6 DEF TimeoutFinish
  <2>2. QED BY <1>2, <1>3, <1>4, <2>1 DEF WindowsOverlap
<1>7. ASSUME NEW m \in toNcp, RecvFinish(p, m)
      PROVE  hassender /\ current = p /\ C_ack >= tail[p] - 1
  <2>1. m.cack >= tail[p] \/ head[p] >= tail[p] BY <1>7 DEF RecvFinish, Finished
  <2>2. m.cack <= C_ack BY <1>2, <1>7 DEF DatagramsInWindow, RecvFinish
  <2>3. QED BY <1>2, <1>3, <1>4, <2>1, <2>2 DEF WindowsOverlap
<1>8. ASSUME NEW m \in toNcp
      PROVE  /\ ~SendFilename(p) /\ ~Timeout(p) /\ ~RecvDecline(p, m) /\ ~RecvAccept(p, m)
             /\ ~RecvStale(p, m) /\ ~RecvNack(p, m) /\ ~RecvAckAtEof(p, m) /\ ~RecvAck(p, m)
  BY DEF SendFilename, Timeout, RecvDecline, RecvAccept, RecvStale, RecvNack,
         RecvAckAtEof, RecvAck, ncpVars
<1>9. ~SendFilename(p) /\ ~Timeout(p) BY DEF SendFilename, Timeout, ncpVars
<1>10. QED BY <1>5, <1>6, <1>7, <1>8, <1>9 DEF NcpNext, NcpRecv

\* When ncp says that it has finished, at most the last packet is missing.
THEOREM SoleFinishSparesAllButLast == OneSender /\ Spec => FinishSparesAllButLast
<1>1. SoleInv /\ [Next]_vars
        => [\A p \in Senders : phase[p] = "sending" /\ phase'[p] = "exited"
              => hassender /\ current = p /\ C_ack >= tail[p] - 1]_vars
  BY LeavingStep DEF SoleInv
<1>2. QED BY <1>1, SoleCorrect, PTL DEF Spec, FinishSparesAllButLast

-----------------------------------------------------------------------------
(* The refinement: each step of ncp, rcv and the network between them is a  *)
(* step of SlidingWindow or leaves its four variables alone.               *)

\* The receiver moves C_ack up only, and not beyond what was sent.
LEMMA RcvAdvances ==
    ASSUME SoleInv, [Next]_vars, RcvNext, UNCHANGED ncpVars,
           NEW p \in Senders, phase[p] = "sending"
    PROVE  C_ack' \in Nat /\ C_ack <= C_ack' /\ C_ack' <= tail[p]
<1>1. TypeOK /\ WhileSending(p) /\ SessionInv BY DEF SoleInv, SessionInv
<1>2. hassender /\ current = p /\ WindowsOverlap(p) BY <1>1 DEF WhileSending
<1>3. tail[p] \in Nat /\ C_ack \in Nat BY <1>1, WindowTypes
<1>4. C_ack' = C_ack => C_ack' \in Nat /\ C_ack <= C_ack' /\ C_ack' <= tail[p]
  BY <1>2, <1>3 DEF WindowsOverlap
<1>5. CounterRight' BY SoleStep DEF SoleInv, SessionInv
<1>6. ASSUME NEW m \in toRcv, RcvInOrder(m)
      PROVE  C_ack' \in Nat /\ C_ack <= C_ack' /\ C_ack' <= tail[p]
  BY <1>1, <1>5, <1>6, InOrderHolds
<1>7. ASSUME NEW m \in toRcv, RcvRecv(m), ~RcvInOrder(m) PROVE C_ack' = C_ack
  BY <1>2, <1>7 DEF RcvRecv, RcvStray, RcvOpen, RcvOpenFails, RcvDecline, RcvClose,
                   RcvEarly, RcvDrop, sessionVars
<1>8. RcvIdle => C_ack' = C_ack BY DEF RcvIdle, sessionVars
<1>9. QED BY <1>4, <1>6, <1>7, <1>8 DEF RcvNext

\* A step that leaves what the refinement looks at alone is a stutter.
LEMMA Stutter ==
    ASSUME UNCHANGED <<phase, head, tail>>, C_ack' = C_ack \/ phase[Sole] = "exited"
    PROVE  UNCHANGED SW!swVars
BY DEF SW!swVars

\* Each step of the sender.
LEMMA NcpRefines ==
    ASSUME SoleInv, Sole \in Senders, NcpNext(Sole), UNCHANGED rcvVars
    PROVE  [SW!Next]_SW!swVars
<1>1. TypeOK /\ WhileSending(Sole) BY DEF SoleInv, SessionInv
<1>2. /\ head[Sole] \in Nat /\ tail[Sole] \in Nat /\ C_ack \in Nat /\ WINDOW_SIZE \in Nat
      /\ \A m \in toNcp : m.cack \in Int
  BY <1>1, WindowTypes
<1>3. C_ack' = C_ack BY DEF rcvVars, sessionVars
<1>4. /\ phase \in [Senders -> {"connecting", "sending", "exited"}]
      /\ head \in [Senders -> Nat] /\ tail \in [Senders -> Nat]
  BY <1>1 DEF TypeOK, NcpTypeOK
<1>a. ASSUME phase[Sole] = "sending", phase' = [phase EXCEPT ![Sole] = "exited"],
             UNCHANGED <<head, tail>>, C_ack >= tail[Sole] - 1
      PROVE  SW!Next
  BY <1>4, <1>a DEF SW!Next, SW!Finish
<1>b. UNCHANGED <<phase, head, tail>> => UNCHANGED SW!swVars BY <1>3, Stutter
<1>c. phase[Sole] = "sending" => DatagramsInWindow(Sole) /\ WindowsOverlap(Sole)
  BY <1>1 DEF WhileSending
<1>5. CASE SendFilename(Sole) \/ Timeout(Sole)
  BY <1>5, <1>b DEF SendFilename, Timeout, ncpVars
<1>6. CASE TimeoutFinish(Sole)
  <2>1. phase[Sole] = "sending" /\ head[Sole] = tail[Sole] BY <1>6 DEF TimeoutFinish
  <2>2. C_ack >= tail[Sole] - 1 BY <1>2, <1>c, <2>1 DEF WindowsOverlap
  <2>3. phase' = [phase EXCEPT ![Sole] = "exited"] /\ UNCHANGED <<head, tail>>
    BY <1>6 DEF TimeoutFinish, Exit
  <2>4. QED BY <1>a, <2>1, <2>2, <2>3
<1>7. ASSUME NEW m \in toNcp, NcpRecv(Sole, m) PROVE [SW!Next]_SW!swVars
  <2>0. phase[Sole] = "sending" => m.cack <= C_ack
    <3>1. m.dst = Sole
      BY <1>7 DEF NcpRecv, RecvDecline, RecvAccept, RecvFinish, RecvStale, RecvNack,
                  RecvAckAtEof, RecvAck
    <3>2. QED BY <1>c, <3>1 DEF DatagramsInWindow
  <2>1. CASE RecvDecline(Sole, m) \/ RecvStale(Sole, m) \/ RecvNack(Sole, m)
    BY <2>1, <1>b DEF RecvDecline, RecvStale, RecvNack
  <2>2. CASE RecvAccept(Sole, m)
    <3>1. /\ phase[Sole] = "connecting" /\ phase'[Sole] = "sending"
          /\ UNCHANGED <<head, tail>>
      BY <1>4, <2>2 DEF RecvAccept
    <3>2. SW!Accept BY <1>3, <3>1 DEF SW!Accept
    <3>3. QED BY <3>2 DEF SW!Next
  <2>3. CASE RecvFinish(Sole, m)
    <3>1. phase[Sole] = "sending" /\ (m.cack >= tail[Sole] \/ head[Sole] >= tail[Sole])
      BY <2>3 DEF RecvFinish, Finished
    <3>2. C_ack >= tail[Sole] - 1 BY <1>2, <1>c, <2>0, <3>1 DEF WindowsOverlap
    <3>3. phase' = [phase EXCEPT ![Sole] = "exited"] /\ UNCHANGED <<head, tail>>
      BY <2>3 DEF RecvFinish, Exit
    <3>4. QED BY <1>a, <3>1, <3>2, <3>3
  \* The sender learns m.cack, and sends up to as many packets more.
  <2>4. ASSUME phase[Sole] = "sending", phase' = phase,
               head[Sole] <= m.cack, head'[Sole] = m.cack + 1,
               NEW n \in Nat, n <= m.cack - head[Sole] + 1, tail'[Sole] = tail[Sole] + n
        PROVE  SW!Next
    <3>1. /\ head'[Sole] - 1 \in (head[Sole] - 1 + 1)..C_ack
          /\ tail'[Sole] \in
               tail[Sole]..(tail[Sole] + (head'[Sole] - 1) - (head[Sole] - 1))
      BY <1>2, <2>0, <2>4
    <3>2. SW!Learn BY <1>3, <2>4, <3>1 DEF SW!Learn
    <3>3. QED BY <3>2 DEF SW!Next
  <2>5. CASE RecvAckAtEof(Sole, m)
    <3>1. /\ phase[Sole] = "sending" /\ phase' = phase /\ head[Sole] <= m.cack
          /\ head'[Sole] = m.cack + 1 /\ tail' = tail
      BY <1>2, <1>4, <2>5 DEF RecvAckAtEof
    <3>2. 0 \in Nat /\ 0 <= m.cack - head[Sole] + 1 /\ tail'[Sole] = tail[Sole] + 0
      BY <1>2, <3>1
    <3>3. QED BY <2>4, <3>1, <3>2
  <2>6. CASE RecvAck(Sole, m)
    <3>1. PICK n \in 1..(m.cack - head[Sole] + 1) :
            /\ head' = [head EXCEPT ![Sole] = m.cack + 1]
            /\ tail' = [tail EXCEPT ![Sole] = @ + n]
      BY <2>6 DEF RecvAck
    <3>2. phase[Sole] = "sending" /\ phase' = phase /\ m.cack >= head[Sole]
      BY <2>6 DEF RecvAck
    <3>3. /\ head'[Sole] = m.cack + 1 /\ tail'[Sole] = tail[Sole] + n
          /\ head[Sole] <= m.cack /\ n \in Nat /\ n <= m.cack - head[Sole] + 1
      BY <1>2, <1>4, <3>1, <3>2
    <3>4. QED BY <2>4, <3>2, <3>3
  <2>7. QED BY <1>7, <2>1, <2>2, <2>3, <2>5, <2>6 DEF NcpRecv
<1>8. QED BY <1>5, <1>6, <1>7 DEF NcpNext

\* Each step of the receiver.
LEMMA RcvRefines ==
    ASSUME SoleInv, [Next]_vars, Sole \in Senders, RcvNext, UNCHANGED ncpVars
    PROVE  [SW!Next]_SW!swVars
<1>1. UNCHANGED <<phase, head, tail>> BY DEF ncpVars
<1>2. TypeOK BY DEF SoleInv, SessionInv
<1>3. tail[Sole] \in Nat /\ C_ack \in Nat BY <1>2, WindowTypes
<1>4. CASE phase[Sole] = "connecting"
  <2>1. C_ack = 0 BY <1>4 DEF SoleInv
  <2>2. C_ack' = 0
    <3>1. SoleInv' BY SoleStep
    <3>2. QED BY <1>1, <1>4, <3>1 DEF SoleInv
  <2>3. QED BY <1>1, <2>1, <2>2, Stutter
<1>5. CASE phase[Sole] = "exited" BY <1>1, <1>5, Stutter
<1>6. CASE phase[Sole] = "sending"
  <2>1. C_ack' \in Nat /\ C_ack <= C_ack' /\ C_ack' <= tail[Sole] BY <1>6, RcvAdvances
  <2>2. CASE C_ack' = C_ack BY <1>1, <2>2, Stutter
  <2>3. CASE C_ack' # C_ack
    <3>1. C_ack' \in (C_ack + 1)..tail[Sole] BY <1>3, <2>1, <2>3
    <3>2. SW!Deliver BY <1>1, <1>6, <3>1 DEF SW!Deliver
    <3>3. QED BY <3>2 DEF SW!Next
  <2>4. QED BY <2>2, <2>3
<1>7. phase[Sole] \in {"connecting", "sending", "exited"} BY <1>2 DEF TypeOK, NcpTypeOK
<1>8. QED BY <1>4, <1>5, <1>6, <1>7

\* The sole sender is one.
LEMMA SoleIsSender ==
    ASSUME NEW p \in Senders
    PROVE  Sole \in Senders
BY DEF Sole

\* The file transfer of one sender implements the sliding window: whatever is lost or
\* overtaken, the sender never knows more than what the receiver has in order, never
\* has more than a window of packets unknown, and stops with one missing at most.
THEOREM SoleImplementsWindow == OneSender /\ Spec => ImplementsWindow
<1>1. OneSender /\ Init => SW!Init
  <2> SUFFICES ASSUME OneSender, Init PROVE SW!Init OBVIOUS
  <2>1. current \in Senders BY DEF Init, RcvInit
  <2>2. Sole \in Senders BY <2>1, SoleIsSender
  <2>3. /\ phase[Sole] = "connecting" /\ head[Sole] = 1 /\ tail[Sole] = WINDOW_SIZE
        /\ C_ack = 0
    BY <2>2 DEF Init, NcpInit, RcvInit
  <2>4. QED BY <2>3 DEF SW!Init
<1>2. SoleInv /\ [Next]_vars => [SW!Next]_SW!swVars
  <2> SUFFICES ASSUME SoleInv, [Next]_vars PROVE [SW!Next]_SW!swVars OBVIOUS
  <2>1. current \in Senders /\ OneSender BY DEF SoleInv, SessionInv, TypeOK, RcvTypeOK
  <2>2. Sole \in Senders BY <2>1, SoleIsSender
  <2>3. ASSUME NEW p \in Senders, NcpNext(p), UNCHANGED rcvVars
        PROVE  [SW!Next]_SW!swVars
    <3>1. p = Sole BY <2>1, <2>2 DEF OneSender
    <3>2. NcpNext(Sole) BY <2>3, <3>1
    <3>3. QED BY <2>2, <2>3, <3>2, NcpRefines
  <2>4. CASE RcvNext /\ UNCHANGED ncpVars BY <2>2, <2>4, RcvRefines
  <2>5. CASE PortClosed
    <3>1. UNCHANGED <<phase, head, tail, C_ack>>
      BY <2>5 DEF PortClosed, ncpVars, rcvVars, sessionVars
    <3>2. QED BY <3>1, Stutter
  <2>6. CASE UNCHANGED vars
    <3>1. UNCHANGED <<phase, head, tail, C_ack>>
      BY <2>6 DEF vars, ncpVars, rcvVars, sessionVars
    <3>2. QED BY <3>1, Stutter
  <2>7. QED BY <2>3, <2>4, <2>5, <2>6 DEF Next
<1>3. QED BY <1>1, <1>2, SoleCorrect, PTL DEF Spec, ImplementsWindow, SW!Spec

-----------------------------------------------------------------------------
(* The content of the buffers *)

\* A buffer as long as every buffer, a byte at each place.
LEMMA BufBytes ==
    ASSUME NEW buf \in Buf
    PROVE  Len(buf) = BUF_LEN /\ \A i \in 1..BUF_LEN : buf[i] \in Cell
BY BufIsPayload DEF Buf

\* What a full read returned is a string of DATA_LEN bytes without a NUL.
LEMMA FullReadType ==
    ASSUME NEW p \in Senders, NEW n \in Int, FullRead(p, n)
    PROVE  /\ Read(p, n) = [i \in 1..DATA_LEN |-> Read(p, n)[i]]
           /\ \A i \in 1..DATA_LEN : Read(p, n)[i] # NUL
<1>1. Read(p, n) \in Payload BY ReadType
<1>2. PICK k \in 0..BUF_LEN : Read(p, n) \in [1..k -> Cell] BY <1>1 DEF Payload
<1>3. k = DATA_LEN
  <2>1. k \in Nat BY BufLen
  <2>2. Len(Read(p, n)) = k BY <1>2, <2>1
  <2>3. QED BY <2>2 DEF FullRead
<1>4. QED BY <1>2, <1>3 DEF FullRead

\* strlen finds the NUL behind the data, and the string is what was read.
LEMMA StrExact ==
    ASSUME NEW p \in Senders, NEW n \in Int, NEW buf \in Buf, FullRead(p, n), Holds(p, buf, n)
    PROVE  Str(buf) = Read(p, n)
<1> DEFINE k == StrLen(buf)
<1>1. /\ k \in 0..BUF_LEN
      /\ \A i \in 1..k : buf[i] # NUL
      /\ k < BUF_LEN => buf[k + 1] = NUL
  BY StrLenType
<1>2. \A i \in 1..DATA_LEN : buf[i] = Read(p, n)[i] /\ buf[i] # NUL
  BY FullReadType DEF Holds, Begins
<1>3. buf[BUF_LEN] = NUL BY BufBytes DEF Holds, Ends
<1>4. Str(buf) = [i \in 1..k |-> buf[i]] BY DEF Str
<1> HIDE DEF k
<1>5. k = DATA_LEN
  <2>1. k # BUF_LEN BY <1>1, <1>3, BufLen
  <2>2. ~(k < DATA_LEN)
    <3>1. SUFFICES ASSUME k < DATA_LEN PROVE FALSE OBVIOUS
    <3>2. k + 1 \in 1..DATA_LEN /\ k < BUF_LEN BY <1>1, <3>1, BufLen
    <3>3. QED BY <1>1, <1>2, <3>2
  <2>3. QED BY <1>1, <2>1, <2>2, BufLen
<1>6. QED BY <1>2, <1>4, <1>5, FullReadType

\* Only NUL stays behind the data when a datagram is received.
LEMMA OverlayEnds ==
    ASSUME NEW buf \in Buf, NEW d \in Payload, Ends(d), Ends(buf) \/ Len(d) = BUF_LEN
    PROVE  Ends(Overlay(buf, d))
<1>1. Len(d) \in 0..BUF_LEN BY PayloadType
<1>2. Overlay(buf, d)[BUF_LEN] = IF BUF_LEN <= Len(d) THEN d[BUF_LEN] ELSE buf[BUF_LEN]
  BY BufLen DEF Overlay
<1>3. Len(buf) = BUF_LEN BY BufBytes
<1>4. BUF_LEN <= Len(d) <=> Len(d) = BUF_LEN BY <1>1, BufLen
<1>5. QED BY <1>2, <1>3, <1>4 DEF Ends

\* Nor does clearing the string that a buffer holds put anything there.
LEMMA BzeroEnds ==
    ASSUME NEW buf \in Buf, Ends(buf)
    PROVE  Ends(Bzero(buf))
<1>1. Len(buf) = BUF_LEN BY BufBytes
<1>2. Bzero(buf)[BUF_LEN] = IF BUF_LEN <= POINTER_SIZE THEN NUL ELSE buf[BUF_LEN]
  BY BufLen DEF Bzero
<1>3. QED BY <1>1, <1>2 DEF Ends

\* A datagram with a packet makes a buffer with that packet of one that ends well.
LEMMA OverlayHolds ==
    ASSUME NEW p, NEW n, NEW buf \in Buf, NEW d \in Payload,
           Begins(p, d, n), Ends(d), Ends(buf)
    PROVE  Holds(p, Overlay(buf, d), n)
<1>1. Ends(Overlay(buf, d)) BY OverlayEnds
<1>2. Begins(p, Overlay(buf, d), n)
  <2> SUFFICES ASSUME FullRead(p, n)
               PROVE  /\ Len(Overlay(buf, d)) >= DATA_LEN
                      /\ \A i \in 1..DATA_LEN : Overlay(buf, d)[i] = Read(p, n)[i]
    BY DEF Begins
  <2>1. Overlay(buf, d) \in Buf BY OverlayType
  <2>2. Len(Overlay(buf, d)) >= DATA_LEN BY <2>1, BufBytes, BufLen
  <2>3. ASSUME NEW i \in 1..DATA_LEN PROVE Overlay(buf, d)[i] = Read(p, n)[i]
    <3>1. Len(d) >= DATA_LEN /\ d[i] = Read(p, n)[i] BY DEF Begins
    <3>2. Len(d) \in 0..BUF_LEN BY PayloadType
    <3>3. i \in 1..BUF_LEN /\ i <= Len(d) BY <3>1, <3>2, BufLen
    <3>4. Overlay(buf, d)[i] = d[i] BY <3>3 DEF Overlay
    <3>5. QED BY <3>1, <3>4
  <2>4. QED BY <2>2, <2>3
<1>3. QED BY <1>1, <1>2 DEF Holds

\* The last of some reads is what the buffer begins with when it came back full.
LEMMA BufAfterHolds ==
    ASSUME NEW p \in Senders, NEW buf \in Buf, Ends(buf), NEW lo \in Int, NEW n \in Int, lo <= n
    PROVE  Holds(p, BufAfter(p, buf, lo, n), n)
<1> DEFINE Reached(j) == {r \in lo..n : j <= Len(Read(p, r)) + 1}
           Last(j) == CHOOSE x \in Reached(j) : \A y \in Reached(j) : y <= x
           Byt(j) == IF Reached(j) = {} THEN buf[j]
                      ELSE IF j <= Len(Read(p, Last(j))) THEN Read(p, Last(j))[j] ELSE NUL
           after == BufAfter(p, buf, lo, n)
<1>1. after = [j \in 1..BUF_LEN |-> Byt(j)] BY DEF BufAfter
<1>2. after \in Buf BY BufAfterType
<1>3. Ends(after)
  <2>1. after[BUF_LEN] = Byt(BUF_LEN)
    <3> HIDE DEF Byt, after
    <3>1. QED BY <1>1, BufLen
  <2>2. buf[BUF_LEN] = NUL BY BufBytes DEF Ends
  <2>3. CASE Reached(BUF_LEN) = {} BY <2>1, <2>2, <2>3 DEF Ends
  <2>4. CASE Reached(BUF_LEN) # {}
    <3>1. \A t \in Reached(BUF_LEN) : t \in Int /\ t <= n OBVIOUS
    <3> HIDE DEF after
    <3>2. Last(BUF_LEN) \in Reached(BUF_LEN)
      <4> HIDE DEF Reached
      <4>1. \E x \in Reached(BUF_LEN) : \A y \in Reached(BUF_LEN) : y <= x
        BY <2>4, <3>1, GreatestInt
      <4>2. QED BY <4>1
    <3>3. Last(BUF_LEN) \in Int BY <3>1, <3>2
    <3> HIDE DEF Last
    <3>4. Len(Read(p, Last(BUF_LEN))) \in 0..DATA_LEN BY <3>3, ReadType
    <3>5. ~(BUF_LEN <= Len(Read(p, Last(BUF_LEN)))) BY <3>4, BufLen
    <3>6. Byt(BUF_LEN) = NUL
      <4> HIDE DEF Reached
      <4>1. QED BY <2>4, <3>5
    <3>7. QED BY <2>1, <3>6 DEF Ends
  <2>5. QED BY <2>3, <2>4
<1>4. Begins(p, after, n)
  <2> SUFFICES ASSUME FullRead(p, n)
               PROVE  /\ Len(after) >= DATA_LEN
                      /\ \A i \in 1..DATA_LEN : after[i] = Read(p, n)[i]
    BY DEF Begins
  <2>1. Len(after) >= DATA_LEN
    <3> HIDE DEF after
    <3>1. QED BY <1>2, BufBytes, BufLen
  <2>2. ASSUME NEW i \in 1..DATA_LEN PROVE after[i] = Read(p, n)[i]
    <3>0. i \in 1..BUF_LEN /\ i <= DATA_LEN /\ i <= DATA_LEN + 1 BY BufLen
    <3>a. Len(Read(p, n)) = DATA_LEN BY DEF FullRead
    <3>1. after[i] = Byt(i)
      <4> HIDE DEF Byt, after
      <4>1. QED BY <1>1, <3>0
    <3>2. n \in Reached(i) BY <3>0, <3>a
    <3>3. \A y \in Reached(i) : y \in Int /\ y <= n OBVIOUS
    <3> HIDE DEF after
    <3>4. Last(i) = n
      <4> HIDE DEF Reached
      <4>1. \A x \in Reached(i) : (\A y \in Reached(i) : y <= x) => x = n
        <5>1. SUFFICES ASSUME NEW x \in Reached(i), \A y \in Reached(i) : y <= x
                       PROVE  x = n
          OBVIOUS
        <5>2. n <= x /\ x <= n /\ x \in Int BY <3>2, <3>3, <5>1
        <5>3. QED BY <5>2
      <4>2. \A y \in Reached(i) : y <= n BY <3>3
      <4>3. QED BY <3>2, <4>1, <4>2
    <3>5. Byt(i) = Read(p, n)[i]
      <4> HIDE DEF Last
      <4>1. Reached(i) # {} BY <3>2
      <4> HIDE DEF Reached
      <4>2. QED BY <3>0, <3>a, <3>4, <4>1
    <3>6. QED BY <3>1, <3>5
  <2>3. QED BY <2>1, <2>2
<1>5. QED BY <1>3, <1>4 DEF Holds

\* A packet first sent as the string in its buffer, or resent as the whole of it.
LEMMA StrBegins ==
    ASSUME NEW p \in Senders, NEW n \in Int, NEW buf \in Buf, Holds(p, buf, n)
    PROVE  Begins(p, Str(buf), n)
<1> SUFFICES ASSUME FullRead(p, n)
             PROVE  Len(Str(buf)) >= DATA_LEN
                    /\ \A i \in 1..DATA_LEN : Str(buf)[i] = Read(p, n)[i]
  BY DEF Begins
<1>1. Str(buf) = Read(p, n) BY StrExact
<1>2. Len(Read(p, n)) = DATA_LEN BY DEF FullRead
<1>3. QED BY <1>1, <1>2, BufLen

\* The string of a buffer that ends with NUL is one that does not fill it, or ends so.
LEMMA StrEnds ==
    ASSUME NEW buf \in Buf, Ends(buf)
    PROVE  Ends(Str(buf))
<1>1. Len(Str(buf)) = StrLen(buf) BY StrType
<1>2. buf[BUF_LEN] = NUL BY BufBytes DEF Ends
<1>3. StrLen(buf) # BUF_LEN BY <1>2, StrLenType, BufLen
<1>4. QED BY <1>1, <1>3 DEF Ends

\* A slot of the shifted window holds what it held or one of the packets just read.
LEMMA ShiftedCell ==
    ASSUME NEW p \in Senders, NEW buf, NEW n \in Nat, NEW s \in Slots
    PROVE  \/ Shifted(p, buf, n)[s] = ncpWindow[p][s]
           \/ \E k \in 1..n : Shifted(p, buf, n)[s] =
                 [seq |-> seq[p] + k - 1,
                  data |-> BufAfter(p, buf, seq[p], seq[p] + k - 1)]
<1> DEFINE Stored == {k \in 1..n : Slot(tail[p] + k) = s}
           Last == CHOOSE x \in Stored : \A y \in Stored : y <= x
           Pkt(k) == [seq |-> seq[p] + k - 1,
                      data |-> BufAfter(p, buf, seq[p], seq[p] + k - 1)]
<1>1. Shifted(p, buf, n)[s] = IF Stored = {} THEN ncpWindow[p][s] ELSE Pkt(Last)
  BY DEF Shifted
<1>2. CASE Stored = {}
  <2> HIDE DEF Stored
  <2>1. QED BY <1>1, <1>2
<1>3. CASE Stored # {}
  <2>1. Stored \subseteq 1..n /\ \A t \in Stored : t \in Int /\ t <= n OBVIOUS
  <2> HIDE DEF Stored
  <2>a. n \in Int OBVIOUS
  <2>2. \E x \in Stored : \A y \in Stored : y <= x BY <1>3, <2>1, <2>a, GreatestInt
  <2>3. Last \in Stored BY <2>2
  <2> HIDE DEF Last
  <2>4. Last \in 1..n BY <2>1, <2>3
  <2>5. Shifted(p, buf, n)[s] = Pkt(Last) BY <1>1, <1>3
  <2>6. QED BY <2>4, <2>5
<1>4. QED BY <1>2, <1>3

-----------------------------------------------------------------------------
(* File names *)

\* An echo over an echo changes nothing.
LEMMA EchoedAgain ==
    ASSUME NEW buf
    PROVE  Overlay(Overlay(buf, EchoData), EchoData) = Overlay(buf, EchoData)
BY DEF Overlay

\* The buffer with the file name is a buffer, and the name is the string in it.
LEMMA NameBufString ==
    ASSUME NEW p \in Senders
    PROVE  NameBuf(p) \in Buf /\ Str(NameBuf(p)) = DestName[p]
<1> DEFINE name == DestName[p]
           text == name \o <<NUL>>
           k == StrLen(NameBuf(p))
<1>1. name \in Seq(Byte) /\ Len(name) \in 1..DATA_LEN BY NcpAssumption
<1>2. /\ Len(text) = Len(name) + 1
      /\ \A i \in 1..Len(name) : text[i] = name[i] /\ name[i] # NUL /\ name[i] \in Cell
      /\ text[Len(name) + 1] = NUL
  <2>1. <<NUL>> \in Seq({NUL}) /\ name \in Seq(Cell) BY <1>1 DEF Cell
  <2>2. \A i \in 1..Len(name) : name[i] \in Byte BY <1>1
  <2> HIDE DEF name
  <2>3. QED BY <1>1, <2>1, <2>2, BufAssumption DEF Cell
<1> HIDE DEF name, text
<1>3. \A i \in 1..BUF_LEN : NameBuf(p)[i] = IF i <= Len(text) THEN text[i] ELSE Stack
  BY DEF NameBuf, Overlay, Uninitialised, text, name
<1>4. NameBuf(p) \in Buf
  <2>1. \A i \in 1..BUF_LEN : NameBuf(p)[i] \in Cell
    <3>1. Stack \in Cell /\ NUL \in Cell BY BufAssumption DEF Cell
    <3>2. ASSUME NEW i \in 1..BUF_LEN PROVE NameBuf(p)[i] \in Cell
      <4>1. CASE i <= Len(name) BY <1>1, <1>2, <1>3, <4>1, BufLen
      <4>2. CASE i = Len(name) + 1 BY <1>1, <1>2, <1>3, <3>1, <4>2
      <4>3. CASE i > Len(name) + 1 BY <1>1, <1>2, <1>3, <3>1, <4>3, BufLen
      <4>4. QED BY <1>1, <4>1, <4>2, <4>3, BufLen
    <3>3. QED BY <3>2
  <2>2. NameBuf(p) = [i \in 1..BUF_LEN |-> NameBuf(p)[i]] BY DEF NameBuf, Overlay
  <2>3. QED BY <2>1, <2>2 DEF Buf
<1>5. /\ k \in 0..BUF_LEN
      /\ \A i \in 1..k : NameBuf(p)[i] # NUL
      /\ k < BUF_LEN => NameBuf(p)[k + 1] = NUL
  BY <1>4, StrLenType
<1>6. Str(NameBuf(p)) = [i \in 1..k |-> NameBuf(p)[i]] BY DEF Str
<1> HIDE DEF k
<1>7. k = Len(name)
  <2>1. ~(k > Len(name))
    <3>1. SUFFICES ASSUME k > Len(name) PROVE FALSE OBVIOUS
    <3>2. Len(name) + 1 \in 1..k /\ Len(name) + 1 \in 1..BUF_LEN BY <1>1, <1>5, <3>1, BufLen
    <3>3. NameBuf(p)[Len(name) + 1] = NUL BY <1>1, <1>2, <1>3, <3>2
    <3>4. QED BY <1>5, <3>2, <3>3
  <2>2. ~(k < Len(name))
    <3>1. SUFFICES ASSUME k < Len(name) PROVE FALSE OBVIOUS
    <3>2. /\ k + 1 \in 1..Len(name) /\ k + 1 \in 1..BUF_LEN /\ k < BUF_LEN
          /\ k + 1 <= Len(text)
      BY <1>1, <1>2, <1>5, <3>1, BufLen
    <3>3. NameBuf(p)[k + 1] # NUL BY <1>2, <1>3, <3>2
    <3>4. QED BY <1>5, <3>2, <3>3
  <2>3. QED BY <1>1, <1>5, <2>1, <2>2, BufLen
<1>8. \A i \in 1..Len(name) : NameBuf(p)[i] = name[i] BY <1>1, <1>2, <1>3, BufLen
<1>9. name = [i \in 1..Len(name) |-> name[i]] BY <1>1
<1>10. Str(NameBuf(p)) = name BY <1>6, <1>7, <1>8, <1>9
<1>11. QED BY <1>4, <1>10 DEF name

\* While a sender connects only echoes change its buffer, and no other sender's.
LEMMA NcpStepBuffer ==
    ASSUME TypeOK, NEW q \in Senders, NcpNext(q)
    PROVE  /\ phase'[q] = "connecting" =>
                 phase[q] = "connecting" /\ ncpBuf'[q] \in {ncpBuf[q], Echoed(q)}
           /\ \A p \in Senders : p # q => phase'[p] = phase[p] /\ ncpBuf'[p] = ncpBuf[p]
<1>0. NcpTypeOK BY DEF TypeOK
<1>1. CASE SendFilename(q) \/ Timeout(q)
  <2>1. UNCHANGED <<phase, ncpBuf>> BY <1>1 DEF SendFilename, Timeout, ncpVars
  <2>2. phase'[q] = "connecting" => phase[q] = "connecting" BY <2>1
  <2>3. QED BY <2>1, <2>2
<1>2. CASE TimeoutFinish(q) BY <1>0, <1>2 DEF TimeoutFinish, Exit, NcpTypeOK
<1>3. ASSUME NEW m \in toNcp, NcpRecv(q, m)
      PROVE  /\ phase'[q] = "connecting" =>
                   phase[q] = "connecting" /\ ncpBuf'[q] \in {ncpBuf[q], Echoed(q)}
             /\ \A p \in Senders : p # q => phase'[p] = phase[p] /\ ncpBuf'[p] = ncpBuf[p]
  <2>1. CASE RecvDecline(q, m) BY <1>0, <2>1 DEF RecvDecline, NcpTypeOK
  <2>2. CASE RecvAccept(q, m) BY <1>0, <2>2 DEF RecvAccept, NcpTypeOK
  <2>3. CASE RecvFinish(q, m) BY <1>0, <2>3 DEF RecvFinish, Exit, NcpTypeOK
  <2>4. CASE RecvStale(q, m) BY <1>0, <2>4 DEF RecvStale, NcpTypeOK
  <2>5. CASE RecvNack(q, m) BY <1>0, <2>5 DEF RecvNack, NcpTypeOK
  <2>6. CASE RecvAckAtEof(q, m) BY <1>0, <2>6 DEF RecvAckAtEof, NcpTypeOK
  <2>7. CASE RecvAck(q, m)
    <3>1. phase' = phase /\ phase[q] = "sending" BY <2>7 DEF RecvAck
    <3>2. PICK buf : ncpBuf' = [ncpBuf EXCEPT ![q] = buf] BY <2>7 DEF RecvAck
    <3>3. QED BY <1>0, <3>1, <3>2 DEF NcpTypeOK
  <2>8. QED BY <1>3, <2>1, <2>2, <2>3, <2>4, <2>5, <2>6, <2>7 DEF NcpRecv
<1>4. QED BY <1>1, <1>2, <1>3 DEF NcpNext

\* A sender's step adds its own file name or a datagram that is not one.
LEMMA NcpStepNames ==
    ASSUME TypeOK, NamesRight, NEW q \in Senders, NcpNext(q)
    PROVE  NamesRight'
\* What a step may send, by what its sender is left with.
<1> DEFINE Silent(p) == phase'[p] = "connecting" /\ ncpBuf'[p] = NameBuf(p)
           Right(m) == m.seq = 0 => \/ m.data = NameBuf(m.src)
                                    \/ ~Silent(m.src) /\ m.data = EchoedNameBuf(m.src)
<1>1. /\ phase[q] = "connecting" => ncpBuf[q] \in {NameBuf(q), EchoedNameBuf(q)}
      /\ phase[q] = "sending" =>
            seq[q] >= 1 /\ \A s \in Slots : ncpWindow[q][s].seq >= 1
  BY DEF NamesRight
<1>2. phase[q] = "connecting" => Echoed(q) = EchoedNameBuf(q)
  BY <1>1, EchoedAgain DEF Echoed, EchoedNameBuf
<1>a. \A p \in Senders : Silent(p) => Unanswered(p)
  <2>1. CASE Silent(q)
    <3>1. phase[q] = "connecting" /\ ncpBuf'[q] \in {ncpBuf[q], Echoed(q)}
          /\ ncpBuf'[q] = NameBuf(q)
      BY <2>1, NcpStepBuffer
    <3>2. ncpBuf[q] = NameBuf(q) BY <1>1, <1>2, <3>1
    <3>3. QED BY <3>1, <3>2, NcpStepBuffer DEF Unanswered
  <2>2. QED BY <2>1, NcpStepBuffer DEF Unanswered
<1>0. /\ NcpTypeOK /\ \A m \in toRcv : Right(m)
      /\ Echoed(q) \in Buf /\ ncpBuf[q] \in Buf
  <2>1. \A m \in toRcv : m.src \in Senders BY DEF TypeOK, NetTypeOK, ToRcvMsg
  <2>2. ASSUME NEW m \in toRcv PROVE Right(m) BY <1>a, <2>1 DEF NamesRight
  <2>3. QED BY <2>2, EchoedType DEF TypeOK, NcpTypeOK
<1>b. ASSUME phase[q] = "connecting", NEW buf \in {ncpBuf[q], Echoed(q)},
             buf = NameBuf(q) \/ ~Silent(q)
      PROVE  Right(FilenameMsg(q, buf))
  BY <1>1, <1>2, <1>b DEF FilenameMsg
<1>3. \A n \in Int : \A b : n >= 1 => Right(FirstSend(q, n, b)) BY DEF FirstSend
<1>4. \A b : Right(FinMsg(q, b)) BY DEF FinMsg
<1>5. phase[q] = "sending" => \A s \in Int : Right(Resend(q, s))
  <2>1. SUFFICES ASSUME phase[q] = "sending", NEW s \in Int PROVE Right(Resend(q, s)) OBVIOUS
  <2>2. ncpWindow[q][Slot(s)].seq >= 1 BY <1>1, <2>1, SlotType
  <2>3. ncpWindow[q][Slot(s)].seq # 0 BY <2>2
  <2>4. Resend(q, s).seq = ncpWindow[q][Slot(s)].seq BY DEF Resend
  <2>5. QED BY <2>3, <2>4
\* What the senders are left with, and what is sent.
<1> DEFINE Kept(p) == /\ phase'[p] = "connecting" => ncpBuf'[p] \in {NameBuf(p), EchoedNameBuf(p)}
                      /\ phase'[p] = "sending" =>
                            seq'[p] >= 1 /\ \A s \in Slots : ncpWindow'[p][s].seq >= 1
<1>6. SUFFICES (\A m \in toRcv' : Right(m)) /\ (\A p \in Senders : Kept(p))
  BY DEF NamesRight, Unanswered
<1>7. ASSUME NEW p \in Senders, phase'[p] = phase[p], ncpBuf'[p] = ncpBuf[p],
             seq'[p] = seq[p], ncpWindow'[p] = ncpWindow[p]
      PROVE  Kept(p)
  BY <1>7 DEF NamesRight
\* No other sender changes.
<1>8. ASSUME Kept(q),
             \A p \in Senders : p # q =>
                /\ phase'[p] = phase[p] /\ ncpBuf'[p] = ncpBuf[p]
                /\ seq'[p] = seq[p] /\ ncpWindow'[p] = ncpWindow[p]
      PROVE  \A p \in Senders : Kept(p)
  <2> HIDE DEF Kept
  <2>1. QED BY <1>7, <1>8
<1> HIDE DEF Right
<1>9. CASE SendFilename(q)
  <2>1. toRcv' \subseteq toRcv \cup {FilenameMsg(q, ncpBuf[q])} /\ phase[q] = "connecting"
    BY <1>9, SentToRcvType DEF SendFilename
  <2>2. UNCHANGED ncpVars BY <1>9 DEF SendFilename
  <2>3. \A p \in Senders : Kept(p) BY <2>2, <1>7 DEF ncpVars
  <2>4. Right(FilenameMsg(q, ncpBuf[q]))
    <3>1. ncpBuf[q] = NameBuf(q) \/ ~Silent(q) BY <2>2 DEF ncpVars
    <3>2. QED BY <1>b, <2>1, <3>1
  <2>5. QED BY <1>0, <2>1, <2>3, <2>4
<1>10. CASE TimeoutFinish(q)
  <2>1. toRcv' \subseteq toRcv \cup {FinMsg(q, ncpBuf[q])}
    BY <1>10, SentToRcvType DEF TimeoutFinish, Exit
  <2>2. /\ phase'[q] = "exited"
        /\ \A p \in Senders : p # q =>
              /\ phase'[p] = phase[p] /\ ncpBuf'[p] = ncpBuf[p]
              /\ seq'[p] = seq[p] /\ ncpWindow'[p] = ncpWindow[p]
    BY <1>0, <1>10 DEF TimeoutFinish, Exit, NcpTypeOK
  <2>3. QED BY <1>0, <1>4, <1>8, <2>1, <2>2
<1>11. CASE Timeout(q)
  <2>1. /\ toRcv' \subseteq toRcv \cup {Resend(q, s) : s \in head[q]..tail[q]}
        /\ phase[q] = "sending"
    BY <1>11, SentToRcvType DEF Timeout
  <2>2. UNCHANGED ncpVars BY <1>11 DEF Timeout
  <2>3. \A p \in Senders : Kept(p) BY <2>2, <1>7 DEF ncpVars
  <2>4. QED BY <1>0, <1>5, <2>1, <2>3
<1>12. ASSUME NEW m \in toNcp, NcpRecv(q, m)
       PROVE  (\A x \in toRcv' : Right(x)) /\ (\A p \in Senders : Kept(p))
  <2>1. CASE RecvDecline(q, m)
    <3>1. toRcv' \subseteq toRcv \cup {FilenameMsg(q, Echoed(q))} /\ phase[q] = "connecting"
      BY <2>1, SentToRcvType DEF RecvDecline
    <3>2. /\ ncpBuf'[q] = Echoed(q) /\ phase'[q] = "connecting"
          /\ \A p \in Senders : p # q =>
                /\ phase'[p] = phase[p] /\ ncpBuf'[p] = ncpBuf[p]
                /\ seq'[p] = seq[p] /\ ncpWindow'[p] = ncpWindow[p]
      BY <1>0, <2>1 DEF RecvDecline, NcpTypeOK
    <3>3. Kept(q) BY <1>2, <3>1, <3>2
    <3>4. \A p \in Senders : Kept(p) BY <1>8, <3>2, <3>3
    <3>5. Right(FilenameMsg(q, Echoed(q)))
      <4>1. Echoed(q) = NameBuf(q) \/ ~Silent(q) BY <3>2
      <4>2. QED BY <1>b, <3>1, <4>1
    <3>6. QED BY <1>0, <3>1, <3>4, <3>5
  <2>2. CASE RecvAccept(q, m)
    <3> DEFINE filled(n) == BufAfter(q, Echoed(q), 1, n)
               first == {FirstSend(q, n, filled(n)) : n \in 1..WINDOW_SIZE}
    <3>1. /\ toRcv' \subseteq toRcv \cup {FilenameMsg(q, Echoed(q))} \cup first
          /\ phase[q] = "connecting"
      BY <2>2, SentToRcvType DEF RecvAccept
    <3> HIDE DEF filled
    <3>2. \A x \in first : Right(x)
      <4>1. ASSUME NEW n \in 1..WINDOW_SIZE PROVE Right(FirstSend(q, n, filled(n)))
        BY <1>3, NetAssumption
      <4>2. QED BY <4>1
    <3> HIDE DEF first
    <3>3. /\ phase'[q] = "sending" /\ seq'[q] = WINDOW_SIZE + 1
          /\ \A p \in Senders : p # q =>
                /\ phase'[p] = phase[p] /\ ncpBuf'[p] = ncpBuf[p]
                /\ seq'[p] = seq[p] /\ ncpWindow'[p] = ncpWindow[p]
      BY <1>0, <2>2 DEF RecvAccept, NcpTypeOK
    <3>4. \A x \in toRcv' : Right(x)
      <4>1. ~Silent(q) BY <3>3
      <4>2. Right(FilenameMsg(q, Echoed(q))) BY <1>b, <3>1, <4>1
      <4>3. QED BY <1>0, <3>1, <3>2, <4>2
    <3>5. \A s \in Slots : ncpWindow'[q][s].seq = IF s = 0 THEN WINDOW_SIZE ELSE s
      BY <1>0, <2>2 DEF RecvAccept, NcpTypeOK
    <3>6. \A s \in Slots : ncpWindow'[q][s].seq >= 1 BY <3>5, NetAssumption DEF Slots
    <3>7. Kept(q) BY <3>3, <3>6, NetAssumption
    <3>8. QED BY <1>8, <3>3, <3>4, <3>7
  <2>3. CASE RecvFinish(q, m)
    <3>1. toRcv' \subseteq toRcv \cup {FinMsg(q, Echoed(q))}
      BY <2>3, SentToRcvType DEF RecvFinish, Exit
    <3>2. /\ phase'[q] = "exited"
          /\ \A p \in Senders : p # q =>
                /\ phase'[p] = phase[p] /\ ncpBuf'[p] = ncpBuf[p]
                /\ seq'[p] = seq[p] /\ ncpWindow'[p] = ncpWindow[p]
      BY <1>0, <2>3 DEF RecvFinish, Exit, NcpTypeOK
    <3>3. QED BY <1>0, <1>4, <1>8, <3>1, <3>2
  <2>4. ASSUME toRcv' = toRcv \/ toRcv' \subseteq toRcv \cup {Resend(q, s) : s \in Int},
               phase[q] = "sending", UNCHANGED <<phase, seq, ncpWindow>>,
               ncpBuf' = [ncpBuf EXCEPT ![q] = Echoed(q)]
        PROVE  (\A x \in toRcv' : Right(x)) /\ (\A p \in Senders : Kept(p))
    <3>1. \A x \in toRcv' : Right(x) BY <1>0, <1>5, <2>4
    <3>2. \A p \in Senders : p # q =>
            /\ phase'[p] = phase[p] /\ ncpBuf'[p] = ncpBuf[p]
            /\ seq'[p] = seq[p] /\ ncpWindow'[p] = ncpWindow[p]
      BY <1>0, <2>4 DEF NcpTypeOK
    <3>3. \A p \in Senders : Kept(p)
      <4>1. Kept(q) BY <1>1, <2>4
      <4>2. QED BY <1>8, <3>2, <4>1
    <3>4. QED BY <3>1, <3>3
  <2>5. CASE RecvStale(q, m) BY <2>4, <2>5 DEF RecvStale
  <2>6. CASE RecvNack(q, m)
    <3>1. m.nack \in NackArray BY <1>12 DEF TypeOK, NetTypeOK, ToNcpMsg
    <3>2. Requested(q, m.nack) \subseteq Int BY <3>1 DEF Requested, NackArray
    <3>3. toRcv' \subseteq toRcv \cup {Resend(q, s) : s \in Requested(q, m.nack)}
      BY <2>6, SentToRcvType DEF RecvNack
    <3>4. toRcv' \subseteq toRcv \cup {Resend(q, s) : s \in Int} BY <3>2, <3>3
    <3>5. QED BY <2>4, <2>6, <3>4 DEF RecvNack
  <2>7. CASE RecvAckAtEof(q, m) BY <2>4, <2>7 DEF RecvAckAtEof
  <2>8. CASE RecvAck(q, m)
    <3> DEFINE filled(k) == BufAfter(q, Echoed(q), seq[q], seq[q] + k - 1)
               sent(n) == {FirstSend(q, seq[q] + k - 1, filled(k)) : k \in 1..n}
    <3>1. PICK n \in 1..(m.cack - head[q] + 1) :
            /\ tail' = [tail EXCEPT ![q] = @ + n]
            /\ seq' = [seq EXCEPT ![q] = seq[q] + n - 1 + 1]
            /\ ncpBuf' = [ncpBuf EXCEPT ![q] = filled(n)]
            /\ ncpWindow' = [ncpWindow EXCEPT ![q] = Shifted(q, Echoed(q), n)]
            /\ SentToRcv(sent(n))
      BY <2>8 DEF RecvAck
    <3>2. phase' = phase /\ phase[q] = "sending" BY <2>8 DEF RecvAck
    <3>3. n \in Nat /\ seq[q] \in Nat /\ seq[q] >= 1
      <4>1. m.cack \in Int BY <1>12 DEF TypeOK, NetTypeOK, ToNcpMsg
      <4>2. head[q] \in Nat /\ seq[q] \in Nat BY <1>0 DEF NcpTypeOK
      <4>3. n \in Nat
        <5> HIDE DEF filled, sent
        <5>1. QED BY <4>1, <4>2
      <4>4. QED BY <1>1, <3>2, <4>2, <4>3
    <3> HIDE DEF filled
    <3>4. \A x \in sent(n) : Right(x)
      <4>1. ASSUME NEW k \in 1..n PROVE Right(FirstSend(q, seq[q] + k - 1, filled(k)))
        <5>1. seq[q] + k - 1 \in Int /\ seq[q] + k - 1 >= 1 BY <3>3
        <5>2. QED BY <1>3, <5>1
      <4>2. QED BY <4>1
    <3> HIDE DEF sent
    <3>5. \A x \in toRcv' : Right(x)
      <4>1. toRcv' \subseteq toRcv \cup sent(n) BY <3>1, SentToRcvType
      <4>2. QED BY <1>0, <3>4, <4>1
    <3>6. /\ seq'[q] = seq[q] + n - 1 + 1 /\ ncpWindow'[q] = Shifted(q, Echoed(q), n)
          /\ \A p \in Senders : p # q =>
                /\ phase'[p] = phase[p] /\ ncpBuf'[p] = ncpBuf[p]
                /\ seq'[p] = seq[p] /\ ncpWindow'[p] = ncpWindow[p]
      BY <1>0, <3>1, <3>2 DEF NcpTypeOK
    <3>7. \A s \in Slots : Shifted(q, Echoed(q), n)[s].seq >= 1
      <4>1. SUFFICES ASSUME NEW s \in Slots PROVE Shifted(q, Echoed(q), n)[s].seq >= 1
        OBVIOUS
      <4>2. \/ Shifted(q, Echoed(q), n)[s] = ncpWindow[q][s]
            \/ \E k \in 1..n : Shifted(q, Echoed(q), n)[s] =
                  [seq |-> seq[q] + k - 1,
                   data |-> BufAfter(q, Echoed(q), seq[q], seq[q] + k - 1)]
        BY <3>3, ShiftedCell
      <4>3. CASE Shifted(q, Echoed(q), n)[s] = ncpWindow[q][s] BY <1>1, <3>2, <4>3
      <4>4. ASSUME NEW k \in 1..n,
                   Shifted(q, Echoed(q), n)[s] =
                     [seq |-> seq[q] + k - 1,
                      data |-> BufAfter(q, Echoed(q), seq[q], seq[q] + k - 1)]
            PROVE  Shifted(q, Echoed(q), n)[s].seq >= 1
        <5>1. Shifted(q, Echoed(q), n)[s].seq = seq[q] + k - 1 BY <4>4
        <5>2. seq[q] + k - 1 >= 1 BY <3>3
        <5>3. QED BY <5>1, <5>2
      <4>5. QED BY <4>2, <4>3, <4>4
    <3>8. Kept(q) BY <3>2, <3>3, <3>6, <3>7
    <3>9. QED BY <1>8, <3>5, <3>6, <3>8
  <2>9. QED BY <1>12, <2>1, <2>2, <2>3, <2>5, <2>6, <2>7, <2>8 DEF NcpRecv
<1>13. QED BY <1>9, <1>10, <1>11, <1>12 DEF NcpNext

\* Every step keeps the file names right.
LEMMA NamesStep ==
    ASSUME TypeOK, NamesRight, [Next]_vars
    PROVE  NamesRight'
<1>1. ASSUME NEW q \in Senders, NcpNext(q) PROVE NamesRight' BY <1>1, NcpStepNames
<1>2. ASSUME toRcv' \subseteq toRcv, UNCHANGED ncpVars PROVE NamesRight'
  BY <1>2 DEF NamesRight, Unanswered, ncpVars
<1>3. CASE RcvNext /\ UNCHANGED ncpVars BY <1>2, <1>3, RcvTakes
<1>4. CASE PortClosed BY <1>2, <1>4 DEF PortClosed
<1>5. CASE UNCHANGED vars BY <1>2, <1>5 DEF vars, netVars
<1>6. QED BY <1>1, <1>3, <1>4, <1>5 DEF Next

\* Whoever asks, however datagrams overtake each other, and whatever earlier datagrams and
\* the echo left in the buffers: a session opens the file that its sender named, or, once
\* that sender has been answered, the one that the echo makes of its name.
THEOREM NamedFileOpens == Spec => OpensTheNamedFile
<1> DEFINE Opens == \/ fw' = DestName[current']
                    \/ ~Unanswered(current') /\ fw' = Str(EchoedNameBuf(current'))
<1>1. Init => NamesRight BY DEF Init, NetInit, NcpInit, NamesRight, NameBuf
<1>2. TypeOK /\ NamesRight /\ [Next]_vars => NamesRight' BY NamesStep
<1>3. ASSUME TypeOK, NamesRight, [Next]_vars, hassender', ~hassender
      PROVE  Opens
  <2>1. PICK m \in toRcv : RcvOpen(m)
    <3>1. RcvNext
      BY <1>3 DEF Next, PortClosed, vars, rcvVars
    <3>2. PICK m \in toRcv : RcvRecv(m) BY <1>3, <3>1 DEF RcvNext, RcvIdle
    <3>3. QED
      BY <1>3, <3>2 DEF RcvRecv, RcvStray, RcvOpenFails, RcvDecline, RcvClose, RcvInOrder,
                        RcvEarly, RcvDrop, FromCurrent
  <2>2. current' = m.src /\ fw' = Str(Received(m)) /\ m.seq = 0 BY <2>1 DEF RcvOpen
  <2>3. m.src \in Senders BY <1>3 DEF TypeOK, NetTypeOK, ToRcvMsg
  <2>4. /\ m.data \in Buf
        /\ \/ m.data = NameBuf(m.src)
           \/ ~Unanswered(m.src) /\ m.data = EchoedNameBuf(m.src)
    <3>1. NameBuf(m.src) \in Buf /\ EchoedNameBuf(m.src) \in Buf
      BY <2>3, NameBufString, OverlayType, NcpAssumption DEF EchoedNameBuf
    <3>2. QED BY <1>3, <2>1, <2>2, <3>1 DEF NamesRight
  <2>5. Received(m) = m.data
    <3>1. Len(m.data) = BUF_LEN BY <2>4, BufBytes
    <3>2. \A i \in 1..BUF_LEN : i <= Len(m.data) BY <3>1, BufLen
    <3>3. QED BY <2>4, <3>2 DEF Received, Overlay, Buf
  <2>6. QED BY <2>2, <2>3, <2>4, <2>5, NameBufString
<1>4. TypeOK /\ NamesRight /\ [Next]_vars => [hassender' /\ ~hassender => Opens]_vars
  BY <1>3
<1>5. QED BY <1>1, <1>2, <1>4, TypeCorrect, PTL DEF Spec, OpensTheNamedFile

-----------------------------------------------------------------------------
(* Full packets reach the file *)

\* Behind the file name the first buffer ends with a NUL.
LEMMA NameBufEnds ==
    ASSUME CleanBuffers, NEW p \in Senders
    PROVE  Ends(NameBuf(p))
<1> DEFINE name == DestName[p]
           text == name \o <<NUL>>
<1>1. name \in Seq(Byte) /\ Len(name) \in 1..DATA_LEN BY NcpAssumption
<1>2. Len(text) = Len(name) + 1 /\ text[Len(name) + 1] = NUL
  <2>1. <<NUL>> \in Seq({NUL}) BY DEF Cell
  <2> HIDE DEF name
  <2>2. QED BY <1>1, <2>1
<1>3. Len(name) = DATA_LEN \/ Stack = NUL BY DEF CleanBuffers
<1> HIDE DEF name, text
<1>a. \A i \in 1..BUF_LEN : NameBuf(p)[i] = IF i <= Len(text) THEN text[i] ELSE Stack
  BY DEF NameBuf, Overlay, Uninitialised, text, name
<1>b. BUF_LEN \in 1..BUF_LEN BY BufLen
<1>4. NameBuf(p)[BUF_LEN] = IF BUF_LEN <= Len(text) THEN text[BUF_LEN] ELSE Stack
  BY <1>a, <1>b
<1>5. BUF_LEN <= Len(text) <=> Len(name) = DATA_LEN BY <1>1, <1>2, BufLen
<1>6. Len(name) = DATA_LEN => text[BUF_LEN] = NUL BY <1>1, <1>2, BufLen
<1>7. QED BY <1>3, <1>4, <1>5, <1>6 DEF Ends

\* Nor does the echo spoil the end of the sender's buffer.
LEMMA EchoedEnds ==
    ASSUME TypeOK, CleanBuffers, NEW p \in Senders, Ends(ncpBuf[p])
    PROVE  Echoed(p) \in Buf /\ Ends(Echoed(p))
<1>1. ncpBuf[p] \in Buf BY DEF TypeOK, NcpTypeOK
<1>2. EchoData \in Payload /\ Ends(EchoData)
  BY NcpAssumption, PayloadType, BufLen DEF CleanBuffers, Ends
<1>3. QED BY <1>1, <1>2, OverlayEnds, EchoedType DEF Echoed

\* What may be said of every datagram, and of those that bring a packet.
Fits(m) == Ends(m.data) /\ (m.seq = 0 => Len(m.data) = BUF_LEN)
Brings(p, m) == m.src = p /\ m.seq >= 1 => Begins(p, m.data, m.seq)

\* The datagrams that a sender makes from its buffers are such.
LEMMA SentContent ==
    ASSUME NEW p \in Senders, NEW buf \in Buf, Ends(buf)
    PROVE  /\ Fits(FilenameMsg(p, buf)) /\ Brings(p, FilenameMsg(p, buf))
           /\ Fits(FinMsg(p, buf)) /\ Brings(p, FinMsg(p, buf))
           /\ \A n \in Nat \ {0} : Holds(p, buf, n) =>
                 Fits(FirstSend(p, n, buf)) /\ Brings(p, FirstSend(p, n, buf))
<1>1. Len(buf) = BUF_LEN /\ Ends(Str(buf)) BY BufBytes, StrEnds
<1>2. Fits(FilenameMsg(p, buf)) /\ Brings(p, FilenameMsg(p, buf))
  BY <1>1 DEF FilenameMsg, Fits, Brings
<1>3. Fits(FinMsg(p, buf)) /\ Brings(p, FinMsg(p, buf)) BY <1>1 DEF FinMsg, Fits, Brings
<1>4. ASSUME NEW n \in Nat \ {0}, Holds(p, buf, n)
      PROVE  Fits(FirstSend(p, n, buf)) /\ Brings(p, FirstSend(p, n, buf))
  <2>1. Begins(p, Str(buf), n) BY <1>4, StrBegins
  <2>2. /\ FirstSend(p, n, buf).seq = n /\ n # 0
        /\ FirstSend(p, n, buf).data = Str(buf)
    BY DEF FirstSend
  <2>3. QED BY <1>1, <2>1, <2>2 DEF Fits, Brings
<1>5. QED BY <1>2, <1>3, <1>4

\* So are those that it makes from its window, when it resends.
LEMMA ResendContent ==
    ASSUME TypeOK, NEW p \in Senders, NEW s \in Int,
           \A x \in Slots : Holds(p, ncpWindow[p][x].data, ncpWindow[p][x].seq)
    PROVE  Fits(Resend(p, s)) /\ Brings(p, Resend(p, s))
<1>1. Slot(s) \in Slots BY SlotType
<1>2. ncpWindow[p][Slot(s)] \in Packet BY <1>1 DEF TypeOK, NcpTypeOK
<1>3. Len(ncpWindow[p][Slot(s)].data) = BUF_LEN BY <1>2, BufBytes DEF Packet
<1>4. Holds(p, ncpWindow[p][Slot(s)].data, ncpWindow[p][Slot(s)].seq) BY <1>1
<1>5. QED BY <1>3, <1>4 DEF Resend, Fits, Brings, Holds

\* What a step of the sender does to the contents.
LEMMA NcpStepContent ==
    ASSUME SessionInv, ContentInv, CleanBuffers, NEW p \in Senders, NcpNext(p), UNCHANGED rcvVars
    PROVE  SenderContent(p)' /\ ReceiverContent(p)'
<1>1. TypeOK /\ WhileConnecting(p) /\ WhileSending(p) BY DEF SessionInv
<1>2. SenderContent(p) /\ ReceiverContent(p) BY DEF ContentInv
<1>3. NcpTypeOK /\ ncpBuf[p] \in Buf BY <1>1 DEF TypeOK, NcpTypeOK
<1>4. Echoed(p) \in Buf /\ Ends(Echoed(p)) BY <1>1, <1>2, EchoedEnds DEF SenderContent
<1>5. Ends(ncpBuf[p]) /\ \A m \in toRcv : Fits(m) BY <1>2 DEF SenderContent, Fits
<1>6. phase[p] = "sending" =>
        /\ \A m \in toRcv : Brings(p, m)
        /\ \A x \in Slots : Holds(p, ncpWindow[p][x].data, ncpWindow[p][x].seq)
  BY <1>2 DEF SenderContent, Brings
<1>7. UNCHANGED <<hassender, current, rcvBuf, C_ack, buffer, rcvWindow, fw, file>>
  BY DEF rcvVars, sessionVars
\* The receiver's side, when the sender does not begin to send.
<1>a. ASSUME phase'[p] = phase[p] \/ phase'[p] = "exited"
      PROVE  ReceiverContent(p)'
  BY <1>2, <1>7, <1>a DEF ReceiverContent
\* The sender's side, when what it sends is as it should be.
<1>b. ASSUME \A m \in toRcv' : Fits(m), Ends(ncpBuf'[p]),
             phase'[p] = "sending" =>
               /\ \A m \in toRcv' : Brings(p, m)
               /\ \A x \in Slots : Holds(p, ncpWindow'[p][x].data, ncpWindow'[p][x].seq)
      PROVE  SenderContent(p)'
  BY <1>b DEF SenderContent, Fits, Brings
\* Packets are sent again.
<1>c. ASSUME phase[p] = "sending", UNCHANGED <<phase, ncpWindow>>, Ends(ncpBuf'[p]),
             NEW asked \in SUBSET Int,
             toRcv' \subseteq toRcv \cup {Resend(p, s) : s \in asked}
      PROVE  SenderContent(p)' /\ ReceiverContent(p)'
  <2>1. \A s \in asked : Fits(Resend(p, s)) /\ Brings(p, Resend(p, s))
    BY <1>1, <1>6, <1>c, ResendContent
  <2>2. \A m \in toRcv' : Fits(m) /\ Brings(p, m) BY <1>5, <1>6, <1>c, <2>1
  <2>3. QED BY <1>6, <1>a, <1>b, <1>c, <2>2
\* The sender stops.
<1>d. ASSUME NEW buf \in Buf, Ends(buf), Exit(p, buf)
      PROVE  SenderContent(p)' /\ ReceiverContent(p)'
  <2>1. phase'[p] = "exited" /\ ncpBuf'[p] = buf BY <1>3, <1>d DEF Exit, NcpTypeOK
  <2>2. toRcv' \subseteq toRcv \cup {FinMsg(p, buf)} BY <1>d, SentToRcvType DEF Exit
  <2>3. Fits(FinMsg(p, buf)) BY <1>d, SentContent
  <2>4. \A m \in toRcv' : Fits(m) BY <1>5, <2>2, <2>3
  <2>5. QED BY <1>a, <1>b, <1>d, <2>1, <2>4
\* The file name is repeated.
<1>e. ASSUME phase[p] = "connecting", UNCHANGED phase, NEW buf \in Buf, Ends(buf),
             ncpBuf'[p] = buf, toRcv' \subseteq toRcv \cup {FilenameMsg(p, buf)}
      PROVE  SenderContent(p)' /\ ReceiverContent(p)'
  <2>1. Fits(FilenameMsg(p, buf)) BY <1>e, SentContent
  <2>2. \A m \in toRcv' : Fits(m) BY <1>5, <1>e, <2>1
  <2>3. QED BY <1>a, <1>b, <1>e, <2>2
<1>8. CASE SendFilename(p)
  <2>1. /\ phase[p] = "connecting" /\ UNCHANGED phase /\ ncpBuf'[p] = ncpBuf[p]
        /\ toRcv' \subseteq toRcv \cup {FilenameMsg(p, ncpBuf[p])}
    BY <1>8, SentToRcvType DEF SendFilename, ncpVars
  <2>2. QED BY <1>3, <1>5, <1>e, <2>1
<1>9. CASE TimeoutFinish(p)
  BY <1>3, <1>5, <1>9, <1>d DEF TimeoutFinish
<1>10. CASE Timeout(p)
  <2>1. /\ phase[p] = "sending" /\ UNCHANGED <<phase, ncpWindow, ncpBuf>>
        /\ toRcv' \subseteq toRcv \cup {Resend(p, s) : s \in head[p]..tail[p]}
    BY <1>10, SentToRcvType DEF Timeout, ncpVars
  <2>2. head[p]..tail[p] \in SUBSET Int OBVIOUS
  <2>3. QED BY <1>5, <1>c, <2>1, <2>2
<1>11. ASSUME NEW m \in toNcp, NcpRecv(p, m)
       PROVE  SenderContent(p)' /\ ReceiverContent(p)'
  <2>0. m.cack \in Int /\ m.nack \in NackArray BY <1>1 DEF TypeOK, NetTypeOK, ToNcpMsg
  <2>1. CASE RecvDecline(p, m)
    <3>1. /\ phase[p] = "connecting" /\ UNCHANGED phase /\ ncpBuf'[p] = Echoed(p)
          /\ toRcv' \subseteq toRcv \cup {FilenameMsg(p, Echoed(p))}
      BY <1>3, <2>1, SentToRcvType DEF RecvDecline, NcpTypeOK
    <3>2. QED BY <1>4, <1>e, <3>1
  <2>2. CASE RecvAccept(p, m)
    <3> DEFINE filled(n) == BufAfter(p, Echoed(p), 1, n)
    <3>1. /\ phase[p] = "connecting" /\ phase'[p] = "sending"
          /\ ncpBuf'[p] = filled(WINDOW_SIZE)
          /\ ncpWindow'[p] = [s \in Slots |->
                LET n == IF s = 0 THEN WINDOW_SIZE ELSE s
                IN  [seq |-> n, data |-> filled(n)]]
      BY <1>3, <2>2 DEF RecvAccept, NcpTypeOK
    <3>2. toRcv' \subseteq toRcv \cup ({FilenameMsg(p, Echoed(p))}
                             \cup {FirstSend(p, n, filled(n)) : n \in 1..WINDOW_SIZE})
      BY <2>2, SentToRcvType DEF RecvAccept
    <3>3. ASSUME NEW n \in 1..WINDOW_SIZE
          PROVE  n \in Nat \ {0} /\ filled(n) \in Buf /\ Holds(p, filled(n), n)
      BY <1>4, BufAfterType, BufAfterHolds, NetAssumption
    <3>4. WINDOW_SIZE \in 1..WINDOW_SIZE BY NetAssumption
    <3> HIDE DEF filled
    <3>5. \A n \in 1..WINDOW_SIZE :
            Fits(FirstSend(p, n, filled(n))) /\ Brings(p, FirstSend(p, n, filled(n)))
      BY <3>3, SentContent DEF Holds
    <3>6. Fits(FilenameMsg(p, Echoed(p))) /\ Brings(p, FilenameMsg(p, Echoed(p)))
      BY <1>4, SentContent
    <3>7. \A x \in toRcv : x.src = p => x.seq = 0 BY <1>1, <3>1 DEF WhileConnecting
    <3>8. \A x \in toRcv : Brings(p, x) BY <3>7 DEF Brings
    <3>9. \A x \in toRcv' : Fits(x) /\ Brings(p, x) BY <1>5, <3>2, <3>5, <3>6, <3>8
    <3>10. Ends(ncpBuf'[p]) BY <3>1, <3>3, <3>4 DEF Holds
    <3>11. ASSUME NEW x \in Slots
           PROVE  Holds(p, ncpWindow'[p][x].data, ncpWindow'[p][x].seq)
      <4> DEFINE n == IF x = 0 THEN WINDOW_SIZE ELSE x
      <4>1. n \in 1..WINDOW_SIZE BY NetAssumption DEF Slots
      <4>2. ncpWindow'[p][x] = [seq |-> n, data |-> filled(n)] BY <3>1
      <4> HIDE DEF n
      <4>3. QED BY <3>3, <4>1, <4>2
    <3>12. SenderContent(p)' BY <1>b, <3>9, <3>10, <3>11
    <3>13. ReceiverContent(p)'
      <4>1. m.cack = 0 /\ m.cack >= 0 /\ m.dst = p BY <2>2 DEF RecvAccept
      <4>2. hassender /\ current = p /\ C_ack = 0 /\ Taken = {}
        BY <1>1, <1>11, <3>1, <4>1 DEF WhileConnecting
      <4>3. Len(file[fw]) = 0 /\ Ends(rcvBuf) BY <1>2, <3>1, <4>2 DEF ReceiverContent
      <4>4. \A x \in Slots : buffer[x] # 1 BY <4>2 DEF Taken
      <4>5. \A n \in 1..0 : FALSE OBVIOUS
      <4>6. QED BY <1>7, <3>1, <4>2, <4>3, <4>4, <4>5 DEF ReceiverContent
    <3>14. QED BY <3>12, <3>13
  <2>3. CASE RecvFinish(p, m) BY <1>4, <1>d, <2>3 DEF RecvFinish
  <2>4. CASE RecvStale(p, m)
    <3>1. /\ phase[p] = "sending" /\ UNCHANGED <<phase, ncpWindow>>
          /\ ncpBuf'[p] = Echoed(p) /\ toRcv' \subseteq toRcv \cup {Resend(p, s) : s \in {}}
      BY <1>3, <2>4 DEF RecvStale, NcpTypeOK
    <3>2. {} \in SUBSET Int OBVIOUS
    <3>3. QED BY <1>4, <1>c, <3>1, <3>2
  <2>5. CASE RecvNack(p, m)
    <3>1. /\ phase[p] = "sending" /\ UNCHANGED <<phase, ncpWindow>>
          /\ ncpBuf'[p] = Echoed(p)
          /\ toRcv' \subseteq toRcv \cup {Resend(p, s) : s \in Requested(p, m.nack)}
      BY <1>3, <2>5, SentToRcvType DEF RecvNack, NcpTypeOK
    <3>2. Requested(p, m.nack) \in SUBSET Int BY <2>0 DEF Requested, NackArray
    <3>3. QED BY <1>4, <1>c, <3>1, <3>2
  <2>6. CASE RecvAckAtEof(p, m)
    <3>1. /\ phase[p] = "sending" /\ UNCHANGED <<phase, ncpWindow>>
          /\ ncpBuf'[p] = Echoed(p) /\ toRcv' \subseteq toRcv \cup {Resend(p, s) : s \in {}}
      BY <1>3, <2>6 DEF RecvAckAtEof, NcpTypeOK
    <3>2. {} \in SUBSET Int OBVIOUS
    <3>3. QED BY <1>4, <1>c, <3>1, <3>2
  <2>7. CASE RecvAck(p, m)
    <3> DEFINE filled(k) == BufAfter(p, Echoed(p), seq[p], seq[p] + k - 1)
               sent(n) == {FirstSend(p, seq[p] + k - 1, filled(k)) : k \in 1..n}
    <3>1. PICK n \in 1..(m.cack - head[p] + 1) :
            /\ ncpBuf' = [ncpBuf EXCEPT ![p] = filled(n)]
            /\ ncpWindow' = [ncpWindow EXCEPT ![p] = Shifted(p, Echoed(p), n)]
            /\ SentToRcv(sent(n))
      BY <2>7 DEF RecvAck
    <3>2. phase' = phase /\ phase[p] = "sending" BY <2>7 DEF RecvAck
    <3>3. seq[p] \in Nat /\ seq[p] >= 1 /\ head[p] \in Nat
      BY <1>1, <1>3, <3>2 DEF NcpTypeOK, WhileSending
    <3>4. n \in Nat /\ n >= 1
      <4> HIDE DEF filled, sent
      <4>1. QED BY <2>0, <3>3
    <3>5. ncpBuf'[p] = filled(n) /\ ncpWindow'[p] = Shifted(p, Echoed(p), n)
      BY <1>3, <3>1 DEF NcpTypeOK
    <3>6. ASSUME NEW k \in 1..n
          PROVE  /\ seq[p] + k - 1 \in Nat \ {0} /\ filled(k) \in Buf
                 /\ Holds(p, filled(k), seq[p] + k - 1)
      <4>1. seq[p] + k - 1 \in Nat \ {0} /\ seq[p] <= seq[p] + k - 1 BY <3>3
      <4>2. QED BY <1>4, <3>3, <4>1, BufAfterType, BufAfterHolds
    <3> HIDE DEF filled
    <3>7. \A k \in 1..n : /\ Fits(FirstSend(p, seq[p] + k - 1, filled(k)))
                          /\ Brings(p, FirstSend(p, seq[p] + k - 1, filled(k)))
      BY <3>6, SentContent DEF Holds
    <3>8. \A x \in sent(n) : Fits(x) /\ Brings(p, x) BY <3>7
    <3> HIDE DEF sent
    <3>9. toRcv' \subseteq toRcv \cup sent(n) BY <3>1, SentToRcvType
    <3>10. \A x \in toRcv' : Fits(x) /\ Brings(p, x) BY <1>5, <1>6, <3>2, <3>8, <3>9
    <3>11. Ends(ncpBuf'[p]) BY <3>4, <3>5, <3>6 DEF Holds
    <3>12. ASSUME NEW x \in Slots
           PROVE  Holds(p, ncpWindow'[p][x].data, ncpWindow'[p][x].seq)
      <4>1. \/ ncpWindow'[p][x] = ncpWindow[p][x]
            \/ \E k \in 1..n : ncpWindow'[p][x] = [seq |-> seq[p] + k - 1, data |-> filled(k)]
        BY <3>4, <3>5, ShiftedCell DEF filled
      <4>2. CASE ncpWindow'[p][x] = ncpWindow[p][x] BY <1>6, <3>2, <4>2
      <4>3. ASSUME NEW k \in 1..n,
                   ncpWindow'[p][x] = [seq |-> seq[p] + k - 1, data |-> filled(k)]
            PROVE  Holds(p, ncpWindow'[p][x].data, ncpWindow'[p][x].seq)
        BY <3>6, <4>3
      <4>4. QED BY <4>1, <4>2, <4>3
    <3>13. QED BY <1>a, <1>b, <3>2, <3>10, <3>11, <3>12
  <2>8. QED BY <1>11, <2>1, <2>2, <2>3, <2>4, <2>5, <2>6, <2>7 DEF NcpRecv
<1>12. QED BY <1>8, <1>9, <1>10, <1>11 DEF NcpNext

\* Another sender's step leaves them alone.
LEMMA OtherStepContent ==
    ASSUME SessionInv, ContentInv, NEW p \in Senders, NEW q \in Senders, p # q, NcpNext(q),
           UNCHANGED rcvVars, SenderContent(q)'
    PROVE  SenderContent(p)' /\ ReceiverContent(p)'
<1>1. TypeOK /\ SenderContent(p) /\ ReceiverContent(p) BY DEF SessionInv, ContentInv
<1>2. /\ \A m \in toRcv' : m.src = p => m \in toRcv
      /\ phase'[p] = phase[p] /\ ncpBuf'[p] = ncpBuf[p] /\ ncpWindow'[p] = ncpWindow[p]
  BY <1>1, NcpTouches
<1>3. \A m \in toRcv' : Ends(m.data) /\ (m.seq = 0 => Len(m.data) = BUF_LEN)
  BY DEF SenderContent
<1>4. SenderContent(p)' BY <1>1, <1>2, <1>3 DEF SenderContent
<1>5. UNCHANGED <<hassender, current, rcvBuf, C_ack, buffer, rcvWindow, fw, file>>
  BY DEF rcvVars, sessionVars
<1>6. ReceiverContent(p)' BY <1>1, <1>2, <1>5 DEF ReceiverContent
<1>7. QED BY <1>4, <1>6

\* What one sequence behind another is made of.
LEMMA Behind ==
    ASSUME NEW S, NEW a \in Seq(S), NEW b \in Seq(S)
    PROVE  /\ Len(a \o b) = Len(a) + Len(b)
           /\ \A n \in 1..Len(a) : (a \o b)[n] = a[n]
           /\ \A n \in 1..Len(b) : (a \o b)[Len(a) + n] = b[n]
<1>1. Len(a) \in Nat /\ Len(b) \in Nat OBVIOUS
<1>2. Len(a \o b) = Len(a) + Len(b) OBVIOUS
<1>3. \A n \in 1..Len(a) : (a \o b)[n] = a[n] BY <1>1
<1>4. \A n \in 1..Len(b) : (a \o b)[Len(a) + n] = b[n] BY <1>1
<1>5. QED BY <1>2, <1>3, <1>4

\* The packet expected, and those drained behind it, are written as they were read.
LEMMA InOrderContent ==
    ASSUME SessionInv, NEW p \in Senders, phase[p] = "sending", ReceiverContent(p),
           NEW m \in toRcv, RcvInOrder(m), Received(m) \in Buf,
           Holds(p, Received(m), m.seq)
    PROVE  /\ \A x \in Slots :
                 buffer'[x] = 1 => Holds(p, rcvWindow'[x].data, rcvWindow'[x].seq)
           /\ Len(file'[fw']) = C_ack'
           /\ \A n \in 1..C_ack' : FullRead(p, n) => file'[fw'][n] = Read(p, n)
<1>1. TypeOK /\ WhileSending(p) BY DEF SessionInv
<1>2. ReceiverHolds(p) BY <1>1 DEF WhileSending
<1>3. C_ack \in Nat /\ WINDOW_SIZE \in Nat /\ WINDOW_SIZE > 0 BY <1>1, WindowTypes
<1>4. /\ rcvWindow \in [Slots -> RcvPacket]
      /\ fw \in DOMAIN file /\ file \in [DOMAIN file -> Seq(Payload)]
  BY <1>1 DEF TypeOK, RcvTypeOK
<1>5. /\ \A x \in Slots :
            buffer[x] = 1 => Holds(p, rcvWindow[x].data, rcvWindow[x].seq)
      /\ Len(file[fw]) = C_ack
      /\ \A n \in 1..C_ack : FullRead(p, n) => file[fw][n] = Read(p, n)
  BY DEF ReceiverContent
<1> DEFINE drained(d) == {Slot(C_ack + 1 + j) : j \in 1..d}
           Text(j) == IF j = 1 THEN Str(Received(m))
                        ELSE Str(rcvWindow[Slot(C_ack + j)].data)
           texts(d) == [j \in 1..(d + 1) |-> Text(j)]
<1>6. PICK d \in 0..(WINDOW_SIZE - 1) :
        /\ Drains(C_ack, d)
        /\ C_ack' = C_ack + 1 + d
        /\ buffer' = [s \in Slots |-> IF s \in drained(d) THEN 0 ELSE buffer[s]]
        /\ rcvWindow' = [s \in Slots |->
              IF s \in drained(d) THEN [rcvWindow[s] EXCEPT !.data = Bzero(@)]
                                 ELSE rcvWindow[s]]
        /\ file' = [file EXCEPT ![fw] = @ \o texts(d)]
  BY DEF RcvInOrder
<1>7. m.seq = C_ack + 1 /\ fw' = fw /\ d \in Nat /\ d <= WINDOW_SIZE - 1
  BY <1>3 DEF RcvInOrder
<1>8. \A x \in Slots :
        buffer'[x] = 1 => Holds(p, rcvWindow'[x].data, rcvWindow'[x].seq)
  <2>1. SUFFICES ASSUME NEW x \in Slots, buffer'[x] = 1
                 PROVE  Holds(p, rcvWindow'[x].data, rcvWindow'[x].seq)
    OBVIOUS
  <2> HIDE DEF drained, texts
  <2>2. x \notin drained(d) /\ buffer[x] = 1 /\ rcvWindow'[x] = rcvWindow[x] BY <1>6, <2>1
  <2>3. QED BY <1>5, <2>2
\* What is written.
<1>9. ASSUME NEW j \in 1..(d + 1)
      PROVE  Text(j) \in Payload /\ (FullRead(p, C_ack + j) => Text(j) = Read(p, C_ack + j))
  <2>1. CASE j = 1
    <3>1. Text(j) = Str(Received(m)) BY <2>1
    <3>2. Str(Received(m)) \in Payload BY StrType
    <3>3. C_ack + j = m.seq /\ m.seq \in Int BY <1>3, <1>7, <2>1
    <3> HIDE DEF Text
    <3>4. QED BY <3>1, <3>2, <3>3, StrExact
  <2>2. CASE j # 1
    <3> DEFINE s == C_ack + j
               w == rcvWindow[Slot(s)]
    <3>1. /\ j - 1 \in 1..d /\ C_ack + 1 + (j - 1) = s
          /\ s \in (C_ack + 2)..(C_ack + WINDOW_SIZE) /\ s \in Int
      BY <1>3, <1>7, <2>2
    <3>2. Text(j) = Str(w.data) BY <2>2
    <3> HIDE DEF s, Text
    <3>3. buffer[Slot(s)] = 1 /\ Slot(s) \in Slots
      <4>1. buffer[Slot(C_ack + 1 + (j - 1))] = 1 BY <1>6, <3>1 DEF Drains
      <4>2. QED BY <3>1, <4>1, SlotType
    <3>4. w.seq = s BY <1>2, <3>1, <3>3 DEF ReceiverHolds
    <3>5. w \in RcvPacket /\ Holds(p, w.data, w.seq) BY <1>4, <1>5, <3>3
    <3> HIDE DEF w
    <3>6. w.data \in Buf /\ Str(w.data) \in Payload BY <3>5, StrType DEF RcvPacket
    <3>7. FullRead(p, s) => Str(w.data) = Read(p, s) BY <3>1, <3>4, <3>5, <3>6, StrExact
    <3>8. QED BY <3>2, <3>6, <3>7 DEF s
  <2>3. QED BY <2>1, <2>2
<1> HIDE DEF Text
<1>10. /\ texts(d) \in Seq(Payload) /\ Len(texts(d)) = d + 1
       /\ \A j \in 1..(d + 1) : texts(d)[j] = Text(j)
  BY <1>7, <1>9
<1>11. file'[fw] = file[fw] \o texts(d)
  <2> HIDE DEF texts, drained
  <2>1. QED BY <1>4, <1>6
<1> HIDE DEF texts
<1>12. file[fw] \in Seq(Payload) BY <1>4
<1>13. /\ Len(file'[fw]) = C_ack + (d + 1)
       /\ \A n \in 1..C_ack : file'[fw][n] = file[fw][n]
       /\ \A n \in (C_ack + 1)..(C_ack + 1 + d) : file'[fw][n] = Text(n - C_ack)
  <2>1. /\ Len(file[fw] \o texts(d)) = Len(file[fw]) + Len(texts(d))
        /\ \A n \in 1..Len(file[fw]) : (file[fw] \o texts(d))[n] = file[fw][n]
        /\ \A n \in 1..Len(texts(d)) :
              (file[fw] \o texts(d))[Len(file[fw]) + n] = texts(d)[n]
    <3>1. texts(d) \in Seq(Payload) BY <1>10
    <3> DEFINE a == file[fw]
               b == texts(d)
    <3>2. a \in Seq(Payload) /\ b \in Seq(Payload) BY <1>12, <3>1
    <3> HIDE DEF a, b
    <3>3. /\ Len(a \o b) = Len(a) + Len(b)
          /\ \A n \in 1..Len(a) : (a \o b)[n] = a[n]
          /\ \A n \in 1..Len(b) : (a \o b)[Len(a) + n] = b[n]
      BY <3>2, Behind
    <3>4. QED BY <3>3 DEF a, b
  <2>2. /\ Len(file'[fw]) = C_ack + (d + 1)
        /\ \A n \in 1..C_ack : file'[fw][n] = file[fw][n]
        /\ \A n \in 1..(d + 1) : file'[fw][C_ack + n] = Text(n)
    <3>1. Len(file[fw]) = C_ack /\ Len(texts(d)) = d + 1 BY <1>5, <1>10
    <3>2. Len(file'[fw]) = C_ack + (d + 1) BY <1>11, <2>1, <3>1
    <3>3. \A n \in 1..C_ack : file'[fw][n] = file[fw][n] BY <1>11, <2>1, <3>1
    <3>4. \A n \in 1..(d + 1) : file'[fw][C_ack + n] = texts(d)[n] BY <1>11, <2>1, <3>1
    <3>5. QED BY <1>10, <3>2, <3>3, <3>4
  <2>3. ASSUME NEW n \in (C_ack + 1)..(C_ack + 1 + d) PROVE file'[fw][n] = Text(n - C_ack)
    <3>1. n - C_ack \in 1..(d + 1) /\ C_ack + (n - C_ack) = n BY <1>3, <1>7
    <3>2. QED BY <2>2, <3>1
  <2>4. QED BY <2>2, <2>3
<1>14. ASSUME NEW n \in 1..C_ack', FullRead(p, n) PROVE file'[fw][n] = Read(p, n)
  <2>1. CASE n <= C_ack
    <3>1. n \in 1..C_ack BY <1>3, <1>6, <1>7, <2>1
    <3>2. QED BY <1>5, <1>13, <1>14, <3>1
  <2>2. CASE ~(n <= C_ack)
    <3>1. /\ n \in (C_ack + 1)..(C_ack + 1 + d)
          /\ n - C_ack \in 1..(d + 1) /\ C_ack + (n - C_ack) = n
      BY <1>3, <1>6, <1>7, <2>2
    <3>2. FullRead(p, C_ack + (n - C_ack)) BY <1>14, <3>1
    <3>3. Text(n - C_ack) = Read(p, C_ack + (n - C_ack)) BY <1>9, <3>1, <3>2
    <3>4. QED BY <1>13, <3>1, <3>3
  <2>3. QED BY <2>1, <2>2
<1>15. Len(file'[fw]) = C_ack' BY <1>3, <1>6, <1>7, <1>13
<1>16. QED BY <1>7, <1>8, <1>14, <1>15

\* What a step of the receiver does to the contents.
LEMMA RcvStepContent ==
    ASSUME SessionInv, ContentInv, RcvNext, UNCHANGED ncpVars, NEW p \in Senders
    PROVE  SenderContent(p)' /\ ReceiverContent(p)'
<1>1. TypeOK /\ WhileConnecting(p) /\ WhileSending(p) BY DEF SessionInv
<1>2. SenderContent(p) /\ ReceiverContent(p) BY DEF ContentInv
<1>3. UNCHANGED <<phase, ncpBuf, ncpWindow>> /\ toRcv' \subseteq toRcv
  BY RcvTakes DEF ncpVars
<1>4. SenderContent(p)' BY <1>2, <1>3 DEF SenderContent
<1>5. phase[p] = "sending" => hassender /\ current = p BY <1>1 DEF WhileSending
<1>6. RcvTypeOK /\ rcvBuf \in Buf /\ rcvWindow \in [Slots -> RcvPacket]
  BY <1>1 DEF TypeOK, RcvTypeOK
\* A step that leaves the packets and the file alone.
<1>a. ASSUME UNCHANGED <<hassender, current, sessionVars, fw, file>>, hassender => Ends(rcvBuf')
      PROVE  ReceiverContent(p)'
  BY <1>2, <1>3, <1>a DEF ReceiverContent, sessionVars
\* Without a session nothing is asked for.
<1>b. ASSUME phase[p] # "sending", ~hassender' PROVE ReceiverContent(p)'
  BY <1>3, <1>b DEF ReceiverContent
<1>7. CASE RcvIdle
  <2>1. UNCHANGED <<hassender, current, sessionVars, fw, file, rcvBuf>> BY <1>7 DEF RcvIdle
  <2>2. hassender => Ends(rcvBuf') BY <1>2, <2>1 DEF ReceiverContent
  <2>3. QED BY <1>4, <1>a, <2>1, <2>2
<1>8. ASSUME NEW m \in toRcv, RcvRecv(m) PROVE ReceiverContent(p)'
  <2>1. m.src \in Senders /\ m.seq \in Int /\ m.data \in Payload
    BY <1>1 DEF TypeOK, NetTypeOK, ToRcvMsg
  <2>2. Ends(m.data) /\ (m.seq = 0 => Len(m.data) = BUF_LEN) BY <1>2 DEF SenderContent
  <2>3. Received(m) \in Buf BY <1>6, <2>1, OverlayType DEF Received
  <2>4. hassender => Ends(rcvBuf) BY <1>2 DEF ReceiverContent
  <2>5. hassender \/ m.seq = 0 => Ends(Received(m))
    BY <1>6, <2>1, <2>2, <2>4, OverlayEnds DEF Received
  <2>6. phase[p] = "sending" /\ m.src = p => m.seq >= 0
    BY <1>1, <2>1 DEF WhileSending, DatagramsInWindow
  <2>7. phase[p] = "sending" /\ m.src = p /\ m.seq >= 1 => Holds(p, Received(m), m.seq)
    <3>1. SUFFICES ASSUME phase[p] = "sending", m.src = p, m.seq >= 1
                   PROVE  Holds(p, Received(m), m.seq)
      OBVIOUS
    <3>2. Begins(p, m.data, m.seq) BY <1>2, <3>1 DEF SenderContent
    <3>3. QED BY <1>5, <1>6, <2>1, <2>2, <2>4, <3>1, <3>2, OverlayHolds DEF Received
  <2>8. CASE RcvStray(m) BY <1>5, <1>b, <2>8 DEF RcvStray
  <2>9. CASE RcvOpen(m)
    <3> DEFINE name == Str(Received(m))
    <3>1. /\ ~hassender /\ m.seq = 0 /\ rcvBuf' = Received(m) /\ fw' = name
          /\ file' = [f \in DOMAIN file \cup {name} |-> IF f = name THEN <<>> ELSE file[f]]
      BY <2>9 DEF RcvOpen
    <3> HIDE DEF name
    <3>2. file'[fw'] = <<>> BY <3>1
    <3>3. Len(file'[fw']) = 0 BY <3>2
    <3>4. QED BY <1>3, <1>5, <2>5, <3>1, <3>3 DEF ReceiverContent
  <2>10. CASE RcvOpenFails(m)
    <3>1. ~hassender /\ ~hassender' BY <2>10 DEF RcvOpenFails
    <3>2. QED BY <1>5, <1>b, <3>1
  <2>11. CASE RcvClose(m)
    <3>1. ~hassender' /\ m.seq = -1 /\ m.src = current BY <2>11 DEF RcvClose, FromCurrent
    <3>2. QED BY <1>5, <1>b, <2>6, <3>1
  <2>12. CASE RcvInOrder(m)
    <3>1. /\ hassender /\ m.seq = C_ack + 1 /\ rcvBuf' = Bzero(Received(m))
          /\ m.src = current /\ current' = current
      BY <2>12 DEF RcvInOrder, FromCurrent
    <3>2. Ends(rcvBuf') BY <2>3, <2>5, <3>1, BzeroEnds
    <3>3. C_ack \in Nat /\ m.seq >= 1 BY <1>6, <3>1 DEF RcvTypeOK
    <3>4. phase[p] = "connecting" => current # p BY <1>1, <3>1, <3>3 DEF WhileConnecting
    <3>5. CASE phase[p] = "sending"
      <4>1. /\ \A x \in Slots :
                  buffer'[x] = 1 => Holds(p, rcvWindow'[x].data, rcvWindow'[x].seq)
            /\ Len(file'[fw']) = C_ack'
            /\ \A n \in 1..C_ack' : FullRead(p, n) => file'[fw'][n] = Read(p, n)
        BY <1>2, <1>5, <2>3, <2>7, <2>12, <3>1, <3>3, <3>5, InOrderContent
      <4>2. QED BY <1>3, <3>1, <3>2, <3>4, <4>1 DEF ReceiverContent
    <3>6. CASE phase[p] # "sending" BY <1>3, <3>1, <3>2, <3>4, <3>6 DEF ReceiverContent
    <3>7. QED BY <3>5, <3>6
  <2>13. CASE RcvEarly(m)
    <3>1. /\ hassender /\ Early(m.seq) /\ rcvBuf' = Received(m)
          /\ m.src = current /\ UNCHANGED <<current, C_ack, fw, file>>
          /\ buffer' = [buffer EXCEPT ![Slot(m.seq)] = 1]
          /\ rcvWindow' = [rcvWindow EXCEPT ![Slot(m.seq)] =
                              [seq |-> m.seq, data |-> Received(m)]]
      BY <2>13 DEF RcvEarly, FromCurrent
    <3>2. Ends(rcvBuf') BY <2>5, <3>1
    <3>3. C_ack \in Nat /\ m.seq >= 1 BY <1>6, <2>1, <3>1 DEF RcvTypeOK, Early
    <3>4. phase[p] = "connecting" => current # p BY <1>1, <3>1, <3>3 DEF WhileConnecting
    <3>5. CASE phase[p] = "sending"
      <4>1. ASSUME NEW x \in Slots, buffer'[x] = 1
            PROVE  Holds(p, rcvWindow'[x].data, rcvWindow'[x].seq)
        <5>1. CASE x = Slot(m.seq)
          <6>1. rcvWindow'[x] = [seq |-> m.seq, data |-> Received(m)] BY <1>6, <3>1, <5>1
          <6>2. QED BY <1>5, <2>7, <3>1, <3>3, <3>5, <6>1
        <5>2. CASE x # Slot(m.seq)
          <6>1. buffer[x] = 1 /\ rcvWindow'[x] = rcvWindow[x]
            BY <1>6, <3>1, <4>1, <5>2 DEF RcvTypeOK
          <6>2. QED BY <1>2, <3>5, <6>1 DEF ReceiverContent
        <5>3. QED BY <5>1, <5>2
      <4>2. QED BY <1>2, <1>3, <3>1, <3>2, <3>4, <3>5, <4>1 DEF ReceiverContent
    <3>6. CASE phase[p] # "sending" BY <1>3, <3>1, <3>2, <3>4, <3>6 DEF ReceiverContent
    <3>7. QED BY <3>5, <3>6
  <2>14. CASE RcvDrop(m)
    <3>1. UNCHANGED <<hassender, current, sessionVars, fw, file>> /\ rcvBuf' = Received(m)
      BY <2>14 DEF RcvDrop
    <3>2. QED BY <1>a, <2>5, <3>1
  <2>15. CASE RcvDecline(m)
    <3>1. UNCHANGED <<hassender, current, sessionVars, fw, file>> /\ rcvBuf' = Received(m)
      BY <2>15 DEF RcvDecline
    <3>2. QED BY <1>a, <2>5, <3>1
  <2>16. QED
    BY <1>8, <2>8, <2>9, <2>10, <2>11, <2>12, <2>13, <2>14, <2>15 DEF RcvRecv
<1>9. QED BY <1>4, <1>7, <1>8 DEF RcvNext

\* Every step keeps the contents.
LEMMA ContentStep ==
    ASSUME SessionInv, ContentInv, CleanBuffers, [Next]_vars
    PROVE  ContentInv'
<1>1. ASSUME NEW p \in Senders PROVE SenderContent(p)' /\ ReceiverContent(p)'
  <2>1. ASSUME NEW q \in Senders, NcpNext(q), UNCHANGED rcvVars
        PROVE  SenderContent(p)' /\ ReceiverContent(p)'
    <3>1. SenderContent(q)' /\ ReceiverContent(q)' BY <2>1, NcpStepContent
    <3>2. CASE q # p BY <2>1, <3>1, <3>2, OtherStepContent
    <3>3. CASE q = p BY <3>1, <3>3
    <3>4. QED BY <3>2, <3>3
  <2>2. CASE RcvNext /\ UNCHANGED ncpVars BY <2>2, RcvStepContent
  <2>3. ASSUME UNCHANGED <<toRcv, ncpVars, rcvVars>>
        PROVE  SenderContent(p)' /\ ReceiverContent(p)'
    BY <2>3 DEF ContentInv, SenderContent, ReceiverContent, ncpVars, rcvVars, sessionVars
  <2>4. CASE PortClosed BY <2>3, <2>4 DEF PortClosed
  <2>5. CASE UNCHANGED vars BY <2>3, <2>5 DEF vars, netVars
  <2>6. QED BY <2>1, <2>2, <2>4, <2>5 DEF Next
<1>2. QED BY <1>1 DEF ContentInv

\* The senders start with clean buffers.
LEMMA ContentInit ==
    ASSUME Init, CleanBuffers
    PROVE  ContentInv
<1> SUFFICES ASSUME NEW p \in Senders PROVE SenderContent(p) /\ ReceiverContent(p)
  BY DEF ContentInv
<1>1. /\ phase[p] = "connecting" /\ ncpBuf[p] = NameBuf(p) /\ toRcv = {} /\ ~hassender
  BY DEF Init, NetInit, NcpInit, RcvInit, NameBuf
<1>2. QED BY <1>1, NameBufEnds DEF SenderContent, ReceiverContent

\* What the file of a session has, then.
LEMMA FilesFollow ==
    ASSUME SessionInv, ContentInv
    PROVE  FullPacketsIntact
<1>1. current \in Senders BY DEF SessionInv, TypeOK, RcvTypeOK
<1>2. QED BY <1>1 DEF ContentInv, ReceiverContent, FullPacketsIntact, Served

\* For a sender alone with the receiver, whatever is lost, late or duplicated, and
\* however large the files, the window and the buffers: while the sender is served, what
\* was written is what was read, in its place and once, in every packet that came from a
\* full read.
THEOREM SoleFullPacketsIntact ==
    OneSender /\ CleanBuffers /\ Spec => []FullPacketsIntact
<1> SUFFICES ASSUME CleanBuffers PROVE OneSender /\ Spec => []FullPacketsIntact OBVIOUS
<1>1. Init => ContentInv BY ContentInit
<1>2. SoleInv /\ ContentInv /\ [Next]_vars => ContentInv' BY ContentStep DEF SoleInv
<1>3. SoleInv /\ ContentInv => FullPacketsIntact BY FilesFollow DEF SoleInv
<1>4. QED BY <1>1, <1>2, <1>3, SoleCorrect, PTL DEF Spec

-----------------------------------------------------------------------------
(* Any number of senders, up to the first acknowledgement that goes astray *)

\* However many senders ask and send, each session is its sender's own: the windows
\* of the two ends are consistent until an acknowledgement goes to a sender that the
\* session is not of.
THEOREM SessionsOfMany == HistorySpec => [](~misled => SessionInv)
<1>1. HistoryInit => (~misled => SessionInv) BY SessionInit DEF HistoryInit
<1>2. (~misled => SessionInv) /\ [HistoryNext]_<<vars, misled>> => (~misled => SessionInv)'
  <2> SUFFICES ASSUME ~misled => SessionInv, [HistoryNext]_<<vars, misled>>, ~misled'
               PROVE  SessionInv'
    OBVIOUS
  <2>1. CASE HistoryNext
    <3>1. SessionInv /\ Next /\ NoneAstray BY <2>1 DEF HistoryNext
    <3>2. QED BY <3>1, SessionStep
  <2>2. CASE UNCHANGED <<vars, misled>>
    <3>1. SessionInv /\ UNCHANGED vars BY <2>2
    <3>2. NoneAstray BY <3>1 DEF NoneAstray, vars, netVars
    <3>3. QED BY <3>1, <3>2, SessionStep
  <2>3. QED BY <2>1, <2>2
<1>3. QED BY <1>1, <1>2, PTL DEF HistorySpec

\* So what is said of the windows of a sender alone holds among many.
THEOREM WindowsOfMany ==
    HistorySpec => [](~misled => /\ WindowsAgree /\ NeverTooFarAhead
                                 /\ ResendsWhatIsAsked /\ BufferAgrees)
<1>1. (~misled => SessionInv)
        => (~misled => /\ WindowsAgree /\ NeverTooFarAhead
                       /\ ResendsWhatIsAsked /\ BufferAgrees)
  BY WindowsFollow
<1>2. QED BY <1>1, SessionsOfMany, PTL

\* None of them leaves with more than its last packet missing.
THEOREM FinishOfMany == HistorySpec => FinishSparesAllButLast
<1>1. (~misled => SessionInv) /\ [HistoryNext]_<<vars, misled>>
        => [\A p \in Senders : phase[p] = "sending" /\ phase'[p] = "exited"
              => hassender /\ current = p /\ C_ack >= tail[p] - 1]_vars
  <2> SUFFICES ASSUME ~misled => SessionInv, [HistoryNext]_<<vars, misled>>, vars' # vars,
                      NEW p \in Senders, phase[p] = "sending", phase'[p] = "exited"
               PROVE  hassender /\ current = p /\ C_ack >= tail[p] - 1
    OBVIOUS
  <2>1. HistoryNext OBVIOUS
  <2>2. SessionInv /\ Next BY <2>1 DEF HistoryNext
  <2>3. QED BY <2>2, LeavingStep
<1>2. QED BY <1>1, SessionsOfMany, PTL DEF HistorySpec, FinishSparesAllButLast

\* Whatever other senders do at any time, and however many there are, their packets do
\* not get into the file of a session: until an acknowledgement goes astray, full packets
\* are intact.
THEOREM FullPacketsOfManyNeverMix ==
    CleanBuffers /\ HistorySpec => []FullPacketsNeverMix
<1> SUFFICES ASSUME CleanBuffers PROVE HistorySpec => []FullPacketsNeverMix OBVIOUS
<1> DEFINE Inv == ~misled => SessionInv
           CInv == ~misled => ContentInv
<1>1. HistoryInit => CInv BY ContentInit DEF HistoryInit
<1>2. Inv /\ CInv /\ [HistoryNext]_<<vars, misled>> => CInv'
  <2> SUFFICES ASSUME Inv, CInv, [HistoryNext]_<<vars, misled>>, ~misled'
               PROVE  ContentInv'
    OBVIOUS
  <2>1. ~misled BY DEF HistoryNext
  <2>2. [Next]_vars BY DEF HistoryNext
  <2>3. QED BY <2>1, <2>2, ContentStep
<1>3. Inv /\ CInv => FullPacketsNeverMix BY FilesFollow DEF FullPacketsNeverMix
<1>4. QED BY <1>1, <1>2, <1>3, SessionsOfMany, PTL DEF HistorySpec
=============================================================================
