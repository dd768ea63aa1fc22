-------------------------------- MODULE Rcv --------------------------------
(***************************************************************************)
(* The receiver process of p1 (p1/source/rcv.c): it serves one sender at a  *)
(* time, writes its packets in order, keeps early ones in a window of       *)
(* WINDOW_SIZE slots, and answers with a cumulative acknowledgement and up  *)
(* to NACK_SIZE missing sequence numbers.                                   *)
(*                                                                         *)
(* An action is one turn of the main loop: a datagram is handled and the    *)
(* loop comes back to its top, where an acknowledgement is repeated if the  *)
(* ACK timer has run out.  It goes to from_addr, wherever the last datagram *)
(* came from.                                                              *)
(***************************************************************************)
EXTENDS UdpNet

CONSTANT MayFail   \* file names that fopen(.., "w") may fail for

VARIABLES
    up,          \* the process has not exited
    hassender,   \* a session is open
    current,     \* the sender of the session: currentip, currenthost
    from,        \* from_addr
    C_ack, lastACK, NACKTime,
    buffer,      \* buffer[s] = 1: slot s of the window is taken
    buffersize,
    rcvWindow,   \* the packets in the window
    rcvBuf,      \* the data area of mess_buf
    echoNack,    \* the nack array left in echo_mess_buf
    fw,          \* the name of the open file
    file         \* file[f]: the strings fprintf'd to file f since it was opened

sessionVars == <<C_ack, lastACK, NACKTime, buffer, buffersize, rcvWindow>>

rcvVars == <<up, hassender, current, from, sessionVars, rcvBuf, echoNack, fw, file>>

RcvPacket == [seq : Int, data : Buf]

RcvTypeOK ==
    /\ up \in BOOLEAN /\ hassender \in BOOLEAN
    /\ current \in Senders /\ from \in Senders
    /\ C_ack \in Nat /\ lastACK \in Int /\ NACKTime \in 0..2
    /\ buffer \in [Slots -> {0, 1}] /\ buffersize \in Nat
    /\ rcvWindow \in [Slots -> RcvPacket]
    /\ rcvBuf \in Buf
    /\ echoNack \in NackArray
    /\ fw \in DOMAIN file
    /\ file \in [DOMAIN file -> Seq(Payload)]

NoNack == [i \in 1..NACK_SIZE |-> -1]

RcvInit ==
    /\ up = TRUE
    /\ hassender = FALSE
    /\ current \in Senders /\ from = current   \* neither is read before a session
    /\ C_ack = 0 /\ lastACK = -1 /\ NACKTime = 0
    /\ buffer = [s \in Slots |-> 0]
    /\ buffersize = 0
    /\ rcvWindow = [s \in Slots |-> [seq |-> 0, data |-> Uninitialised]]
    /\ rcvBuf = Uninitialised
    /\ echoNack = [i \in 1..NACK_SIZE |-> 0]
    /\ fw = <<>>
    /\ file = [f \in {<<>>} |-> <<>>]

-----------------------------------------------------------------------------
(* Replies *)

\* What the ACK timer sends: the packet after the acknowledged ones is missing.
TimedNack(c) == [i \in 1..NACK_SIZE |-> IF i = 1 THEN c + 1 ELSE -1]

\* The replies of a handler, then the turn's acknowledgement if the timer has run
\* out: surely if the handler cleared ACKtimeout (due), perhaps otherwise.
Reply(replies, nack, due) ==
    \E timed \in IF due THEN {TRUE} ELSE BOOLEAN :
        LET ack == [dst |-> from', cack |-> C_ack', nack |-> TimedNack(C_ack')]
        IN  /\ echoNack' = IF timed THEN TimedNack(C_ack') ELSE nack
            /\ SentToNcp(IF timed THEN replies \cup {ack} ELSE replies)

\* Mutant of To: the packet expected next is acknowledged.
ToNextExpected(m, cack, nack) == [dst |-> m.src, cack |-> cack + 1, nack |-> nack]

\* A reply to the sender of the datagram being handled.
To(m, cack, nack) == [dst |-> m.src, cack |-> cack, nack |-> nack]

\* Receiving m: the data area keeps what m does not overwrite.
Received(m) == Overlay(rcvBuf, m.data)

\* Mutant of FromCurrent: the sender is not compared.
FromAnyone(m) == hassender

\* A datagram of the session's sender: same address and same port.
FromCurrent(m) == hassender /\ m.src = current

\* The part of a turn all handlers share.
Take(m) ==
    /\ up
    /\ toRcv' \in Consumed(toRcv, m)
    /\ from' = m.src

\* select() has waited a second: the ACK timer has run out.
RcvIdle ==
    /\ up /\ hassender
    /\ UNCHANGED <<up, hassender, current, from, sessionVars, rcvBuf, fw, file, toRcv>>
    /\ Reply({}, echoNack, TRUE)

-----------------------------------------------------------------------------
(* Sessions *)

\* Without a session only a file name is looked at.
RcvStray(m) ==
    /\ Take(m)
    /\ ~hassender /\ m.seq # 0
    /\ rcvBuf' = Received(m)
    /\ UNCHANGED <<up, hassender, current, sessionVars, echoNack, fw, file, toNcp>>

\* A file name opens a session: the file is emptied and all is reset but window.
RcvOpen(m) ==
    LET name == Str(Received(m))
    IN  /\ Take(m)
        /\ ~hassender /\ m.seq = 0
        /\ hassender' = TRUE
        /\ current' = m.src
        /\ fw' = name
        /\ file' = [f \in DOMAIN file \cup {name} |-> IF f = name THEN <<>> ELSE file[f]]
        /\ C_ack' = 0 /\ lastACK' = -1 /\ NACKTime' = 0
        /\ buffersize' = 0
        /\ buffer' = [s \in Slots |-> 0]
        /\ rcvBuf' = Received(m)
        /\ Reply({To(m, 0, echoNack)}, echoNack, FALSE)
        /\ UNCHANGED <<up, rcvWindow>>

\* fopen() fails: the receiver exits.
RcvOpenFails(m) ==
    /\ Take(m)
    /\ ~hassender /\ m.seq = 0 /\ Str(Received(m)) \in MayFail
    /\ up' = FALSE
    /\ current' = m.src
    /\ rcvBuf' = Received(m)
    /\ UNCHANGED <<hassender, sessionVars, echoNack, fw, file, toNcp>>

\* Any datagram of another sender is answered with -1.
RcvDecline(m) ==
    /\ Take(m)
    /\ hassender /\ ~FromCurrent(m)
    /\ rcvBuf' = Received(m)
    /\ UNCHANGED <<up, hassender, current, sessionVars, fw, file>>
    /\ Reply({To(m, -1, echoNack)}, echoNack, FALSE)

\* The sender has finished.
RcvClose(m) ==
    /\ Take(m)
    /\ FromCurrent(m) /\ m.seq = -1
    /\ hassender' = FALSE
    /\ rcvBuf' = Received(m)
    /\ UNCHANGED <<up, current, sessionVars, echoNack, fw, file, toNcp>>

-----------------------------------------------------------------------------
(* Packets of the session *)

\* How far the search of the window behind packet c + 1 can come.
SearchLimit == IF buffersize < WINDOW_SIZE - 1 THEN buffersize ELSE WINDOW_SIZE - 1

\* Mutant of Drains: the search does not stop at a gap.
DrainsGaps(c, d) == d = IF buffersize > 0 THEN WINDOW_SIZE - 1 ELSE 0

\* Packets c+2 .. c+1+d are buffered, and the search stops there.
Drains(c, d) ==
    /\ d \in 0..SearchLimit
    /\ \A j \in 1..d : buffer[Slot(c + 1 + j)] = 1
    /\ d < SearchLimit => buffer[Slot(c + 2 + d)] # 1

\* The expected packet: it is written, and the d buffered ones behind it.
RcvInOrder(m) ==
    /\ Take(m)
    /\ FromCurrent(m) /\ m.seq # -1
    /\ m.seq = C_ack + 1
    /\ \E d \in 0..(WINDOW_SIZE - 1) :
         LET drained == {Slot(C_ack + 1 + j) : j \in 1..d}
         IN  /\ Drains(C_ack, d)
             /\ C_ack' = C_ack + 1 + d
             /\ buffersize' = buffersize - d
             /\ buffer' = [s \in Slots |-> IF s \in drained THEN 0 ELSE buffer[s]]
             /\ rcvWindow' = [s \in Slots |->
                   IF s \in drained THEN [rcvWindow[s] EXCEPT !.data = Bzero(@)]
                                    ELSE rcvWindow[s]]
             /\ file' = [file EXCEPT ![fw] = @ \o [j \in 1..(d + 1) |->
                   IF j = 1 THEN Str(Received(m))
                            ELSE Str(rcvWindow[Slot(C_ack + j)].data)]]
    /\ lastACK' = C_ack' /\ NACKTime' = 0
    /\ rcvBuf' = Bzero(Received(m))
    /\ Reply({To(m, C_ack', NoNack)}, NoNack, TRUE)
    /\ UNCHANGED <<up, hassender, current, fw>>

\* Mutant of Early: a packet that is buffered already is buffered again.
EarlyAgain(s) == s \in (C_ack + 2)..(C_ack + 1 + WINDOW_SIZE)

\* A packet ahead of the expected one that the window has room for.
Early(s) ==
    /\ s \in (C_ack + 2)..(C_ack + 1 + WINDOW_SIZE)
    /\ buffer[Slot(s)] = 0

\* The nack array: the expected packet, then the missing ones among the next
\* NACK_SIZE - 1, each at its own place.
Missing(s, taken) ==
    [i \in 1..NACK_SIZE |->
        IF i = 1 THEN C_ack + 1
        ELSE IF C_ack + i < s /\ taken[Slot(C_ack + i)] = 0 THEN C_ack + i ELSE -1]

\* It is kept; the first ones since C_ack moved are answered with the gaps.
RcvEarly(m) ==
    /\ Take(m)
    /\ FromCurrent(m) /\ m.seq # -1
    /\ Early(m.seq)
    /\ buffer' = [buffer EXCEPT ![Slot(m.seq)] = 1]
    /\ buffersize' = buffersize + 1
    /\ rcvWindow' = [rcvWindow EXCEPT ![Slot(m.seq)] =
                        [seq |-> m.seq, data |-> Received(m)]]
    /\ rcvBuf' = Received(m)
    /\ UNCHANGED <<up, hassender, current, C_ack, fw, file>>
    /\ IF lastACK # C_ack \/ NACKTime < 2
       THEN /\ NACKTime' = IF lastACK = C_ack THEN NACKTime + 1 ELSE 0
            /\ lastACK' = C_ack
            /\ LET nack == Missing(m.seq, buffer')
               IN  Reply({To(m, C_ack, nack)}, nack, TRUE)
       ELSE /\ UNCHANGED <<lastACK, NACKTime>>
            /\ Reply({}, echoNack, TRUE)

\* Anything else of the sender (old, too far ahead, buffered already, a file
\* name) is dropped, but clears the ACK timer.
RcvDrop(m) ==
    /\ Take(m)
    /\ FromCurrent(m) /\ m.seq # -1
    /\ m.seq # C_ack + 1 /\ ~Early(m.seq)
    /\ rcvBuf' = Received(m)
    /\ UNCHANGED <<up, hassender, current, sessionVars, fw, file>>
    /\ Reply({}, echoNack, TRUE)

RcvRecv(m) ==
    \/ RcvStray(m) \/ RcvOpen(m) \/ RcvOpenFails(m) \/ RcvDecline(m) \/ RcvClose(m)
    \/ RcvInOrder(m) \/ RcvEarly(m) \/ RcvDrop(m)

RcvNext == RcvIdle \/ \E m \in toRcv : RcvRecv(m)
=============================================================================
