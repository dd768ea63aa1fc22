-------------------------------- MODULE Ncp --------------------------------
(***************************************************************************)
(* The sender process of p1 (p1/source/ncp.c).  It repeats its file name    *)
(* until the receiver answers 0, fills a window of WINDOW_SIZE packets, and *)
(* then reacts to cumulative acknowledgements and NACKs.  Its select() also *)
(* watches the source file, which is always readable: with no datagram to   *)
(* read select() returns at once and the "time out" branch resends the      *)
(* whole window, so Timeout is enabled all the time.                        *)
(***************************************************************************)
EXTENDS UdpNet

CONSTANTS
    File,       \* File[p]: what successive read()s of p's source file return
    DestName,   \* DestName[p]: the file name p sends
    EchoData    \* the bytes the receiver's never written echo_data_buf holds

ASSUME NcpAssumption ==
    /\ \A p \in Senders :
          /\ DestName[p] \in Seq(Byte) /\ Len(DestName[p]) \in 1..DATA_LEN
          /\ File[p] \in Seq(Payload)
          /\ \A n \in 1..Len(File[p]) :
                /\ Len(File[p][n]) \in 1..DATA_LEN
                /\ n < Len(File[p]) => Len(File[p][n]) = DATA_LEN
    /\ EchoData \in Payload

VARIABLES
    phase,      \* "connecting": file name not acknowledged; "sending"; "exited"
    head,       \* first packet of the window
    tail,       \* last packet of the window
    seq,        \* sequence number the next packet gets
    eof,        \* a read() came back short
    ncpBuf,     \* the data area of mess_buf
    ncpWindow   \* the packets kept for retransmission

ncpVars == <<phase, head, tail, seq, eof, ncpBuf, ncpWindow>>

Packet == [seq : Nat, data : Buf]

NcpTypeOK ==
    /\ phase \in [Senders -> {"connecting", "sending", "exited"}]
    /\ head \in [Senders -> Nat]
    /\ tail \in [Senders -> Nat]
    /\ seq \in [Senders -> Nat]
    /\ eof \in [Senders -> BOOLEAN]
    /\ ncpBuf \in [Senders -> Buf]
    /\ ncpWindow \in [Senders -> [Slots -> Packet]]

-----------------------------------------------------------------------------
(* Packets *)

\* What the n-th read() of p's source file returns.
Read(p, n) == IF n \in 1..Len(File[p]) THEN File[p][n] ELSE <<>>

\* data_buf after the reads lo..n of p (buf before them): byte j is left by the
\* last read that reached it, as data or as the NUL written behind the data.
BufAfter(p, buf, lo, n) ==
    [j \in 1..BUF_LEN |->
        LET reached == {r \in lo..n : j <= Len(Read(p, r)) + 1}
        IN  IF reached = {} THEN buf[j]
            ELSE LET r == CHOOSE x \in reached : \A y \in reached : y <= x
                 IN  IF j <= Len(Read(p, r)) THEN Read(p, r)[j] ELSE NUL]

\* A packet when it is first sent: only strlen(data_buf) bytes, without the NUL.
FirstSend(p, n, buf) == [src |-> p, seq |-> n, data |-> Str(buf)]

\* Mutant of Resend: a byte too many goes out.
ResendTooLong(p, s) ==
    [src |-> p, seq |-> ncpWindow[p][Slot(s)].seq,
     data |-> Append(ncpWindow[p][Slot(s)].data, NUL)]

\* A packet resent from the window goes out with the whole of its buffer.
Resend(p, s) ==
    [src |-> p, seq |-> ncpWindow[p][Slot(s)].seq, data |-> ncpWindow[p][Slot(s)].data]

\* Mutant of FilenameMsg: sent like the other packets, without its NUL.
FilenameNoNul(p, buf) == [src |-> p, seq |-> 0, data |-> Str(buf)]

\* The file name goes out with the whole buffer too.
FilenameMsg(p, buf) == [src |-> p, seq |-> 0, data |-> buf]

FinMsg(p, buf) == [src |-> p, seq |-> -1, data |-> Str(buf)]

\* The buffer as the echo of the receiver leaves it.
Echoed(p) == Overlay(ncpBuf[p], EchoData)

-----------------------------------------------------------------------------
NcpInit ==
    /\ phase = [p \in Senders |-> "connecting"]
    /\ head = [p \in Senders |-> 1]
    /\ tail = [p \in Senders |-> WINDOW_SIZE]
    /\ seq = [p \in Senders |-> 0]
    /\ eof = [p \in Senders |-> FALSE]
    /\ ncpBuf = [p \in Senders |->
          Overlay(Uninitialised, DestName[p] \o <<NUL>>)]
    /\ ncpWindow = [p \in Senders |->
          [s \in Slots |-> [seq |-> 0, data |-> Uninitialised]]]

\* Connection loop, nothing to read: the file name is sent (again) once a
\* microsecond has passed.
SendFilename(p) ==
    /\ phase[p] = "connecting"
    /\ SentToRcv({FilenameMsg(p, ncpBuf[p])})
    /\ UNCHANGED <<ncpVars, toNcp>>

\* A reply other than 0 leaves the sender in the connection loop; the loop body
\* then sends the file name if a microsecond has passed.
RecvDecline(p, m) ==
    /\ phase[p] = "connecting" /\ m.dst = p /\ m.cack # 0
    /\ toNcp' \in Consumed(toNcp, m)
    /\ ncpBuf' = [ncpBuf EXCEPT ![p] = Echoed(p)]
    /\ SentToRcv({FilenameMsg(p, Echoed(p))})
    /\ UNCHANGED <<phase, head, tail, seq, eof, ncpWindow>>

\* A reply of 0 ends the connection loop (after one more file name, if a
\* microsecond has passed) and the whole window is read and sent.
RecvAccept(p, m) ==
    /\ phase[p] = "connecting" /\ m.dst = p /\ m.cack = 0
    /\ toNcp' \in Consumed(toNcp, m)
    /\ phase' = [phase EXCEPT ![p] = "sending"]
    /\ seq' = [seq EXCEPT ![p] = WINDOW_SIZE + 1]
    /\ LET filled(n) == BufAfter(p, Echoed(p), 1, n)
       IN  /\ ncpBuf' = [ncpBuf EXCEPT ![p] = filled(WINDOW_SIZE)]
           /\ ncpWindow' = [ncpWindow EXCEPT ![p] =
                 [s \in Slots |->
                     LET n == IF s = 0 THEN WINDOW_SIZE ELSE s
                     IN  [seq |-> n, data |-> filled(n)]]]
           /\ SentToRcv(
                 {FilenameMsg(p, Echoed(p))}
                 \cup {FirstSend(p, n, filled(n)) : n \in 1..WINDOW_SIZE})
    /\ UNCHANGED <<head, tail, eof>>

-----------------------------------------------------------------------------
(* The main loop *)

\* Mutant of Finished: the window's end is reached one packet early.
FinishedEarly(p, ack) == eof[p] /\ (ack >= tail[p] - 1 \/ head[p] >= tail[p] - 1)

\* Sending is over: either end of the window counts as reached at the tail.
Finished(p, ack) == eof[p] /\ (ack >= tail[p] \/ head[p] >= tail[p])

\* The last datagram, sent once, after which the process exits.
Exit(p, buf) ==
    /\ phase' = [phase EXCEPT ![p] = "exited"]
    /\ SentToRcv({FinMsg(p, buf)})
    /\ ncpBuf' = [ncpBuf EXCEPT ![p] = buf]
    /\ UNCHANGED <<head, tail, seq, eof, ncpWindow>>

RecvFinish(p, m) ==
    /\ phase[p] = "sending" /\ m.dst = p /\ Finished(p, m.cack)
    /\ toNcp' \in Consumed(toNcp, m)
    /\ Exit(p, Echoed(p))

\* An acknowledgement below the window is ignored.
RecvStale(p, m) ==
    /\ phase[p] = "sending" /\ m.dst = p /\ ~Finished(p, m.cack)
    /\ m.cack < head[p] - 1
    /\ toNcp' \in Consumed(toNcp, m)
    /\ ncpBuf' = [ncpBuf EXCEPT ![p] = Echoed(p)]
    /\ UNCHANGED <<phase, head, tail, seq, eof, ncpWindow, toRcv>>

\* The entries of a NACK array up to the first negative one that the window holds.
Requested(p, nack) ==
    {nack[i] : i \in {k \in 1..NACK_SIZE :
                         /\ \A j \in 1..k : nack[j] >= 0
                         /\ head[p] <= nack[k] /\ nack[k] <= tail[p]}}

\* An acknowledgement at the edge of the window: what it NACKs is sent again.
RecvNack(p, m) ==
    /\ phase[p] = "sending" /\ m.dst = p /\ ~Finished(p, m.cack)
    /\ m.cack = head[p] - 1
    /\ toNcp' \in Consumed(toNcp, m)
    /\ ncpBuf' = [ncpBuf EXCEPT ![p] = Echoed(p)]
    /\ SentToRcv({Resend(p, s) : s \in Requested(p, m.nack)})
    /\ UNCHANGED <<phase, head, tail, seq, eof, ncpWindow>>

\* An acknowledgement inside the window once the file is read: only head moves.
RecvAckAtEof(p, m) ==
    /\ phase[p] = "sending" /\ m.dst = p /\ ~Finished(p, m.cack)
    /\ m.cack >= head[p] /\ eof[p]
    /\ toNcp' \in Consumed(toNcp, m)
    /\ ncpBuf' = [ncpBuf EXCEPT ![p] = Echoed(p)]
    /\ head' = [head EXCEPT ![p] = m.cack + 1]
    /\ UNCHANGED <<phase, tail, seq, eof, ncpWindow, toRcv>>

\* The n reads that move the window up to ack: one per packet acknowledged, the
\* loop stopping behind the first short one.
ShiftReads(p, ack, n) ==
    /\ n \in 1..(ack - head[p] + 1)
    /\ \A k \in 1..(n - 1) : Len(Read(p, seq[p] + k - 1)) = DATA_LEN
    /\ n < ack - head[p] + 1 => Len(Read(p, seq[p] + n - 1)) < DATA_LEN

\* Mutant of Shifted: the packets are stored from the tail on, not behind it.
ShiftedOntoTail(p, buf, n) ==
    [s \in Slots |->
        LET stored == {k \in 1..n : Slot(tail[p] + k - 1) = s}
        IN  IF stored = {} THEN ncpWindow[p][s]
            ELSE LET k == CHOOSE x \in stored : \A y \in stored : y <= x
                 IN  [seq |-> seq[p] + k - 1,
                      data |-> BufAfter(p, buf, seq[p], seq[p] + k - 1)]]

\* The window with the next n packets stored behind its tail, in slots that the
\* acknowledged packets leave; the last one stored in a slot stays.
Shifted(p, buf, n) ==
    [s \in Slots |->
        LET stored == {k \in 1..n : Slot(tail[p] + k) = s}
        IN  IF stored = {} THEN ncpWindow[p][s]
            ELSE LET k == CHOOSE x \in stored : \A y \in stored : y <= x
                 IN  [seq |-> seq[p] + k - 1,
                      data |-> BufAfter(p, buf, seq[p], seq[p] + k - 1)]]

\* An acknowledgement inside the window: one packet is read, stored and sent for
\* each packet acknowledged.
RecvAck(p, m) ==
    /\ phase[p] = "sending" /\ m.dst = p /\ ~Finished(p, m.cack)
    /\ m.cack >= head[p] /\ ~eof[p]
    /\ toNcp' \in Consumed(toNcp, m)
    /\ \E n \in 1..(m.cack - head[p] + 1) :
         LET last == seq[p] + n - 1
             filled(k) == BufAfter(p, Echoed(p), seq[p], seq[p] + k - 1)
         IN  /\ ShiftReads(p, m.cack, n)
             /\ head' = [head EXCEPT ![p] = m.cack + 1]
             /\ tail' = [tail EXCEPT ![p] = @ + n]
             /\ seq' = [seq EXCEPT ![p] = last + 1]
             /\ eof' = [eof EXCEPT ![p] = Len(Read(p, last)) < DATA_LEN]
             /\ ncpBuf' = [ncpBuf EXCEPT ![p] = filled(n)]
             /\ ncpWindow' = [ncpWindow EXCEPT ![p] = Shifted(p, Echoed(p), n)]
             /\ SentToRcv(
                   {FirstSend(p, seq[p] + k - 1, filled(k)) : k \in 1..n})
    /\ UNCHANGED phase

\* No datagram to read and one packet left: that counts as finished as well.
TimeoutFinish(p) ==
    /\ phase[p] = "sending" /\ head[p] = tail[p]
    /\ Exit(p, ncpBuf[p])
    /\ UNCHANGED toNcp

\* Mutant of Timeout: the first packet of the window is taken for delivered.
TimeoutSkipsHead(p) ==
    /\ phase[p] = "sending" /\ head[p] # tail[p]
    /\ SentToRcv({Resend(p, s) : s \in (head[p] + 1)..tail[p]})
    /\ UNCHANGED <<ncpVars, toNcp>>

\* No datagram to read: the whole window is sent again.
Timeout(p) ==
    /\ phase[p] = "sending" /\ head[p] # tail[p]
    /\ SentToRcv({Resend(p, s) : s \in head[p]..tail[p]})
    /\ UNCHANGED <<ncpVars, toNcp>>

NcpRecv(p, m) ==
    \/ RecvDecline(p, m) \/ RecvAccept(p, m) \/ RecvFinish(p, m) \/ RecvStale(p, m)
    \/ RecvNack(p, m) \/ RecvAckAtEof(p, m) \/ RecvAck(p, m)

NcpNext(p) ==
    \/ SendFilename(p) \/ TimeoutFinish(p) \/ Timeout(p)
    \/ \E m \in toNcp : NcpRecv(p, m)
=============================================================================
