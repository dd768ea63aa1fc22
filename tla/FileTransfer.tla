---------------------------- MODULE FileTransfer ----------------------------
(***************************************************************************)
(* The file transfer tool of p1: any number of ncp senders, one rcv         *)
(* receiver and the network between them.                                   *)
(***************************************************************************)
EXTENDS Ncp, Rcv

vars == <<netVars, ncpVars, rcvVars>>

Init == NetInit /\ NcpInit /\ RcvInit

\* A datagram for a process that has exited meets a closed port.
PortClosed ==
    /\ \E m \in toNcp : phase[m.dst] = "exited" /\ toNcp' = toNcp \ {m}
    /\ UNCHANGED <<toRcv, ncpVars, rcvVars>>

Next ==
    \/ \E p \in Senders : NcpNext(p) /\ UNCHANGED rcvVars
    \/ RcvNext /\ UNCHANGED ncpVars
    \/ PortClosed

Spec == Init /\ [][Next]_vars

-----------------------------------------------------------------------------
\* Every datagram fits a buffer, every buffer holds bytes, the counters are
\* natural numbers and the open file exists.
TypeOK == NetTypeOK /\ NcpTypeOK /\ RcvTypeOK

-----------------------------------------------------------------------------
(* Safety *)

\* p is sending and the receiver's session is p's.
Served(p) == phase[p] = "sending" /\ hassender /\ current = p

\* The two windows agree: what the sender believes acknowledged is, and the
\* receiver is never ahead of what was sent.
WindowsAgree ==
    \A p \in Senders : Served(p) =>
        /\ head[p] - 1 <= C_ack
        /\ C_ack <= tail[p]
        /\ tail[p] < head[p] + WINDOW_SIZE

\* rcv keeps packets up to C_ack + 1 + WINDOW_SIZE but only searches its window up
\* to C_ack + WINDOW_SIZE (rcv.c:235 against rcv.c:295), and the slot it does not
\* search is the slot of the expected packet.  No packet that far ahead is ever in
\* flight: the sender's window cannot run that far ahead of the receiver.
NeverTooFarAhead ==
    \A m \in toRcv : Served(m.src) => m.seq <= C_ack + WINDOW_SIZE

\* The window of ncp still holds every packet a NACK or a timeout may ask for.
ResendsWhatIsAsked ==
    \A p \in Senders : phase[p] = "sending" =>
        \A s \in head[p]..tail[p] : ncpWindow[p][Slot(s)].seq = s

\* The slots of the receiver's window that are taken, and its count of them.
Taken == {s \in Slots : buffer[s] = 1}
CounterRight == buffersize = Cardinality(Taken)

\* The receiver's window: its counter is right, the expected packet is not in it,
\* and a taken slot holds the packet its place stands for.  This needs the sender:
\* in a session that a late file name opens behind its sender's back (rcv.c:132)
\* a late packet C_ack + 1 + WINDOW_SIZE takes the slot of the expected one.
BufferAgrees ==
    Served(current) =>
        /\ CounterRight
        /\ buffer[Slot(C_ack + 1)] = 0
        /\ \A s \in (C_ack + 2)..(C_ack + WINDOW_SIZE) :
              buffer[Slot(s)] = 1 => rcvWindow[Slot(s)].seq = s

\* A read of the source file that came back full, and is text.
FullRead(p, n) == Len(Read(p, n)) = DATA_LEN /\ \A i \in 1..DATA_LEN : Read(p, n)[i] # NUL

\* While a sender is served, the open file has one string for each packet
\* acknowledged, and every full packet is there unharmed, in its place and once.
\* This too needs the sender: in a session that a late file name opens a packet that
\* took the slot of the expected one is written as a later one.
FullPacketsIntact ==
    Served(current) =>
        /\ Len(file[fw]) = C_ack
        /\ \A n \in 1..C_ack : FullRead(current, n) => file[fw][n] = Read(current, n)

\* When ncp reports that it has finished, at most the last packet is missing.
FinishSparesAllButLast ==
    [][\A p \in Senders : phase[p] = "sending" /\ phase'[p] = "exited"
          => hassender /\ current = p /\ C_ack >= tail[p] - 1]_vars

\* The buffer with p's file name, and as a reply leaves it, which brings bytes of the echo
\* buffer that rcv never writes (rcv.c:158).
NameBuf(p) == Overlay(Uninitialised, DestName[p] \o <<NUL>>)
EchoedNameBuf(p) == Overlay(NameBuf(p), EchoData)

\* No reply has changed what p sends as its file name.
Unanswered(p) == phase[p] = "connecting" /\ ncpBuf[p] = NameBuf(p)

\* A session writes to the file its sender named, if no reply has reached that sender, be
\* its datagram ever so late: no residue of an earlier datagram in either buffer gets into
\* the name.  After a reply it may be the name with the echo over its beginning, and no other.
OpensTheNamedFile ==
    [][hassender' /\ ~hassender =>
          \/ fw' = DestName[current']
          \/ ~Unanswered(current') /\ fw' = Str(EchoedNameBuf(current'))]_vars

-----------------------------------------------------------------------------
(* The inductive invariant behind these, for any number of senders as long as no   *)
(* acknowledgement goes to a sender that the session is not of.  With a sender     *)
(* alone none does.                                                           *)

\* An acknowledgement sent in this step goes to a sender without the session: the ACK
\* timer of rcv sends to from_addr, whoever that is (rcv.c:109).
Misleading(m) == m.cack >= 0 /\ ~(hassender' /\ current' = m.dst)

NoneAstray == \A m \in toNcp' \ toNcp : ~Misleading(m)

\* Before the receiver's answer only the file name is under way, and the receiver
\* has nothing; an answer means that a session is open.
WhileConnecting(p) ==
    phase[p] = "connecting" =>
        /\ head[p] = 1 /\ tail[p] = WINDOW_SIZE
        /\ hassender /\ current = p => C_ack = 0 /\ Taken = {}
        /\ \A m \in toRcv : m.src = p => m.seq = 0
        /\ \A m \in toNcp : m.dst = p /\ m.cack >= 0 => m.cack = 0 /\ hassender /\ current = p

\* Nothing of p under way leaves the two windows, which overlap.
DatagramsInWindow(p) ==
    /\ \A m \in toRcv : m.src = p => 0 <= m.seq /\ m.seq <= tail[p]
    /\ \A m \in toNcp : m.dst = p => m.cack <= C_ack

WindowsOverlap(p) ==
    /\ 1 <= head[p] /\ head[p] - 1 <= C_ack
    /\ C_ack <= tail[p] /\ tail[p] < head[p] + WINDOW_SIZE

\* A slot of the sender's window holds the packet of its place ...
SenderHolds(p) == \A s \in head[p]..tail[p] : ncpWindow[p][Slot(s)].seq = s

\* ... and so does a taken slot of the receiver's; that packet has been sent.
ReceiverHolds(p) ==
    /\ buffer[Slot(C_ack + 1)] = 0
    /\ \A s \in (C_ack + 2)..(C_ack + WINDOW_SIZE) :
          buffer[Slot(s)] = 1 => rcvWindow[Slot(s)].seq = s /\ s <= tail[p]

\* The session is that of the sender that sends.
WhileSending(p) ==
    phase[p] = "sending" =>
        /\ hassender /\ current = p /\ seq[p] = tail[p] + 1
        /\ DatagramsInWindow(p) /\ WindowsOverlap(p)
        /\ SenderHolds(p) /\ ReceiverHolds(p)

SessionInv ==
    /\ TypeOK /\ CounterRight
    /\ \A p \in Senders : WhileConnecting(p) /\ WhileSending(p)

OneSender == \A p, q \in Senders : p = q

\* A sender alone finds the receiver as it started.
SoleInv ==
    /\ OneSender /\ SessionInv
    /\ \A p \in Senders : phase[p] = "connecting" => C_ack = 0

-----------------------------------------------------------------------------
(* What the buffers hold, for senders whose bytes past the data are NUL: their   *)
(* stack was, or the file name reaches to them, and the receiver's echo does not. *)

CleanBuffers ==
    /\ Stack = NUL \/ \A p \in Senders : Len(DestName[p]) = DATA_LEN
    /\ Len(EchoData) < BUF_LEN

\* These bytes begin with what the n-th read returned, if that came back full.
Begins(p, bytes, n) ==
    FullRead(p, n) =>
        Len(bytes) >= DATA_LEN /\ \A i \in 1..DATA_LEN : bytes[i] = Read(p, n)[i]

\* Nothing but a NUL is behind the data.
Ends(bytes) == Len(bytes) = BUF_LEN => bytes[BUF_LEN] = NUL

\* A buffer with packet n.
Holds(p, buf, n) == Begins(p, buf, n) /\ Ends(buf)

SenderContent(p) ==
    /\ Ends(ncpBuf[p])
    /\ \A m \in toRcv :
          /\ Ends(m.data)
          /\ m.seq = 0 => Len(m.data) = BUF_LEN
    /\ phase[p] = "sending" =>
          /\ \A m \in toRcv : m.src = p /\ m.seq >= 1 => Begins(p, m.data, m.seq)
          /\ \A x \in Slots : Holds(p, ncpWindow[p][x].data, ncpWindow[p][x].seq)

ReceiverContent(p) ==
    /\ hassender => Ends(rcvBuf)
    /\ hassender /\ current = p /\ phase[p] = "connecting" => Len(file[fw]) = 0
    /\ phase[p] = "sending" =>
          /\ \A x \in Slots :
                buffer[x] = 1 => Holds(p, rcvWindow[x].data, rcvWindow[x].seq)
          /\ Len(file[fw]) = C_ack
          /\ \A n \in 1..C_ack : FullRead(p, n) => file[fw][n] = Read(p, n)

ContentInv == \A p \in Senders : SenderContent(p) /\ ReceiverContent(p)

\* The file names under way are those of their senders, echoed over only after a reply,
\* and what a sender repeats is its own; nothing else has the number of a file name.
NamesRight ==
    /\ \A m \in toRcv : m.seq = 0 =>
          \/ m.data = NameBuf(m.src)
          \/ ~Unanswered(m.src) /\ m.data = EchoedNameBuf(m.src)
    /\ \A p \in Senders :
          /\ phase[p] = "connecting" => ncpBuf[p] \in {NameBuf(p), EchoedNameBuf(p)}
          /\ phase[p] = "sending" =>
                seq[p] >= 1 /\ \A s \in Slots : ncpWindow[p][s].seq >= 1

-----------------------------------------------------------------------------
(* The abstract specification, for a sender alone with the receiver.  What     *)
(* the receiver does after the sender has exited is not part of it.            *)

Sole == CHOOSE p \in Senders : TRUE

SW == INSTANCE SlidingWindow WITH
    Window <- WINDOW_SIZE,
    mode <- phase[Sole],
    sent <- tail[Sole],
    got <- IF phase[Sole] = "exited" THEN tail[Sole] ELSE C_ack,
    known <- head[Sole] - 1

\* Every step of the two processes and the network is a step of the sliding
\* window or leaves it as it is.
ImplementsWindow == SW!Spec

-----------------------------------------------------------------------------
(* Fairness *)

\* Beyond every sequence number p can reach.
LastSeq(p) == Len(File[p]) + WINDOW_SIZE + 1

\* A datagram of p with sequence number n is under way after the step.
UnderWay(p, n) == \E m \in toRcv' : m.src = p /\ m.seq = n

\* Both loops run forever: the sender's select() never blocks and the receiver's
\* waits a second at most.  sendto_dbg drops at random, so what is sent again and
\* again arrives; what is sent once (the datagram with seq -1, a reply that the
\* ACK timer does not repeat) may not.
Fairness ==
    /\ \A p \in Senders :
         /\ SF_vars(SendFilename(p) /\ UNCHANGED rcvVars /\ UnderWay(p, 0))
         /\ \A n \in 1..LastSeq(p) :
               SF_vars(Timeout(p) /\ UNCHANGED rcvVars /\ UnderWay(p, n))
         /\ WF_vars(TimeoutFinish(p) /\ UNCHANGED rcvVars)
         /\ WF_vars((\E m \in toNcp : NcpRecv(p, m)) /\ UNCHANGED rcvVars)
         /\ \A n \in -1..LastSeq(p) :
               WF_vars((\E m \in toRcv : m.src = p /\ m.seq = n /\ RcvRecv(m))
                       /\ UNCHANGED ncpVars)
    /\ SF_vars(RcvIdle /\ UNCHANGED ncpVars /\ toNcp' # toNcp)
    /\ WF_vars(PortClosed)

FairSpec == Spec /\ Fairness

\* Every sender gets its file through and exits, however many datagrams are lost.
\* (True of a sender that has the receiver to itself.)
SendersExit == \A p \in Senders : <>(phase[p] = "exited")

-----------------------------------------------------------------------------
(* Claims of comments and messages that the code does not keep *)

\* "Finish Sending the file" (ncp.c:170 and 271) is printed when the receiver has
\* every packet of the file.
FinishDelivers ==
    [][\A p \in Senders : phase[p] = "sending" /\ phase'[p] = "exited"
          => hassender /\ current = p /\ C_ack >= Len(File[p])]_vars

\* "Write Data into File" (rcv.c:198): each packet puts into the file what the
\* sender read from its own.
WritesWhatWasRead ==
    hassender => \A n \in 1..C_ack : file[fw][n] = Read(current, n)

\* "Expected:C_ack+1 Buffer Window:[C_ack+2, ....... C_ack+Window_size+1]" (rcv.c:49):
\* a taken slot holds the packet of its place in that window.
WindowAsDrawn ==
    hassender => \A s \in (C_ack + 2)..(C_ack + 1 + WINDOW_SIZE) :
        buffer[Slot(s)] = 1 => rcvWindow[Slot(s)].seq = s

\* "If sender receive ack = 0 then filename have been successfully sent otherwise,
\* receiver is busying with other sender" (ncp.c:83): a sender that leaves the
\* connection loop has the receiver's session.
AcceptedMeansOpen ==
    [][\A p \in Senders : phase[p] = "connecting" /\ phase'[p] = "sending"
          => hassender /\ current = p]_vars

\* "filename have been successfully sent" (ncp.c:83): a session opens the file that its
\* sender named, whatever it has been answered before.
NamesArrive == [][hassender' /\ ~hassender => fw' = DestName[current']]_vars

\* "If seq = -1,which means we finish Receiving from current sender" (rcv.c:161):
\* a file that was finished is not opened, and so emptied, again for its sender.
FinishedIsFinal ==
    [][\A p \in Senders : phase[p] = "exited" /\ hassender' /\ ~hassender
          => current' # p]_vars

\* "Sender has to wait until sender is free" (ncp.c:84): the wait ends.
WaitEnds ==
    \A p \in Senders : (phase[p] = "connecting") ~> (phase[p] # "connecting")
=============================================================================
