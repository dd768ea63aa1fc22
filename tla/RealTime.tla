------------------------------ MODULE RealTime ------------------------------
(***************************************************************************)
(* The real-time transport of p2: rt_srv, its rt_rcv clients, the network     *)
(* and the clock.                                                           *)
(***************************************************************************)
EXTENDS RtSrv, RtRcv

rtVars == <<rtNetVars, srvVars, cliVars>>

RtInit == RtNetInit /\ SrvInit /\ CliInit

\* A datagram for a client that has exited meets a closed port.
CliPortClosed ==
    /\ \E m \in toCli : cliPhase[m.dst] = "exited" /\ toCli' = toCli \ {m}
    /\ UNCHANGED <<toSrv, now, srvVars, cliVars>>

RtNext ==
    \/ SrvNext /\ UNCHANGED cliVars
    \/ \E p \in Clients : CliNext(p) /\ UNCHANGED srvVars
    \/ CliPortClosed
    \/ Tick /\ UNCHANGED <<srvVars, cliVars>>

RtSpec == RtInit /\ [][RtNext]_rtVars

-----------------------------------------------------------------------------
\* The windows hold packets, the counters are natural numbers, the timers are
\* times (or, at a client, not set).
RtTypeOK == RtNetTypeOK /\ SrvTypeOK /\ CliTypeOK

-----------------------------------------------------------------------------
(* Safety *)

\* The receiver's window: buffersize, which bounds the search of it, counts the
\* taken slots, and each of them holds the packet its place stands for, one that
\* was sent.  Delivery moves the window over what is missing (rt_rcv.c:184), so
\* this says that no packet of an earlier round of the slots stays behind.
RtBufferAgrees ==
    \A p \in Clients :
        /\ buffersize[p] = Cardinality({s \in Slots : buffer[p][s]})
        /\ \A s \in Taken(p) : cliWindow[p][Slot(s)].seq = s /\ s < seq

\* The losses of a report (rt_rcv.c:372).
Lost(p) == C_ack[p] - (rcvd_count[p] - buffersize[p])

\* They are the packets that were passed over, whatever came late, twice or both.
LossIsWhatWasSkipped ==
    \A p \in Clients :
        Lost(p) = Cardinality({s \in 1..C_ack[p] : ~Contains(delivered[p], s)})

\* The timer of the reports is only set by a packet that is not a resent one
\* (rt_rcv.c:219), but used as soon as any packet has been accepted.
ReportTimerSet ==
    \A p \in Clients : rcvd_count[p] > 0 => cliReport[p] # Unset

\* More packets are in the window than it has slots.
Overrun == seq - head > WINDOW_SIZE

\* The packet that the server takes from its window for a NACK under way is still in time,
\* and the one the NACK asks for.  Only when the application has overrun the window, which
\* nothing prevents (rt_srv.c:145), may it be a later one in the same slot; a slot that
\* was given to a later packet after its old one expired answers for that one no more.
ResendsWhatIsNacked ==
    \A m \in toSrv : m.type = ACK =>
        \A i \in 1..NACK_SIZE :
            LET s == m.nack[i]
                kept == srvWindow[Slot(s)]
            IN  Resendable(s) => /\ now <= kept.ts + Latency
                                 /\ kept.seq = s \/ (Overrun /\ s < kept.seq)

\* While a client is served no other one receives anything, though the server sends
\* to whoever wrote last.
ServesOneClient ==
    \A p \in Clients : cliPhase[p] = "receiving" => p = current_addr

Stream == INSTANCE GapStream WITH sent <- seq - 1, out <- delivered[current_addr]

\* What the client's application gets is a stream with gaps: in order, nothing twice.
ImplementsGapStream == Stream!Spec

-----------------------------------------------------------------------------
(* Liveness *)

\* The loop of a client never stops: what is at its top is delivered, and a report
\* that is due ends the wait for datagrams.  Time passes.
RtFairness ==
    /\ WF_rtVars(Tick /\ UNCHANGED <<srvVars, cliVars>>)
    /\ \A p \in Clients :
          /\ WF_rtVars(Deliver(p) /\ UNCHANGED srvVars)
          /\ WF_rtVars(CliReport(p) /\ UNCHANGED srvVars)

RtFairSpec == RtSpec /\ RtFairness

\* A packet in the window of a client goes to its application in the end, whatever
\* is missing before it, and though nothing else may arrive.
BufferedIsDelivered ==
    \A p \in Clients : \A s \in 1..MaxSeq :
        s \in Taken(p) ~> Contains(delivered[p], s)

-----------------------------------------------------------------------------
(* Claims of comments that the code does not keep *)

\* rt_srv.c:33: "Point to the first element of Window, Window[head, head+Windowsize-1]".
HeadInWindow == head <= seq

\* rt_srv.c:163: "resend loss package".
AnswersEveryNack ==
    \A m \in toSrv : m.type = ACK =>
        \A i \in 1..NACK_SIZE : Resendable(m.nack[i]) =>
            \E a \in Answer(m) : a.type = RESENT /\ a.seq = m.nack[i]

\* rt_srv.c:187: "the current address we are using".
StreamStaysWithClient ==
    \A m \in toCli : m.type \in {DATA, RESENT} => m.dst = current_addr

\* rt_rcv.c:117: "Keep Sending request every 1s until we get reply from sender".
\* Both ends read what arrives, and requests do arrive.
AskFairSpec ==
    /\ RtSpec
    /\ WF_rtVars((\E m \in toSrv : SrvRecv(m)) /\ UNCHANGED cliVars)
    /\ \A p \in Clients :
          /\ SF_rtVars(SendRequest(p) /\ toSrv' # toSrv /\ UNCHANGED srvVars)
          /\ WF_rtVars((\E m \in toCli : CliRecv(p, m)) /\ UNCHANGED srvVars)

RequestAnswered == \A p \in Clients : cliPhase[p] = "requesting" ~> cliPhase[p] # "requesting"

\* rt_rcv.c:165: "deliver the packet on Delivery Time".  The computer is fast: time
\* only passes while the loops of the clients wait, with no report due.
Waiting(p) == ~atTop[p] /\ (rcvd_count[p] > 0 => now < cliReport[p])

PromptNext == RtNext /\ (now' > now => \A p \in Clients : Waiting(p))

PromptSpec == RtInit /\ [][PromptNext]_rtVars

DeliverOnTime ==
    \A p \in Clients : \A s \in Due(p) :
        ~atTop[p] => now <= DeliverTime(p, cliWindow[p][Slot(s)].ts)
=============================================================================
