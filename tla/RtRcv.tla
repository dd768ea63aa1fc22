------------------------------- MODULE RtRcv -------------------------------
(***************************************************************************)
(* The receiver process of p2 (p2/source/rt_rcv.c).  It asks for the stream  *)
(* until it is admitted or declined, keeps packets in a window until their    *)
(* delivery time, and gives up what is missing when a later packet is due.    *)
(* A turn of its loop delivers what is due (atTop), then waits for a datagram *)
(* or the time of the next report.                                          *)
(***************************************************************************)
EXTENDS RtNet, SequencesExt

VARIABLES
    cliPhase,     \* "requesting", "receiving" or "exited"
    C_ack,        \* last packet delivered
    buffer,       \* the slots of the window that are taken
    buffersize,   \* how many they are
    cliWindow,
    Base_Delta,   \* estimated difference of the clocks, with the delay of the network
    rcvd_count,
    cliReport,    \* next_report_time
    atTop,        \* at the top of the loop
    delivered     \* history: what went to the local application

cliVars == <<cliPhase, C_ack, buffer, buffersize, cliWindow, Base_Delta,
             rcvd_count, cliReport, atTop, delivered>>

Unset == -1

CliTypeOK ==
    /\ cliPhase \in [Clients -> {"requesting", "receiving", "exited"}]
    /\ C_ack \in [Clients -> Nat]
    /\ buffer \in [Clients -> [Slots -> BOOLEAN]]
    /\ buffersize \in [Clients -> Nat]
    /\ cliWindow \in [Clients -> [Slots -> [seq : Nat, ts : Nat]]]
    /\ Base_Delta \in [Clients -> Nat]
    /\ rcvd_count \in [Clients -> Nat]
    /\ cliReport \in [Clients -> Nat \cup {Unset}]
    /\ atTop \in [Clients -> BOOLEAN]
    /\ delivered \in [Clients -> Seq(Nat)]

CliInit ==
    /\ cliPhase = [p \in Clients |-> "requesting"]
    /\ C_ack = [p \in Clients |-> 0]
    /\ buffer = [p \in Clients |-> [s \in Slots |-> FALSE]]
    /\ buffersize = [p \in Clients |-> 0]
    /\ cliWindow = [p \in Clients |-> [s \in Slots |-> [seq |-> 0, ts |-> 0]]]
    /\ Base_Delta = [p \in Clients |-> 0]
    /\ rcvd_count = [p \in Clients |-> 0]
    /\ cliReport = [p \in Clients |-> Unset]
    /\ atTop = [p \in Clients |-> FALSE]
    /\ delivered = [p \in Clients |-> <<>>]

\* When a packet sent at ts goes to the application.
DeliverTime(p, ts) == ts + Base_Delta[p] + Latency

\* Datagram m read: a permission is sent ten times, so that copies may stay behind.
ReadFrom(m) == toCli' \in Consumed(toCli, m) \cup (IF m.type = PERMIT THEN {toCli} ELSE {})

\* A new estimate of Base_Delta.
Estimated(p) == \E d \in Estimates : Base_Delta' = [Base_Delta EXCEPT ![p] = d]

\* The end of a turn.
NextTurn(p) == atTop' = [atTop EXCEPT ![p] = TRUE]

-----------------------------------------------------------------------------
(* Asking for the stream *)

\* Nothing came for a second: the request goes out (again).  Its NACKs are those
\* of an echo_pkt nobody has written.
SendRequest(p) ==
    /\ cliPhase[p] = "requesting"
    /\ \E nack \in [1..NACK_SIZE -> Stale] :
          SentToSrv({[src |-> p, type |-> REQUEST, nack |-> nack, half |-> 0]})
    /\ UNCHANGED <<toCli, now, cliVars>>

Permitted(p, m) ==
    /\ cliPhase[p] = "requesting" /\ m.dst = p /\ m.type = PERMIT
    /\ ReadFrom(m)
    /\ cliPhase' = [cliPhase EXCEPT ![p] = "receiving"]
    /\ Estimated(p)
    /\ NextTurn(p)
    /\ UNCHANGED <<toSrv, now, C_ack, buffer, buffersize, cliWindow, rcvd_count, cliReport, delivered>>

Declined(p, m) ==
    /\ cliPhase[p] = "requesting" /\ m.dst = p /\ m.type = DECLINE
    /\ ReadFrom(m)
    /\ cliPhase' = [cliPhase EXCEPT ![p] = "exited"]
    /\ UNCHANGED <<toSrv, now, C_ack, buffer, buffersize, cliWindow, Base_Delta, rcvd_count,
                   cliReport, atTop, delivered>>

\* Data before the permission are read and ignored.
TooEarly(p, m) ==
    /\ cliPhase[p] = "requesting" /\ m.dst = p /\ m.type \notin {PERMIT, DECLINE}
    /\ ReadFrom(m)
    /\ UNCHANGED <<toSrv, now, cliVars>>

-----------------------------------------------------------------------------
(* The stream *)

\* Mutant of InWindow: the window is one packet too long.
InLongerWindow(p, s) == C_ack[p] < s /\ s <= C_ack[p] + WINDOW_SIZE + 1

\* Mutant of InWindow: packets already passed over come in again.
InWindowOrBefore(p, s) == s <= C_ack[p] + WINDOW_SIZE

InWindow(p, s) == C_ack[p] < s /\ s <= C_ack[p] + WINDOW_SIZE

\* Mutant of Taken: the slots are not looked at.
TakenOrNot(p) == (C_ack[p] + 1)..(C_ack[p] + WINDOW_SIZE)

Taken(p) == {s \in (C_ack[p] + 1)..(C_ack[p] + WINDOW_SIZE) : buffer[p][Slot(s)]}

\* Mutant of Due: a missing packet stops the look through the window.
DueWithoutGap(p) ==
    {s \in Taken(p) : \A x \in (C_ack[p] + 1)..s :
        x \in Taken(p) /\ now >= DeliverTime(p, cliWindow[p][Slot(x)].ts)}

\* What the look through the window delivers: the taken packets in order, up to the
\* first that is not due.  Missing ones are passed over.
Due(p) ==
    {s \in Taken(p) : \A x \in Taken(p) :
        x <= s => now >= DeliverTime(p, cliWindow[p][Slot(x)].ts)}

\* The i-th of the packets of S is the one that i of them do not exceed.
InOrder(S) ==
    [i \in 1..Cardinality(S) |-> CHOOSE s \in S : Cardinality({x \in S : x <= s}) = i]

Deliver(p) ==
    /\ cliPhase[p] = "receiving" /\ atTop[p]
    /\ delivered' = [delivered EXCEPT ![p] =
          @ \o [i \in 1..Cardinality(Due(p)) |-> cliWindow[p][Slot(InOrder(Due(p))[i])].seq]]
    /\ buffer' = [buffer EXCEPT ![p] =
          [s \in Slots |-> @[s] /\ \A x \in Due(p) : Slot(x) # s]]
    /\ buffersize' = [buffersize EXCEPT ![p] = @ - Cardinality(Due(p))]
    /\ C_ack' = [C_ack EXCEPT ![p] =
          IF Due(p) = {} THEN @ ELSE CHOOSE s \in Due(p) : \A x \in Due(p) : x <= s]
    /\ atTop' = [atTop EXCEPT ![p] = FALSE]
    /\ UNCHANGED <<rtNetVars, cliPhase, cliWindow, Base_Delta, rcvd_count, cliReport>>

\* Mutant of Wanted: a taken slot does not count.
WantedAgain(p, m) == InWindow(p, m.seq) /\ DeliverTime(p, m.ts) >= now

\* Data for a free slot of the window, and still in time for it.
Wanted(p, m) ==
    /\ InWindow(p, m.seq)
    /\ ~buffer[p][Slot(m.seq)]
    /\ DeliverTime(p, m.ts) >= now

\* The packets missing before s, as many as the NACKs of an ACK hold.
Missing(p, s) ==
    LET gaps == {x \in (C_ack[p] + 1)..(s - 1) : ~buffer[p][Slot(x)]}
        Place(x) == Cardinality({y \in gaps : y <= x})
    IN  [i \in 1..NACK_SIZE |-> IF \E x \in gaps : Place(x) = i
                                THEN CHOOSE x \in gaps : Place(x) = i ELSE -1]

\* Mutant of ReportTime: it is the second packet that starts it.
ReportTimeBySecond(p, m) ==
    IF rcvd_count[p] = 1 /\ m.type = DATA THEN now + Report_Interval ELSE cliReport[p]

\* The first packet starts the timer of the reports, if it is no resent one.
ReportTime(p, m) ==
    IF rcvd_count[p] = 0 /\ m.type = DATA THEN now + Report_Interval ELSE cliReport[p]

Receiving(p, m) ==
    /\ cliPhase[p] = "receiving" /\ ~atTop[p] /\ m.dst = p
    /\ ReadFrom(m)
    /\ NextTurn(p)
    /\ UNCHANGED <<now, cliPhase, C_ack, delivered>>

RecvWanted(p, m) ==
    /\ m.type \in {DATA, RESENT} /\ Wanted(p, m)
    /\ Receiving(p, m)
    /\ Estimated(p)
    /\ cliReport' = [cliReport EXCEPT ![p] = ReportTime(p, m)]
    /\ rcvd_count' = [rcvd_count EXCEPT ![p] = @ + 1]
    /\ cliWindow' = [cliWindow EXCEPT ![p][Slot(m.seq)] = [seq |-> m.seq, ts |-> m.ts]]
    /\ buffersize' = [buffersize EXCEPT ![p] = @ + 1]
    /\ buffer' = [buffer EXCEPT ![p][Slot(m.seq)] = TRUE]
    /\ \E half \in Estimates :
          SentToSrv({[src |-> p, type |-> ACK, nack |-> Missing(p, m.seq), half |-> half]})

RecvUnwanted(p, m) ==
    /\ m.type \in {DATA, RESENT} /\ ~Wanted(p, m)
    /\ Receiving(p, m)
    /\ UNCHANGED <<toSrv, buffer, buffersize, cliWindow, Base_Delta, rcvd_count, cliReport>>

RecvAckAck(p, m) ==
    /\ m.type = ACKACK
    /\ Receiving(p, m)
    /\ Estimated(p)
    /\ UNCHANGED <<toSrv, buffer, buffersize, cliWindow, rcvd_count, cliReport>>

RecvOther(p, m) ==
    /\ m.type \in {PERMIT, DECLINE}
    /\ Receiving(p, m)
    /\ UNCHANGED <<toSrv, buffer, buffersize, cliWindow, Base_Delta, rcvd_count, cliReport>>

\* select() times out, or refuses a timeout that has passed.
CliReport(p) ==
    /\ cliPhase[p] = "receiving" /\ ~atTop[p]
    /\ rcvd_count[p] > 0 /\ now >= cliReport[p]
    /\ cliReport' = [cliReport EXCEPT ![p] = @ + Report_Interval]
    /\ NextTurn(p)
    /\ UNCHANGED <<rtNetVars, cliPhase, C_ack, buffer, buffersize, cliWindow, Base_Delta,
                   rcvd_count, delivered>>

CliRecv(p, m) ==
    \/ Permitted(p, m) \/ Declined(p, m) \/ TooEarly(p, m)
    \/ RecvWanted(p, m) \/ RecvUnwanted(p, m) \/ RecvAckAck(p, m) \/ RecvOther(p, m)

CliNext(p) ==
    \/ SendRequest(p)
    \/ \E m \in toCli : CliRecv(p, m)
    \/ Deliver(p)
    \/ CliReport(p)
=============================================================================
