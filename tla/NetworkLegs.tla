---------------------------- MODULE NetworkLegs ----------------------------
(***************************************************************************)
(* How Spines daemons connect (daemon/hello.c, network.c, link.c).  The leg  *)
(* between the daemons 0 and 1 has an end at each.  An end makes its control *)
(* link when a hello or a ping comes in, is connected after CONNECT_LINK_CNT *)
(* hellos, and is disconnected after DEAD_LINK_CNT unanswered ones, or as    *)
(* soon as a hello shows that the other end has another control link than    *)
(* before.                                                                 *)
(*                                                                         *)
(* The events of a link are queued by its place in the array Links, which it *)
(* shares with the links of other legs: which place is free when a control   *)
(* link is made depends on them, and they are left out.  So is time: a queued*)
(* event may be handled at any moment, in an order the timeouts allow.       *)
(***************************************************************************)
EXTENDS Integers, Sequences, FiniteSetsExt, SequencesExt

CONSTANTS
    Places,            \* places of the array Links
    DEAD_LINK_CNT, CONNECT_LINK_CNT, hello_cnt_start,
    WireCap,           \* bound: datagrams on their way to each end
    MaxFaults          \* bound: faults of the network and the daemons

LegEnds == {0, 1}

Other(e) == 1 - e

ASSUME LegAssumption ==
    /\ hello_cnt_start \in Nat \ {0} /\ DEAD_LINK_CNT \in Nat /\ DEAD_LINK_CNT > hello_cnt_start
    /\ CONNECT_LINK_CNT \in Nat \ {0}
    /\ Places \subseteq Nat
    /\ WireCap \in [LegEnds -> Nat \ {0}]
    /\ MaxFaults \in Nat

VARIABLES
    leg,       \* per end: its Network_Leg
    queue,     \* per end: the events queued for its control links
    wire,      \* per end: datagrams on their way to it
    faults,    \* what has gone wrong; each kind of fault comes once
    stale      \* history: ids of the other end that were dead when the control link was made

legVars == <<leg, queue, wire, faults, stale>>

NONE == -1

Network_Leg ==
    [status : {"disconnected", "not_yet_connected", "connected"},
     place : Places \cup {NONE},       \* of the control link
     ctrl_link_id : Nat,               \* 0: none
     other_side_ctrl_link_id : Nat,
     hellos_out : 0..(DEAD_LINK_CNT + 1),
     connect_cnter : Nat,
     resting : BOOLEAN]                \* disconnected less than stable_timeout ago

\* hello is Send_Hello, counting Send_Hello_Request_Cnt, asking Send_Hello_Request,
\* dying Dead_Leg, and syncing Net_Send_State_All.
Queue ==
    [hello : [Places -> {"no", "later", "now"}],
     counting : SUBSET Places, asking : SUBSET Places,
     dying : SUBSET Places, syncing : SUBSET Places]

LegTypeOK ==
    /\ leg \in [LegEnds -> Network_Leg]
    /\ queue \in [LegEnds -> Queue]
    /\ wire \in [LegEnds -> Seq([type : {"ping", "hello", "hello_req", "state"}, id : Nat])]
    /\ faults \subseteq {"loss", "overtaking", "crash"}
    /\ stale \in [LegEnds -> SUBSET Nat]

NoLink == [status |-> "disconnected", place |-> NONE, ctrl_link_id |-> 0,
           other_side_ctrl_link_id |-> 0, hellos_out |-> 0, connect_cnter |-> 0,
           resting |-> FALSE]

NothingQueued == [hello |-> [s \in Places |-> "no"],
                  counting |-> {}, asking |-> {}, dying |-> {}, syncing |-> {}]

LegInit ==
    /\ leg = [e \in LegEnds |-> NoLink] /\ queue = [e \in LegEnds |-> NothingQueued]
    /\ wire = [e \in LegEnds |-> <<>>] /\ faults = {}
    /\ stale = [e \in LegEnds |-> {}]

-----------------------------------------------------------------------------
(* Links *)

\* Ids of datagrams on their way to end e.
Ids(e) == {wire[e][i].id : i \in 1..Len(wire[e])} \ {0}

\* The id rand() gives to a control link of end e: one that nobody remembers.
FreshId(e) ==
    Min(1..(WireCap[Other(e)] + 3) \ (Ids(Other(e)) \cup
            {leg[e].ctrl_link_id, leg[Other(e)].other_side_ctrl_link_id}))

\* Mutant of Created: the hellos of the link before are counted.
CreatedKeepingCount(e, place) ==
    [NoLink EXCEPT !.status = "not_yet_connected", !.place = place, !.ctrl_link_id = FreshId(e),
                   !.connect_cnter = leg[e].connect_cnter]

\* Create_Link of a control link.
Created(e, place) ==
    [NoLink EXCEPT !.status = "not_yet_connected", !.place = place, !.ctrl_link_id = FreshId(e)]

\* Disconnect_Network_Leg, and what becomes of the queue in Destroy_Link: Dead_Leg
\* stays there.
Disconnected == [NoLink EXCEPT !.resting = TRUE]

\* Mutant of Dequeued: the hello requests stay.
DequeuedButRequests(e, place) ==
    [queue[e] EXCEPT !.hello[place] = "no", !.asking = @ \ {place}, !.syncing = @ \ {place}]

Dequeued(e, place) ==
    [queue[e] EXCEPT !.hello[place] = "no", !.counting = @ \ {place},
                     !.asking = @ \ {place}, !.syncing = @ \ {place}]

\* The history, when end e makes a control link.
NoteLink(e) ==
    stale' = [stale EXCEPT ![e] = Ids(e) \ {leg[Other(e)].ctrl_link_id},
                           ![Other(e)] = @ \ {FreshId(e)}]

-----------------------------------------------------------------------------
(* Sending *)

Room(e) == Len(wire[Other(e)]) < WireCap[Other(e)]

\* End e sends a datagram with the id of its control link.
Sends(e, type) ==
    /\ Room(e)
    /\ wire' = [wire EXCEPT ![Other(e)] =
                    Append(@, [type |-> type, id |-> leg[e].ctrl_link_id])]
    /\ UNCHANGED <<faults, stale>>

\* Send_Hello: it escalates when hellos are not answered.  Dead_Leg is due half a
\* period later, before the hello that follows.
SendHello(e) ==
    LET s == leg[e].place
        out == leg[e].hellos_out
    IN  /\ s # NONE /\ queue[e].hello[s] # "no"
        /\ queue[e].hello[s] = "later" =>
              (out > 0 => s \notin queue[e].dying)
        /\ leg' = [leg EXCEPT ![e].hellos_out = @ + 1]
        /\ queue' = [queue EXCEPT
              ![e].hello[s] = "later",
              ![e].counting = IF out = hello_cnt_start THEN @ \cup {s} ELSE @,
              ![e].dying = IF out = DEAD_LINK_CNT THEN @ \cup {s} ELSE @]
        /\ Sends(e, "hello")

\* Send_Hello_Request_Cnt, which queues itself again.
SendHelloRequestCnt(e) ==
    /\ leg[e].place \in queue[e].counting
    /\ Sends(e, "hello_req")
    /\ UNCHANGED <<leg, queue>>

SendHelloRequest(e) ==
    /\ leg[e].place \in queue[e].asking
    /\ queue' = [queue EXCEPT ![e].asking = @ \ {leg[e].place}]
    /\ Sends(e, "hello_req")
    /\ UNCHANGED leg

\* Send_Hello_Ping; the id of a ping is 0, as there is no control link.
SendHelloPing(e) ==
    /\ leg[e].status = "disconnected"
    /\ wire[Other(e)] = <<>>
    /\ Sends(e, "ping")
    /\ UNCHANGED <<leg, queue>>

\* Net_Send_State_All, as one datagram.
SendStateAll(e) ==
    /\ leg[e].place \in queue[e].syncing
    /\ queue' = [queue EXCEPT ![e].syncing = @ \ {leg[e].place}]
    /\ Sends(e, "state")
    /\ UNCHANGED leg

\* Mutant of DeadLeg: no test of hellos_out.
DeadLegUntested(e, s) ==
    /\ s \in queue[e].dying
    /\ IF leg[e].place = s
       THEN /\ leg' = [leg EXCEPT ![e] = Disconnected]
            /\ queue' = [queue EXCEPT ![e] = [Dequeued(e, s) EXCEPT !.dying = @ \ {s}]]
       ELSE /\ queue' = [queue EXCEPT ![e].dying = @ \ {s}]
            /\ UNCHANGED leg
    /\ UNCHANGED <<wire, faults, stale>>

\* Dead_Leg goes by the place: the control link there may be another one by now.
DeadLeg(e, s) ==
    /\ s \in queue[e].dying
    /\ IF leg[e].place = s /\ leg[e].hellos_out >= DEAD_LINK_CNT
       THEN /\ leg' = [leg EXCEPT ![e] = Disconnected]
            /\ queue' = [queue EXCEPT ![e] = [Dequeued(e, s) EXCEPT !.dying = @ \ {s}]]
       ELSE /\ queue' = [queue EXCEPT ![e].dying = @ \ {s}]
            /\ UNCHANGED leg
    /\ UNCHANGED <<wire, faults, stale>>

StableTimeout(e) ==
    /\ leg[e].resting
    /\ leg' = [leg EXCEPT ![e].resting = FALSE]
    /\ UNCHANGED <<queue, wire, faults, stale>>

-----------------------------------------------------------------------------
(* Receiving *)

\* End e reads a datagram of one of these types.  What is queued with no timeout comes
\* first (E_handle_events).
Reads(e, types) ==
    /\ wire[e] # <<>> /\ wire[e][1].type \in types
    /\ leg[e].place # NONE =>
          /\ queue[e].hello[leg[e].place] # "now"
          /\ queue[e].asking = {} /\ queue[e].syncing = {}

Rest(e) == [wire EXCEPT ![e] = Tail(@)]

HelloTypes == {"hello", "hello_req"}

\* Process_hello_ping makes the control link on demand, but not soon after the leg was
\* disconnected.
Refused(e) == leg[e].place = NONE /\ leg[e].resting

RefuseHello(e) ==
    /\ Reads(e, HelloTypes \cup {"ping"})
    /\ Refused(e)
    /\ wire' = Rest(e)
    /\ UNCHANGED <<leg, queue, faults, stale>>

ReceivePing(e) ==
    /\ Reads(e, {"ping"})
    /\ ~Refused(e)
    /\ wire' = Rest(e)
    /\ IF leg[e].place # NONE
       THEN UNCHANGED <<leg, queue, stale>>
       ELSE \E s \in Places :
               /\ leg' = [leg EXCEPT ![e] = Created(e, s)]
               /\ queue' = [queue EXCEPT ![e].hello[s] = "later"]
               /\ NoteLink(e)
    /\ UNCHANGED <<faults>>

\* Process_hello_packet, when the id is of another control link than the known one:
\* the end starts anew, and sends a hello at once.
ReceiveStrangeHello(e) ==
    /\ Reads(e, HelloTypes)
    /\ leg[e].other_side_ctrl_link_id \notin {0, wire[e][1].id}
    /\ Room(e)
    /\ \E s \in Places :
          /\ leg' = [leg EXCEPT ![e] = [Created(e, s) EXCEPT !.hellos_out = 1]]
          /\ queue' = [queue EXCEPT ![e] =
                          [Dequeued(e, leg[e].place) EXCEPT !.hello[s] = "later"]]
    /\ wire' = [Rest(e) EXCEPT ![Other(e)] =
                    Append(@, [type |-> "hello", id |-> FreshId(e)])]
    /\ NoteLink(e)
    /\ UNCHANGED <<faults>>

\* Process_hello_packet otherwise.  A hello that is more than three older than the last
\* one is ignored there: so many are not in flight here.
Heard(e, old, m, s) ==
    LET new == [old EXCEPT !.other_side_ctrl_link_id = m.id, !.hellos_out = 0,
                           !.connect_cnter = IF old.status = "connected" THEN @ ELSE @ + 1]
        connects == old.status # "connected" /\ new.connect_cnter >= CONNECT_LINK_CNT
    IN  /\ leg' = [leg EXCEPT ![e] =
              IF connects THEN [new EXCEPT !.status = "connected"] ELSE new]
        /\ queue' = [queue EXCEPT
              ![e].hello[s] = IF connects \/ m.type = "hello_req" THEN "now"
                              ELSE IF @ = "no" THEN "later" ELSE @,
              ![e].counting = @ \ {s},
              ![e].syncing = IF connects THEN @ \cup {s} ELSE @]

ReceiveHello(e) ==
    /\ Reads(e, HelloTypes)
    /\ ~Refused(e)
    /\ leg[e].other_side_ctrl_link_id \in {0, wire[e][1].id}
    /\ wire' = Rest(e)
    /\ IF leg[e].place # NONE
       THEN Heard(e, leg[e], wire[e][1], leg[e].place) /\ UNCHANGED stale
       ELSE /\ \E s \in Places : Heard(e, Created(e, s), wire[e][1], s)
            /\ NoteLink(e)
    /\ UNCHANGED <<faults>>

\* Prot_process_scat with Process_state_packet: an end that is not connected asks for
\* the hellos it misses, unless it does not know the control link of the packet.
ReceiveState(e) ==
    /\ Reads(e, {"state"})
    /\ wire' = Rest(e)
    /\ queue' = [queue EXCEPT ![e].asking =
          IF /\ leg[e].status = "not_yet_connected"
             /\ leg[e].other_side_ctrl_link_id = wire[e][1].id
          THEN @ \cup {leg[e].place} ELSE @]
    /\ UNCHANGED <<leg, faults, stale>>

Fault(kind) ==
    /\ kind \notin faults /\ Cardinality(faults) < MaxFaults
    /\ faults' = faults \cup {kind}

Lose(e) ==
    /\ Fault("loss")
    /\ wire[e] # <<>>
    /\ wire' = Rest(e)
    /\ UNCHANGED <<leg, queue, stale>>

\* The last datagram overtakes the others.
Overtake(e) ==
    /\ Fault("overtaking")
    /\ Len(wire[e]) > 1
    /\ wire' = [wire EXCEPT ![e] = <<Last(@)>> \o Front(@)]
    /\ UNCHANGED <<leg, queue, stale>>

\* A daemon crashes and is started again.
Crash(e) ==
    /\ Fault("crash")
    /\ leg' = [leg EXCEPT ![e] = NoLink]
    /\ queue' = [queue EXCEPT ![e] = NothingQueued]
    /\ stale' = [stale EXCEPT ![e] = {}]
    /\ UNCHANGED wire

LegNext ==
    \E e \in LegEnds :
        \/ SendHello(e)
        \/ SendHelloRequestCnt(e)
        \/ SendHelloRequest(e)
        \/ SendHelloPing(e)
        \/ SendStateAll(e)
        \/ \E s \in Places : DeadLeg(e, s)
        \/ StableTimeout(e)
        \/ RefuseHello(e)
        \/ ReceivePing(e)
        \/ ReceiveStrangeHello(e)
        \/ ReceiveHello(e)
        \/ ReceiveState(e)
        \/ Lose(e)
        \/ Overtake(e)
        \/ Crash(e)

LegSpec == LegInit /\ [][LegNext]_legVars

-----------------------------------------------------------------------------
(* Properties *)

\* An event that needs its control link finds it, whatever was destroyed and created
\* meanwhile at its place: Send_Hello and Send_Hello_Request_Cnt do not end the daemon
\* (hello.c:199, 273), nor does the assertion of Net_Send_State_All
\* (state_flood.c:129).  And a control link never lacks its periodic hello.
EventsFindTheirLink ==
    \A e \in LegEnds, s \in Places :
        /\ queue[e].hello[s] # "no" <=> leg[e].place = s
        /\ s \in queue[e].counting \cup queue[e].asking => leg[e].place = s
        /\ s \in queue[e].syncing => leg[e].place = s /\ leg[e].status = "connected"

\* An end is not connected to what the network still held of a control link that was
\* dead already when this end made its own: that is what CONNECT_LINK_CNT hellos are
\* for.
ConnectedMeansLive ==
    \A e \in LegEnds :
        leg[e].status = "connected" => leg[e].other_side_ctrl_link_id \notin stale[e]

\* Unless datagrams overtake each other or a daemon crashes, an end that is connected
\* is torn down only after DEAD_LINK_CNT unanswered hellos, or when the control link it
\* is connected to is gone.
SeveredForCause ==
    [][\A e \in LegEnds :
          leg[e].status = "connected" /\ leg'[e].status # "connected" =>
              \/ faults' \cap {"overtaking", "crash"} # {}
              \/ leg[e].hellos_out >= DEAD_LINK_CNT
              \/ leg[e].other_side_ctrl_link_id # leg[Other(e)].ctrl_link_id]_legVars
=============================================================================
