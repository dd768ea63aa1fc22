----------------------------- MODULE StateFlood -----------------------------
(***************************************************************************)
(* How Spines daemons flood the costs of the edges (daemon/state_flood.c,    *)
(* link_state.c, network.c).  Each edge belongs to its source, which stamps  *)
(* it anew when its cost changes.  A daemon that hears of a newer stamp keeps*)
(* the cell among its changed states until it was sent to every connected    *)
(* neighbor; a mask of neighbor ids tells who has it.  The ids are handed on *)
(* when neighbors come and go, so that the mask of a cell may speak of a     *)
(* neighbor that is not there any more.                                      *)
(*                                                                         *)
(* Packets go over the reliable control link of a leg.  Until the link is    *)
(* destroyed each arrives once, but in any order (ReliableChannel): a packet *)
(* is processed when it comes, whatever is missing before it.  An end that   *)
(* connects again is a new control link, with which the other end starts anew*)
(* (NetworkLegs).                                                          *)
(***************************************************************************)
EXTENDS Integers, Sequences, FiniteSetsExt, Functions, BagsExt

CONSTANTS
    Daemons,
    Edges,             \* the directed edges that all daemons have in their configuration
    Slots,             \* values of neighbor_id
    Costs,             \* of connected edges
    Wireless,          \* updates wait a while
    CellsPerPass,      \* cells one call of Net_Send_State_Updates sends at most
    Second,            \* microseconds of a second
    Up,                \* edges that are connected, and known to all, at first
    Started,           \* the second when the daemons start first
    Seconds,           \* bound: when they may start later
    Crashing,          \* bound: daemons that may crash
    MaxToDo,           \* bound: what is under way when a leg or a cost changes
    MaxFaults          \* bound: disconnections, crashes and changes of costs

Edge(s, d) == <<s, d>>
Neighbors(n) == {m \in Daemons : Edge(n, m) \in Edges}

ASSUME FloodAssumption ==
    /\ Daemons \subseteq Nat /\ IsFiniteSet(Daemons)
    /\ IsFiniteSet(Slots) /\ Slots = 0..(Cardinality(Slots) - 1)
    /\ Edges \subseteq {e \in Daemons \X Daemons : e[1] # e[2]}
    /\ \A n, m \in Daemons : Edge(n, m) \in Edges <=> Edge(m, n) \in Edges
    /\ \A n \in Daemons : Cardinality(Neighbors(n)) <= Cardinality(Slots)
    /\ Up \subseteq Edges /\ \A e \in Up : Edge(e[2], e[1]) \in Up
    /\ Costs \subseteq Nat /\ Costs # {} /\ Started \in Nat \ {0} /\ Seconds \subseteq Nat \ {0}
    /\ CellsPerPass \in Nat \ {0} /\ Second \in Nat /\ MaxFaults \in Nat

VARIABLES
    All_Edges,         \* per daemon and edge: its stamp and cost
    Changed_Edges,     \* per daemon: edges to tell the neighbors of
    mask,              \* per daemon and edge: ids of the neighbors that need not be told
    neighbor_id,       \* per daemon and neighbor: its id
    syncing,           \* per daemon: neighbors for which Net_Send_State_All is queued
    chan,              \* chan[n][m]: the bag of state packets on their way from n to m
    torn,              \* pairs of neighbors of which one still has a dead control link
    boots,             \* per daemon: the clock when it was started, each time
    mishaps            \* how many faults there were

floodVars == <<All_Edges, Changed_Edges, mask, neighbor_id, syncing, chan, torn, boots,
               mishaps>>

NONE == -1
DISCONNECTED == -1    \* the cost of an edge that is down

EmptyBag == [pkt \in {} |-> 0]

Cell == [stamp : Nat, cost : Costs \cup {DISCONNECTED}]

FloodTypeOK ==
    /\ All_Edges \in [Daemons -> [Edges -> Cell]]
    /\ Changed_Edges \in [Daemons -> SUBSET Edges]
    /\ mask \in [Daemons -> [Edges -> SUBSET Slots]]
    /\ neighbor_id \in [Daemons -> [Daemons -> Slots \cup {NONE}]]
    /\ syncing \in [Daemons -> SUBSET Daemons]
    /\ \A n, m \in Daemons : \A pkt \in DOMAIN chan[n][m] :
          /\ chan[n][m][pkt] \in Nat \ {0}
          /\ DOMAIN pkt \subseteq Edges /\ \A e \in DOMAIN pkt : pkt[e] \in Cell
    /\ torn \subseteq {{e[1], e[2]} : e \in Edges}
    /\ boots \in [Daemons -> Seq(Seconds \cup {Started})]
    /\ mishaps \in 0..MaxFaults

\* Create_Edge: what a daemon knows when it starts.
Configured(n, sec) ==
    [e \in Edges |-> [stamp |-> IF e[1] = n THEN sec * Second ELSE 0, cost |-> DISCONNECTED]]

\* What it knows at first: all of the edges of the daemons that are connected.
Settled(n) ==
    LET connected == {e[1] : e \in Up}
    IN  [e \in Edges |->
            IF e \in Up /\ n \in connected
            THEN [stamp |-> Started * Second + 1, cost |-> Min(Costs)]
            ELSE Configured(IF {n, e[1]} \subseteq connected THEN e[1] ELSE n, Started)[e]]

FloodInit ==
    /\ boots = [n \in Daemons |-> <<Started>>]
    /\ All_Edges = [n \in Daemons |-> Settled(n)]
    /\ Changed_Edges = [n \in Daemons |-> {}]
    /\ mask = [n \in Daemons |-> [e \in Edges |-> {}]]
    /\ neighbor_id = [n \in Daemons |-> [m \in Daemons |->
          IF Edge(n, m) \in Up THEN Cardinality({k \in 0..(m - 1) : Edge(n, k) \in Up})
          ELSE NONE]]
    /\ syncing = [n \in Daemons |-> {}]
    /\ chan = [n \in Daemons |-> [m \in Daemons |-> EmptyBag]]
    /\ torn = {}
    /\ mishaps = 0

\* Is_Connected_Neighbor2
IsConnected(n, m) == m \in Neighbors(n) /\ All_Edges[n][Edge(n, m)].cost # DISCONNECTED

-----------------------------------------------------------------------------
(* Edges *)

\* Add_to_changed_states: everybody is to be told, but those who told.
AddToChangedStates(n, edges, told) ==
    /\ Changed_Edges' = [Changed_Edges EXCEPT ![n] = @ \cup edges]
    /\ mask' = [mask EXCEPT ![n] = [e \in Edges |-> IF e \in edges THEN told ELSE @[e]]]

\* Mutant of SetCost: the edge keeps its stamp.
SetCostOnly(n, m, cost) ==
    /\ All_Edges' = [All_Edges EXCEPT ![n][Edge(n, m)].cost = cost]
    /\ AddToChangedStates(n, {Edge(n, m)}, {})

\* Network_Leg_Set_Cost, but for the neighbors.
SetCost(n, m, cost) ==
    /\ All_Edges' = [All_Edges EXCEPT
          ![n][Edge(n, m)] = [stamp |-> @.stamp + 1, cost |-> cost]]
    /\ AddToChangedStates(n, {Edge(n, m)}, {})

\* What a dead control link of n held for its neighbor is lost; what is on the network
\* may still come.
Severed(n, m) ==
    [chan EXCEPT ![m][n] = EmptyBag,
                 ![n][m] = IF IsConnected(m, n) THEN @ ELSE EmptyBag]

\* What is queued with no timeout comes before the next packet.
Reads(n) == syncing[n] = {} /\ (Wireless \/ Changed_Edges[n] = {})

\* The bound on what the daemons have to do and the network to deliver.
Calm ==
    MapThenSumSet(LAMBDA e : SumFunction(chan[e[1]][e[2]]), Edges)
        + Cardinality({n \in Daemons : Changed_Edges[n] # {}}) < MaxToDo

Mishap == mishaps < MaxFaults /\ Calm /\ mishaps' = mishaps + 1

\* The leg to m is connected.  Ids are given when control links are made, so that any
\* free one may be there.
Connect(n, m) ==
    /\ ~IsConnected(n, m) /\ {n, m} \notin torn
    /\ Reads(n) /\ Calm
    /\ \E id \in Slots \ {neighbor_id[n][k] : k \in Daemons} :
          neighbor_id' = [neighbor_id EXCEPT ![n][m] = id]
    /\ SetCost(n, m, Min(Costs))
    /\ syncing' = [syncing EXCEPT ![n] = @ \cup {m}]
    /\ UNCHANGED <<chan, torn, boots, mishaps>>

\* Disconnect_Network_Leg.  The other end follows sooner or later.
Disconnect(n, m) ==
    /\ IsConnected(n, m)
    /\ IF {n, m} \in torn THEN UNCHANGED mishaps ELSE Mishap
    /\ torn' = IF IsConnected(m, n) THEN torn \cup {{n, m}} ELSE torn \ {{n, m}}
    /\ neighbor_id' = [neighbor_id EXCEPT ![n][m] = NONE]
    /\ SetCost(n, m, DISCONNECTED)
    /\ syncing' = [syncing EXCEPT ![n] = @ \ {m}]
    /\ chan' = Severed(n, m)
    /\ UNCHANGED boots

\* Network_Leg_Update_Cost
ChangeCost(n, m) ==
    /\ IsConnected(n, m) /\ Reads(n)
    /\ Mishap
    /\ \E cost \in Costs \ {All_Edges[n][Edge(n, m)].cost} : SetCost(n, m, cost)
    /\ UNCHANGED <<neighbor_id, syncing, chan, torn, boots>>

\* A daemon crashes and is started again, by a clock that may have been set.
Crash(n) ==
    /\ n \in Crashing /\ Mishap
    /\ \E sec \in Seconds \ Range(boots[n]) :
          /\ boots' = [boots EXCEPT ![n] = Append(@, sec)]
          /\ All_Edges' = [All_Edges EXCEPT ![n] = Configured(n, sec)]
    /\ Changed_Edges' = [Changed_Edges EXCEPT ![n] = {}]
    /\ mask' = [mask EXCEPT ![n] = [e \in Edges |-> {}]]
    /\ neighbor_id' = [neighbor_id EXCEPT ![n] = [m \in Daemons |-> NONE]]
    /\ syncing' = [syncing EXCEPT ![n] = {}]
    /\ torn' = {p \in torn : n \notin p} \cup {{n, m} : m \in {k \in Daemons : IsConnected(k, n)}}
    /\ chan' = [k \in Daemons |-> [m \in Daemons |->
                  IF m = n \/ (k = n /\ ~IsConnected(m, n)) THEN EmptyBag ELSE chan[k][m]]]

-----------------------------------------------------------------------------
(* Flooding *)

\* The channel from n to m after n sends these cells.  They reach nobody when m has
\* another control link by now.
Sent(n, m, edges) ==
    IF edges = {} \/ {n, m} \in torn THEN chan[n][m]
    ELSE BagAdd(chan[n][m], [e \in edges |-> All_Edges[n][e]])

SendStateAll(n, m) ==
    /\ m \in syncing[n]
    /\ syncing' = [syncing EXCEPT ![n] = @ \ {m}]
    /\ chan' = [chan EXCEPT ![n][m] = Sent(n, m, Edges)]
    /\ UNCHANGED <<All_Edges, Changed_Edges, mask, neighbor_id, torn, boots, mishaps>>

\* Changed cells that n has for its neighbor m.
Needed(n, m) == {e \in Changed_Edges[n] : neighbor_id[n][m] \notin mask[n][e]}

\* Mutant of SendStateUpdates: what was not sent in this pass is forgotten.
SendStateUpdatesOnce(n) ==
    LET connected == {m \in Daemons : IsConnected(n, m)}
        More(m) == Cardinality(Needed(n, m)) > CellsPerPass
        Pass(m) == IF More(m) THEN kSubset(CellsPerPass, Needed(n, m)) ELSE {Needed(n, m)}
    IN  /\ Changed_Edges[n] # {}
        /\ \E sends \in [connected -> UNION {Pass(m) : m \in connected}] :
              /\ \A m \in connected : sends[m] \in Pass(m)
              /\ chan' = [chan EXCEPT ![n] = [m \in Daemons |->
                            IF m \in connected THEN Sent(n, m, sends[m]) ELSE @[m]]]
        /\ mask' = [mask EXCEPT ![n] = [e \in Edges |-> {}]]
        /\ Changed_Edges' = [Changed_Edges EXCEPT ![n] = {}]
        /\ UNCHANGED <<All_Edges, neighbor_id, syncing, torn, boots, mishaps>>

\* Send_State_Updates with Net_Send_State_Updates.  When there is more than a pass sends,
\* it is queued again.
SendStateUpdates(n) ==
    LET connected == {m \in Daemons : IsConnected(n, m)}
        More(m) == Cardinality(Needed(n, m)) > CellsPerPass
        Pass(m) == IF More(m) THEN kSubset(CellsPerPass, Needed(n, m)) ELSE {Needed(n, m)}
    IN  /\ Changed_Edges[n] # {}
        /\ \E sends \in [connected -> UNION {Pass(m) : m \in connected}] :
              /\ \A m \in connected : sends[m] \in Pass(m)
              /\ chan' = [chan EXCEPT ![n] = [m \in Daemons |->
                            IF m \in connected THEN Sent(n, m, sends[m]) ELSE @[m]]]
              /\ IF \E m \in connected : More(m)
                 THEN /\ mask' = [mask EXCEPT ![n] = [e \in Edges |-> @[e] \cup
                                    {neighbor_id[n][m] : m \in {k \in connected : e \in sends[k]}}]]
                      /\ UNCHANGED Changed_Edges
                 ELSE /\ mask' = [mask EXCEPT ![n] = [e \in Edges |-> {}]]
                      /\ Changed_Edges' = [Changed_Edges EXCEPT ![n] = {}]
        /\ UNCHANGED <<All_Edges, neighbor_id, syncing, torn, boots, mishaps>>

\* Mutant of ProcessStatePacket: what is known already is flooded again.
ProcessStatePacketAgain(n, sender) ==
    /\ IsConnected(n, sender)
    /\ Reads(n)
    /\ \E pkt \in DOMAIN chan[sender][n] :
          LET known == All_Edges[n]
              newer == {e \in DOMAIN pkt : known[e].stamp <= pkt[e].stamp}
          IN  /\ chan' = [chan EXCEPT ![sender][n] = BagRemove(@, pkt)]
              /\ All_Edges' = [All_Edges EXCEPT ![n] = [e \in Edges |->
                    IF e \in newer /\ e[1] # n THEN pkt[e] ELSE known[e]]]
              /\ AddToChangedStates(n, newer, {})
    /\ UNCHANGED <<neighbor_id, syncing, torn, boots, mishaps>>

\* Process_state_packet with Edge_Process_state_cell, for any packet on its way: Process_Ack
\* lets a fresh one through whatever is missing before it.  A daemon publishes its own
\* edges: it outbids what others have of them.
ProcessStatePacket(n, sender) ==
    /\ IsConnected(n, sender)
    /\ Reads(n)
    /\ \E pkt \in DOMAIN chan[sender][n] :
          LET known == All_Edges[n]
              newer == {e \in DOMAIN pkt : known[e].stamp < pkt[e].stamp}
              mine == {e \in newer : e[1] = n}
              same == {e \in DOMAIN pkt : known[e].stamp = pkt[e].stamp}
              id == neighbor_id[n][sender]
          IN  /\ chan' = [chan EXCEPT ![sender][n] = BagRemove(@, pkt)]
              /\ All_Edges' = [All_Edges EXCEPT ![n] = [e \in Edges |->
                    IF e \in mine THEN [stamp |-> pkt[e].stamp + 1, cost |-> known[e].cost]
                    ELSE IF e \in newer THEN pkt[e] ELSE known[e]]]
              /\ Changed_Edges' = [Changed_Edges EXCEPT ![n] = @ \cup newer]
              /\ mask' = [mask EXCEPT ![n] = [e \in Edges |->
                    IF e \in mine THEN {}
                    ELSE IF e \in newer THEN {id}
                    ELSE IF e \in same \cap Changed_Edges[n] THEN @[e] \cup {id} ELSE @[e]]]
    /\ UNCHANGED <<neighbor_id, syncing, torn, boots, mishaps>>

FloodNext ==
    \E n \in Daemons :
        \/ \E m \in Neighbors(n) :
              \/ Connect(n, m)
              \/ Disconnect(n, m)
              \/ ChangeCost(n, m)
              \/ SendStateAll(n, m)
              \/ ProcessStatePacket(n, m)
        \/ Crash(n)
        \/ SendStateUpdates(n)

FloodSpec == FloodInit /\ [][FloodNext]_floodVars

\* E_handle_events: a daemon that has something to do does something.
Works(n) ==
    \/ SendStateUpdates(n)
    \/ \E m \in Neighbors(n) : SendStateAll(n, m) \/ ProcessStatePacket(n, m)

FloodFairness == \A n \in Daemons : WF_floodVars(Works(n))

FairFloodSpec == FloodSpec /\ FloodFairness

-----------------------------------------------------------------------------
(* Properties *)

\* n is about to tell m, or has told it, of edge e as n knows it.
TellsOf(n, m, e) ==
    \/ m \in syncing[n]
    \/ e \in Needed(n, m)
    \/ \E pkt \in DOMAIN chan[n][m] :
          e \in DOMAIN pkt /\ pkt[e].stamp = All_Edges[n][e].stamp

\* What a connected daemon knows and its neighbor does not is on its way, however often
\* the ids of neighbors were handed on and whatever the masks say: the flooding swallows
\* a cell only when everybody there has it (state_flood.c:545-557, 787-799).
NewsIsOnItsWay ==
    \A n, m \in Daemons : IsConnected(n, m) /\ {n, m} \notin torn =>
        \A e \in Edges :
            All_Edges[n][e].stamp > All_Edges[m][e].stamp => TellsOf(n, m, e)

TurnedBack(n) == \E i, j \in 1..Len(boots[n]) : i < j /\ boots[n][i] > boots[n][j]

\* Two daemons with the same stamp of an edge have the same cost for it, which an equal
\* stamp is taken to mean, unless the clock of its source was set back at a restart.
OneCostPerStamp ==
    \A n, m \in Daemons, e \in Edges :
        All_Edges[n][e].stamp = All_Edges[m][e].stamp =>
            All_Edges[n][e].cost = All_Edges[m][e].cost \/ TurnedBack(e[1])

\* Every change is flooded to an end: also when a daemon and its neighbors outbid each
\* other, nothing goes round for ever.
FloodingEnds ==
    <>[](\A n, m \in Daemons :
            /\ Changed_Edges[n] = {} /\ syncing[n] = {}
            /\ IsConnected(n, m) => chan[m][n] = EmptyBag)
=============================================================================
