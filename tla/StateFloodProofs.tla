-------------------------- MODULE StateFloodProofs --------------------------
(***************************************************************************)
(* The flooding of costs, whatever the daemons, the edges, the ids of       *)
(* neighbors, the size of a pass, the bounds on faults and the clocks.       *)
(***************************************************************************)
EXTENDS StateFlood, FiniteSetTheorems, SequenceTheorems, TLAPS

Order == INSTANCE WellFoundedInduction

-----------------------------------------------------------------------------
(* The inductive invariant *)

\* What a state packet carries.
Packet == UNION {[edges -> Cell] : edges \in SUBSET Edges}

\* What a channel holds.
PacketBags == UNION {[packets -> Nat \ {0}] : packets \in SUBSET Packet}

FloodTypes ==
    /\ All_Edges \in [Daemons -> [Edges -> Cell]]
    /\ Changed_Edges \in [Daemons -> SUBSET Edges]
    /\ mask \in [Daemons -> [Edges -> SUBSET Slots]]
    /\ neighbor_id \in [Daemons -> [Daemons -> Slots \cup {NONE}]]
    /\ syncing \in [Daemons -> SUBSET Daemons]
    /\ chan \in [Daemons -> [Daemons -> PacketBags]]
    /\ torn \subseteq {{e[1], e[2]} : e \in Edges}
    /\ boots \in [Daemons -> Seq(Seconds \cup {Started})]
    /\ mishaps \in 0..MaxFaults

\* Just the connected neighbors of a daemon have an id, and no two of them the same.
IdsGiven ==
    \A n \in Daemons :
        /\ \A m \in Daemons : IsConnected(n, m) <=> neighbor_id[n][m] # NONE
        /\ \A m, k \in Daemons :
              m # k /\ neighbor_id[n][m] # NONE => neighbor_id[n][m] # neighbor_id[n][k]

\* What a daemon told of an edge is not newer than what it knows.
NotAhead(packets, known) ==
    \A p \in DOMAIN packets : \A e \in DOMAIN p : p[e].stamp <= known[e].stamp

ChanNotAhead ==
    \A n, m \in Daemons : {n, m} \notin torn => NotAhead(chan[n][m], All_Edges[n])

-----------------------------------------------------------------------------
(* Bags of packets *)

\* The empty bag is a bag of packets.
LEMMA EmptyHas == EmptyBag \in PacketBags /\ DOMAIN EmptyBag = {}
<1>1. EmptyBag \in [{} -> Nat \ {0}] BY DEF EmptyBag
<1> QED BY <1>1 DEF PacketBags

\* One more: what is in the bag is there, and the new one.
LEMMA BagAddHas ==
    ASSUME NEW b \in PacketBags, NEW p \in Packet
    PROVE  BagAdd(b, p) \in PacketBags /\ DOMAIN BagAdd(b, p) = DOMAIN b \cup {p}
<1>1. PICK packets \in SUBSET Packet : b \in [packets -> Nat \ {0}] BY DEF PacketBags
<1>2. BagAdd(b, p) \in [packets \cup {p} -> Nat \ {0}] BY <1>1 DEF BagAdd
<1>3. packets \cup {p} \in SUBSET Packet BY <1>1
<1> QED BY <1>1, <1>2, <1>3 DEF PacketBags

\* One less: the others are still there, and perhaps the same once more.
LEMMA BagRemoveHas ==
    ASSUME NEW b \in PacketBags, NEW p \in DOMAIN b
    PROVE  /\ BagRemove(b, p) \in PacketBags
           /\ DOMAIN BagRemove(b, p) \subseteq DOMAIN b
           /\ DOMAIN b \ {p} \subseteq DOMAIN BagRemove(b, p)
<1>1. PICK packets \in SUBSET Packet : b \in [packets -> Nat \ {0}] BY DEF PacketBags
<1>2. CASE b[p] = 1
  <2>1. BagRemove(b, p) \in [packets \ {p} -> Nat \ {0}] BY <1>1, <1>2 DEF BagRemove
  <2>2. packets \ {p} \in SUBSET Packet BY <1>1
  <2> QED BY <1>1, <2>1, <2>2 DEF PacketBags
<1>3. CASE b[p] # 1
  <2>1. BagRemove(b, p) \in [packets -> Nat \ {0}] BY <1>1, <1>3 DEF BagRemove
  <2> QED BY <1>1, <2>1 DEF PacketBags
<1> QED BY <1>2, <1>3

-----------------------------------------------------------------------------
(* The constants *)

\* The constants that the proofs below use, with their types.
LEMMA FloodConstants ==
    /\ Daemons \subseteq Nat /\ IsFiniteSet(Daemons)
    /\ Edges \subseteq Daemons \X Daemons
    /\ \A e \in Edges : e[1] # e[2] /\ e[1] \in Daemons /\ e[2] \in Daemons /\ e = Edge(e[1], e[2])
    /\ NONE \notin Slots /\ Slots \subseteq Nat
    /\ Costs \subseteq Nat /\ DISCONNECTED \notin Costs
    /\ Started \in Nat /\ Started > 0 /\ Seconds \subseteq Nat
    /\ Second \in Nat /\ MaxFaults \in Nat
    /\ Up \subseteq Edges /\ \A e \in Up : Edge(e[2], e[1]) \in Up
BY FloodAssumption, FS_CardinalityType DEF NONE, DISCONNECTED, Edge

\* A set of numbers that is not empty has a least one.
LEMMA LeastCost == Min(Costs) \in Costs
<1>1. Costs \subseteq Nat /\ Costs # {} BY FloodAssumption
<1>2. PICK x \in Costs : \A y \in Costs : ~(<<y, x>> \in Order!OpToRel(<, Nat))
  BY <1>1, Order!NatLessThanWellFounded, Order!WFMin
<1>3. ASSUME NEW y \in Costs PROVE x <= y
  <2>1. ~(y < x) BY <1>1, <1>2 DEF Order!OpToRel
  <2> QED BY <1>1, <2>1
<1> QED
  BY <1>3 DEF Min

\* A cell of a connected edge has a cost.
LEMMA CellHas ==
    ASSUME NEW stamp \in Nat, NEW cost \in Costs \cup {DISCONNECTED}
    PROVE  [stamp |-> stamp, cost |-> cost] \in Cell
BY DEF Cell

\* What a daemon knows when it starts.
LEMMA ConfiguredHas ==
    ASSUME NEW n \in Daemons, NEW sec \in Nat
    PROVE  /\ Configured(n, sec) \in [Edges -> Cell]
           /\ \A e \in Edges : /\ Configured(n, sec)[e].cost = DISCONNECTED
                               /\ e[1] = n => Configured(n, sec)[e].stamp = sec * Second
                               /\ e[1] # n => Configured(n, sec)[e].stamp = 0
<1>1. sec * Second \in Nat BY FloodConstants
<1> QED BY <1>1, FloodConstants DEF Configured, Cell

-----------------------------------------------------------------------------
(* The first state *)

\* The ids of neighbors at first: as many as there are connected ones before it.
Before(n, m) == {k \in 0..(m - 1) : Edge(n, k) \in Up}

\* They are ids, and no two neighbors have the same.
LEMMA FirstIds ==
    ASSUME NEW n \in Daemons, NEW m \in Daemons, Edge(n, m) \in Up
    PROVE  /\ Cardinality(Before(n, m)) \in Slots
           /\ \A k \in Daemons : Edge(n, k) \in Up /\ k # m =>
                 Cardinality(Before(n, k)) # Cardinality(Before(n, m))
<1>1. \A k \in Daemons : IsFiniteSet(Before(n, k)) /\ Cardinality(Before(n, k)) \in Nat
  <2> SUFFICES ASSUME NEW k \in Daemons
               PROVE  IsFiniteSet(Before(n, k)) /\ Cardinality(Before(n, k)) \in Nat
      OBVIOUS
  <2>1. k \in Int /\ 0 \in Int /\ k - 1 \in Int BY FloodConstants
  <2>2. IsFiniteSet(0..(k - 1)) BY <2>1, FS_Interval
  <2>3. Before(n, k) \subseteq 0..(k - 1) BY DEF Before
  <2> QED BY <2>2, <2>3, FS_Subset, FS_CardinalityType
<1>2. \A a, b \in Daemons : Edge(n, a) \in Up /\ a < b =>
          Cardinality(Before(n, a)) < Cardinality(Before(n, b))
  <2> SUFFICES ASSUME NEW a \in Daemons, NEW b \in Daemons, Edge(n, a) \in Up, a < b
               PROVE  Cardinality(Before(n, a)) < Cardinality(Before(n, b))
      OBVIOUS
  <2>1. Before(n, a) \cup {a} \subseteq Before(n, b) BY FloodConstants DEF Before
  <2>2. a \notin Before(n, a) BY FloodConstants DEF Before
  <2>3. Cardinality(Before(n, a) \cup {a}) = Cardinality(Before(n, a)) + 1
    BY <1>1, <2>2, FS_AddElement
  <2>4. Cardinality(Before(n, a) \cup {a}) <= Cardinality(Before(n, b))
    BY <1>1, <2>1, FS_Subset
  <2> QED BY <1>1, <2>3, <2>4
<1>3. Before(n, m) \cup {m} \subseteq Neighbors(n)
  BY FloodConstants DEF Before, Neighbors, Edge
<1>4. IsFiniteSet(Neighbors(n)) BY FloodConstants, FS_Subset DEF Neighbors
<1>5. Cardinality(Before(n, m) \cup {m}) = Cardinality(Before(n, m)) + 1
  <2>1. m \notin Before(n, m) BY FloodConstants DEF Before
  <2> QED BY <1>1, <2>1, FS_AddElement
<1>6. Cardinality(Before(n, m)) < Cardinality(Slots)
  <2>1. Cardinality(Before(n, m)) + 1 <= Cardinality(Neighbors(n))
    BY <1>3, <1>4, <1>5, FS_Subset
  <2>2. Cardinality(Neighbors(n)) <= Cardinality(Slots) BY FloodAssumption
  <2>3. Cardinality(Neighbors(n)) \in Nat /\ Cardinality(Slots) \in Nat
    BY <1>4, FloodAssumption, FS_CardinalityType
  <2> QED BY <1>1, <2>1, <2>2, <2>3
<1>7. Cardinality(Before(n, m)) \in Slots
  <2>1. Slots = 0..(Cardinality(Slots) - 1) /\ Cardinality(Slots) \in Nat
    BY FloodAssumption, FS_CardinalityType
  <2> QED BY <1>1, <1>6, <2>1
<1>8. \A k \in Daemons : Edge(n, k) \in Up /\ k # m =>
          Cardinality(Before(n, k)) # Cardinality(Before(n, m))
  <2> SUFFICES ASSUME NEW k \in Daemons, Edge(n, k) \in Up, k # m
               PROVE  Cardinality(Before(n, k)) # Cardinality(Before(n, m))
      OBVIOUS
  <2>1. k < m \/ m < k BY FloodConstants
  <2> QED BY <1>1, <1>2, <2>1
<1> QED BY <1>7, <1>8

\* What daemons know at first of an edge: the same when both are connected.
LEMMA SettledHas ==
    ASSUME NEW n \in Daemons
    PROVE  /\ Settled(n) \in [Edges -> Cell]
           /\ \A e \in Edges :
                 \/ /\ e \in Up
                    /\ Settled(n)[e] = [stamp |-> Started * Second + 1, cost |-> Min(Costs)]
                 \/ /\ e \notin Up \/ n # e[1]
                    /\ Settled(n)[e] = [stamp |-> Started * Second, cost |-> DISCONNECTED]
                 \/ /\ n # e[1]
                    /\ Settled(n)[e] = [stamp |-> 0, cost |-> DISCONNECTED]
           /\ \A e \in Edges : e[1] = n =>
                 Settled(n)[e] = IF e \in Up
                                 THEN [stamp |-> Started * Second + 1, cost |-> Min(Costs)]
                                 ELSE [stamp |-> Started * Second, cost |-> DISCONNECTED]
           /\ \A m \in Daemons : Edge(n, m) \in Up => Settled(n) = Settled(m)
<1>1. Started * Second \in Nat BY FloodConstants
<1>2. Min(Costs) \in Costs BY LeastCost
<1> DEFINE connected == {e[1] : e \in Up}
<1>3. connected \subseteq Daemons BY FloodConstants
<1>4. \A e \in Edges : Settled(n)[e] =
          IF e \in Up /\ n \in connected
          THEN [stamp |-> Started * Second + 1, cost |-> Min(Costs)]
          ELSE [stamp |-> IF e[1] = n \/ {n, e[1]} \subseteq connected
                          THEN Started * Second ELSE 0,
                cost |-> DISCONNECTED]
  BY FloodConstants DEF Settled, Configured
<1>5. Settled(n) \in [Edges -> Cell]
  <2>1. Settled(n) = [e \in Edges |-> Settled(n)[e]] BY DEF Settled
  <2>2. ASSUME NEW e \in Edges PROVE Settled(n)[e] \in Cell
    <3>1. [stamp |-> Started * Second + 1, cost |-> Min(Costs)] \in Cell
      BY <1>1, <1>2, CellHas
    <3>2. [stamp |-> Started * Second, cost |-> DISCONNECTED] \in Cell
      BY <1>1, CellHas
    <3>3. [stamp |-> 0, cost |-> DISCONNECTED] \in Cell BY CellHas
    <3> QED BY <1>4, <3>1, <3>2, <3>3
  <2> QED BY <2>1, <2>2
<1>6. \A e \in Up : e[1] \in connected OBVIOUS
<1>7. \A m \in Daemons : Edge(n, m) \in Up => Settled(n) = Settled(m)
  <2> SUFFICES ASSUME NEW m \in Daemons, Edge(n, m) \in Up
               PROVE  Settled(n) = Settled(m)
      OBVIOUS
  <2>1. n \in connected /\ m \in connected
    <3>1. Edge(m, n) \in Up BY FloodConstants DEF Edge
    <3> QED BY <3>1, <1>6 DEF Edge
  <2>2. \A e \in Edges : Settled(m)[e] =
          IF e \in Up /\ m \in connected
          THEN [stamp |-> Started * Second + 1, cost |-> Min(Costs)]
          ELSE [stamp |-> IF e[1] = m \/ {m, e[1]} \subseteq connected
                          THEN Started * Second ELSE 0,
                cost |-> DISCONNECTED]
    BY FloodConstants DEF Settled, Configured
  <2>3. ASSUME NEW e \in Edges PROVE Settled(n)[e] = Settled(m)[e]
    <3>1. (e[1] = n \/ {n, e[1]} \subseteq connected) <=>
              (e[1] = m \/ {m, e[1]} \subseteq connected)
      BY <2>1
    <3> QED BY <1>4, <2>1, <2>2, <3>1
  <2>4. Settled(n) = [e \in Edges |-> Settled(n)[e]] /\ Settled(m) = [e \in Edges |-> Settled(m)[e]]
    BY DEF Settled
  <2> QED BY <2>3, <2>4
<1> QED BY <1>4, <1>5, <1>6, <1>7

\* Of an edge that is not connected the cost is DISCONNECTED: at first the connected
\* neighbors are those of Up.
LEMMA FirstConnected ==
    ASSUME FloodInit, NEW n \in Daemons, NEW m \in Daemons
    PROVE  IsConnected(n, m) <=> Edge(n, m) \in Up
<1>1. Min(Costs) # DISCONNECTED BY LeastCost, FloodConstants
<1>2. ASSUME Edge(n, m) \in Up PROVE IsConnected(n, m)
  <2>1. Edge(n, m) \in Edges /\ Edge(n, m)[1] = n BY <1>2, FloodConstants DEF Edge
  <2>2. Settled(n)[Edge(n, m)].cost = Min(Costs) BY <1>2, <2>1, SettledHas
  <2> QED BY <1>1, <2>1, <2>2 DEF IsConnected, Neighbors, FloodInit
<1>3. ASSUME IsConnected(n, m) PROVE Edge(n, m) \in Up
  <2>1. Edge(n, m) \in Edges /\ Edge(n, m)[1] = n BY <1>3 DEF IsConnected, Neighbors, Edge
  <2>2. Settled(n)[Edge(n, m)].cost # DISCONNECTED BY <1>3 DEF IsConnected, FloodInit
  <2> QED BY <2>1, <2>2, SettledHas
<1> QED BY <1>2, <1>3

\* At first everything has its type, and the ids are given.
LEMMA FloodInitTypes == FloodInit => FloodTypes /\ IdsGiven
<1> SUFFICES ASSUME FloodInit PROVE FloodTypes /\ IdsGiven
    OBVIOUS
<1>1. \A n, m \in Daemons : neighbor_id[n][m] =
          IF Edge(n, m) \in Up THEN Cardinality(Before(n, m)) ELSE NONE
  BY DEF FloodInit, Before
<1>2. IdsGiven
  BY <1>1, FirstIds, FirstConnected, FloodConstants DEF IdsGiven
<1>3. All_Edges \in [Daemons -> [Edges -> Cell]] BY SettledHas DEF FloodInit
<1>4. neighbor_id \in [Daemons -> [Daemons -> Slots \cup {NONE}]]
  <2>1. neighbor_id = [n \in Daemons |-> [m \in Daemons |-> neighbor_id[n][m]]]
    BY DEF FloodInit
  <2>2. \A n, m \in Daemons : neighbor_id[n][m] \in Slots \cup {NONE} BY <1>1, FirstIds
  <2> QED BY <2>1, <2>2
<1>5. chan \in [Daemons -> [Daemons -> PacketBags]] BY EmptyHas DEF FloodInit
<1>6. boots \in [Daemons -> Seq(Seconds \cup {Started})] BY DEF FloodInit
<1>7. mishaps \in 0..MaxFaults BY FloodConstants DEF FloodInit
<1> QED BY <1>2, <1>3, <1>4, <1>5, <1>6, <1>7 DEF FloodTypes, FloodInit

-----------------------------------------------------------------------------
(* Types, and the ids of neighbors *)

\* Network_Leg_Set_Cost touches one edge, which is the daemon's own, and all are to be
\* told of it.
LEMMA SetCostHas ==
    ASSUME FloodTypes, NEW n \in Daemons, NEW m \in Neighbors(n),
           NEW cost \in Costs \cup {DISCONNECTED}, SetCost(n, m, cost)
    PROVE  /\ All_Edges' \in [Daemons -> [Edges -> Cell]]
           /\ Changed_Edges' \in [Daemons -> SUBSET Edges]
           /\ mask' \in [Daemons -> [Edges -> SUBSET Slots]]
           /\ \A k \in Daemons : k # n => /\ All_Edges'[k] = All_Edges[k]
                                          /\ Changed_Edges'[k] = Changed_Edges[k]
                                          /\ mask'[k] = mask[k]
           /\ \A e \in Edges : e # Edge(n, m) => /\ All_Edges'[n][e] = All_Edges[n][e]
                                                 /\ mask'[n][e] = mask[n][e]
           /\ All_Edges'[n][Edge(n, m)].stamp = All_Edges[n][Edge(n, m)].stamp + 1
           /\ All_Edges'[n][Edge(n, m)].cost = cost
           /\ Changed_Edges'[n] = Changed_Edges[n] \cup {Edge(n, m)}
           /\ mask'[n][Edge(n, m)] = {}
<1> DEFINE e == Edge(n, m)
<1>1. e \in Edges /\ m \in Daemons BY DEF Neighbors
<1>2. All_Edges[n][e].stamp + 1 \in Nat BY <1>1 DEF FloodTypes, Cell
<1>3. [stamp |-> All_Edges[n][e].stamp + 1, cost |-> cost] \in Cell BY <1>2, CellHas
<1>4. All_Edges' = [All_Edges EXCEPT ![n] = [All_Edges[n] EXCEPT
          ![e] = [stamp |-> All_Edges[n][e].stamp + 1, cost |-> cost]]]
  BY <1>1 DEF SetCost, FloodTypes
<1>5. All_Edges' \in [Daemons -> [Edges -> Cell]] BY <1>1, <1>3, <1>4 DEF FloodTypes
<1>6. All_Edges'[n][e] = [stamp |-> All_Edges[n][e].stamp + 1, cost |-> cost]
  BY <1>1, <1>4 DEF FloodTypes
<1>7. /\ \A k \in Daemons : k # n => All_Edges'[k] = All_Edges[k]
      /\ \A d \in Edges : d # e => All_Edges'[n][d] = All_Edges[n][d]
  BY <1>1, <1>4 DEF FloodTypes
<1>8. /\ Changed_Edges' = [Changed_Edges EXCEPT ![n] = @ \cup {e}]
      /\ mask' = [mask EXCEPT ![n] = [d \in Edges |-> IF d \in {e} THEN {} ELSE mask[n][d]]]
  BY DEF SetCost, AddToChangedStates, FloodTypes
<1> HIDE DEF e
<1>9. /\ Changed_Edges' \in [Daemons -> SUBSET Edges]
      /\ mask' \in [Daemons -> [Edges -> SUBSET Slots]]
      /\ \A k \in Daemons : k # n => /\ Changed_Edges'[k] = Changed_Edges[k]
                                     /\ mask'[k] = mask[k]
      /\ \A d \in Edges : d # e => mask'[n][d] = mask[n][d]
      /\ Changed_Edges'[n] = Changed_Edges[n] \cup {e}
      /\ mask'[n][e] = {}
  BY <1>1, <1>8 DEF FloodTypes
<1> QED BY <1>5, <1>6, <1>7, <1>9 DEF e

\* Who is connected after a cost is set.
LEMMA SetCostConnected ==
    ASSUME FloodTypes, NEW n \in Daemons, NEW m \in Neighbors(n),
           NEW cost \in Costs \cup {DISCONNECTED}, SetCost(n, m, cost),
           NEW a \in Daemons, NEW b \in Daemons
    PROVE  IsConnected(a, b)' <=> IF a = n /\ b = m THEN cost # DISCONNECTED
                                  ELSE IsConnected(a, b)
<1>1. \A c \in Daemons : Edge(n, c) = Edge(n, m) <=> c = m BY DEF Edge
<1> QED BY <1>1, SetCostHas DEF IsConnected, Neighbors

\* Packets stay packets on a channel that lost what it held.
LEMMA SeveredHas ==
    ASSUME FloodTypes, NEW n \in Daemons, NEW m \in Daemons, n # m
    PROVE  /\ Severed(n, m) \in [Daemons -> [Daemons -> PacketBags]]
           /\ \A a, b \in Daemons : Severed(n, m)[a][b] = chan[a][b] \/ Severed(n, m)[a][b] = EmptyBag
           /\ \A a, b \in Daemons : ~(a = n /\ b = m) /\ ~(a = m /\ b = n) =>
                 Severed(n, m)[a][b] = chan[a][b]
           /\ Severed(n, m)[m][n] = EmptyBag
           /\ Severed(n, m)[n][m] = IF IsConnected(m, n) THEN chan[n][m] ELSE EmptyBag
<1>1. EmptyBag \in PacketBags BY EmptyHas
<1> QED BY <1>1 DEF Severed, FloodTypes

\* Connect keeps the types.
LEMMA ConnectTypes ==
    ASSUME FloodTypes, NEW n \in Daemons, NEW m \in Neighbors(n), Connect(n, m)
    PROVE  FloodTypes'
<1>1. Min(Costs) \in Costs \cup {DISCONNECTED} BY LeastCost
<1>2. neighbor_id' \in [Daemons -> [Daemons -> Slots \cup {NONE}]]
  BY DEF Connect, Neighbors, FloodTypes
<1>3. syncing' \in [Daemons -> SUBSET Daemons] BY DEF Connect, Neighbors, FloodTypes
<1>4. SetCost(n, m, Min(Costs)) BY DEF Connect
<1>5. UNCHANGED <<chan, torn, boots, mishaps>> BY DEF Connect
<1> QED BY <1>1, <1>2, <1>3, <1>4, <1>5, SetCostHas DEF FloodTypes

\* Disconnect keeps the types.
LEMMA DisconnectTypes ==
    ASSUME FloodTypes, NEW n \in Daemons, NEW m \in Neighbors(n), Disconnect(n, m)
    PROVE  FloodTypes'
<1>1. n # m /\ m \in Daemons /\ Edge(n, m) \in Edges BY FloodConstants DEF Neighbors, Edge
<1>2. neighbor_id' \in [Daemons -> [Daemons -> Slots \cup {NONE}]]
  BY <1>1 DEF Disconnect, FloodTypes
<1>3. syncing' \in [Daemons -> SUBSET Daemons] BY <1>1 DEF Disconnect, FloodTypes
<1>4. SetCost(n, m, DISCONNECTED) BY DEF Disconnect
<1>5. chan' \in [Daemons -> [Daemons -> PacketBags]] BY <1>1, SeveredHas DEF Disconnect
<1>6. torn' \subseteq {{e[1], e[2]} : e \in Edges}
  <2>1. {n, m} \in {{e[1], e[2]} : e \in Edges} BY <1>1 DEF Edge
  <2> QED BY <2>1 DEF Disconnect, FloodTypes
<1>7. mishaps' \in 0..MaxFaults BY FloodConstants DEF Disconnect, Mishap, FloodTypes
<1>8. UNCHANGED boots BY DEF Disconnect
<1> QED BY <1>2, <1>3, <1>4, <1>5, <1>6, <1>7, <1>8, SetCostHas DEF FloodTypes

\* ChangeCost keeps the types.
LEMMA ChangeCostTypes ==
    ASSUME FloodTypes, NEW n \in Daemons, NEW m \in Neighbors(n), ChangeCost(n, m)
    PROVE  FloodTypes'
<1>1. PICK cost \in Costs : SetCost(n, m, cost) BY DEF ChangeCost
<1>2. mishaps' \in 0..MaxFaults BY FloodConstants DEF ChangeCost, Mishap, FloodTypes
<1>3. UNCHANGED <<neighbor_id, syncing, chan, torn, boots>> BY DEF ChangeCost
<1> QED BY <1>1, <1>2, <1>3, SetCostHas DEF FloodTypes

\* Crash keeps the types.
LEMMA CrashTypes ==
    ASSUME FloodTypes, NEW n \in Daemons, Crash(n)
    PROVE  FloodTypes'
<1>1. PICK sec \in Seconds : /\ boots' = [boots EXCEPT ![n] = Append(@, sec)]
                             /\ All_Edges' = [All_Edges EXCEPT ![n] = Configured(n, sec)]
  BY DEF Crash
<1>2. Configured(n, sec) \in [Edges -> Cell] BY FloodConstants, ConfiguredHas
<1>3. All_Edges' \in [Daemons -> [Edges -> Cell]] BY <1>1, <1>2 DEF FloodTypes
<1>4. boots' \in [Daemons -> Seq(Seconds \cup {Started})]
  <2>1. boots[n] \in Seq(Seconds \cup {Started}) BY DEF FloodTypes
  <2>2. Append(boots[n], sec) \in Seq(Seconds \cup {Started}) BY <2>1
  <2> QED BY <1>1, <2>2 DEF FloodTypes
<1>5. mishaps' \in 0..MaxFaults BY FloodConstants DEF Crash, Mishap, FloodTypes
<1>6. neighbor_id' \in [Daemons -> [Daemons -> Slots \cup {NONE}]] BY DEF Crash, FloodTypes
<1>7. mask' \in [Daemons -> [Edges -> SUBSET Slots]] BY DEF Crash, FloodTypes
<1>8. Changed_Edges' \in [Daemons -> SUBSET Edges] /\ syncing' \in [Daemons -> SUBSET Daemons]
  BY DEF Crash, FloodTypes
<1>9. chan' \in [Daemons -> [Daemons -> PacketBags]]
  <2>1. \A k, j \in Daemons : chan[k][j] \in PacketBags BY DEF FloodTypes
  <2>2. EmptyBag \in PacketBags BY EmptyHas
  <2> QED BY <2>1, <2>2 DEF Crash
<1>10. torn' \subseteq {{e[1], e[2]} : e \in Edges}
  <2>1. \A k \in Daemons : IsConnected(k, n) => {n, k} \in {{e[1], e[2]} : e \in Edges}
    <3> SUFFICES ASSUME NEW k \in Daemons, IsConnected(k, n)
                 PROVE  {n, k} \in {{e[1], e[2]} : e \in Edges}
        OBVIOUS
    <3>1. Edge(k, n) \in Edges BY DEF IsConnected, Neighbors
    <3>2. {n, k} = {Edge(k, n)[1], Edge(k, n)[2]} BY DEF Edge
    <3> QED BY <3>1, <3>2
  <2>2. torn' = {p \in torn : n \notin p} \cup {{n, k} : k \in {j \in Daemons : IsConnected(j, n)}}
    BY DEF Crash
  <2>3. torn \subseteq {{e[1], e[2]} : e \in Edges} BY DEF FloodTypes
  <2> HIDE DEF IsConnected
  <2> QED BY <2>1, <2>2, <2>3
<1> QED BY <1>3, <1>4, <1>5, <1>6, <1>7, <1>8, <1>9, <1>10 DEF FloodTypes

\* What a daemon sends are packets of what it knows.
LEMMA SentHas ==
    ASSUME FloodTypes, NEW n \in Daemons, NEW m \in Daemons, NEW edges \in SUBSET Edges
    PROVE  Sent(n, m, edges) \in PacketBags
<1>1. [e \in edges |-> All_Edges[n][e]] \in Packet BY DEF FloodTypes, Packet
<1>2. chan[n][m] \in PacketBags BY DEF FloodTypes
<1> QED BY <1>1, <1>2, BagAddHas DEF Sent

\* SendStateAll keeps the types.
LEMMA SendStateAllTypes ==
    ASSUME FloodTypes, NEW n \in Daemons, NEW m \in Neighbors(n), SendStateAll(n, m)
    PROVE  FloodTypes'
<1>1. m \in Daemons /\ Sent(n, m, Edges) \in PacketBags BY SentHas DEF Neighbors
<1>2. chan' \in [Daemons -> [Daemons -> PacketBags]]
  BY <1>1 DEF SendStateAll, FloodTypes
<1>3. syncing' \in [Daemons -> SUBSET Daemons] BY DEF SendStateAll, FloodTypes
<1> QED BY <1>2, <1>3 DEF SendStateAll, FloodTypes

\* A pass of Send_State_Updates: what each neighbor is sent, and what is left of the
\* changed states when it is queued again and when it is not.
Pass(n, sends, again) ==
    /\ \A m \in Daemons : IsConnected(n, m) =>
          /\ sends[m] \subseteq Needed(n, m)
          /\ ~again => sends[m] = Needed(n, m)
    /\ \A m \in Daemons :
          chan'[n][m] = IF IsConnected(n, m) THEN Sent(n, m, sends[m]) ELSE chan[n][m]
    /\ \A k \in Daemons : k # n => /\ chan'[k] = chan[k]
                                   /\ mask'[k] = mask[k]
                                   /\ Changed_Edges'[k] = Changed_Edges[k]
    /\ again =>
          /\ Changed_Edges'[n] = Changed_Edges[n]
          /\ \A e \in Edges : mask'[n][e] = mask[n][e] \cup
                {neighbor_id[n][m] : m \in {k \in Daemons : IsConnected(n, k) /\ e \in sends[k]}}
    /\ ~again =>
          /\ Changed_Edges'[n] = {}
          /\ \A e \in Edges : mask'[n][e] = {}

\* SendStateUpdates is such a pass, and keeps the types.
LEMMA SendStateUpdatesHas ==
    ASSUME FloodTypes, IdsGiven, NEW n \in Daemons, SendStateUpdates(n)
    PROVE  /\ FloodTypes'
           /\ \E sends : \E again \in BOOLEAN : Pass(n, sends, again)
<1> DEFINE connected == {m \in Daemons : IsConnected(n, m)}
           More(m) == Cardinality(Needed(n, m)) > CellsPerPass
           Sends(m) == IF More(m) THEN kSubset(CellsPerPass, Needed(n, m)) ELSE {Needed(n, m)}
           again == \E m \in connected : More(m)
<1>1. PICK sends \in [connected -> UNION {Sends(m) : m \in connected}] :
        /\ \A m \in connected : sends[m] \in Sends(m)
        /\ chan' = [chan EXCEPT ![n] = [m \in Daemons |->
                      IF m \in connected THEN Sent(n, m, sends[m]) ELSE chan[n][m]]]
        /\ IF again
           THEN /\ mask' = [mask EXCEPT ![n] = [e \in Edges |-> mask[n][e] \cup
                              {neighbor_id[n][m] : m \in {k \in connected : e \in sends[k]}}]]
                /\ UNCHANGED Changed_Edges
           ELSE /\ mask' = [mask EXCEPT ![n] = [e \in Edges |-> {}]]
                /\ Changed_Edges' = [Changed_Edges EXCEPT ![n] = {}]
  BY DEF SendStateUpdates, FloodTypes
<1>2. \A m \in connected : /\ sends[m] \subseteq Needed(n, m)
                           /\ ~again => sends[m] = Needed(n, m)
  <2> SUFFICES ASSUME NEW m \in connected
               PROVE  /\ sends[m] \subseteq Needed(n, m)
                      /\ ~More(m) => sends[m] = Needed(n, m)
      OBVIOUS
  <2>1. sends[m] \in Sends(m) BY <1>1
  <2> QED BY <2>1 DEF kSubset
<1>3. \A m \in connected : sends[m] \in SUBSET Edges
  BY <1>2 DEF Needed, FloodTypes
<1>4. \A m \in connected : Sent(n, m, sends[m]) \in PacketBags BY <1>3, SentHas
<1>5. chan' \in [Daemons -> [Daemons -> PacketBags]]
  <2>1. chan \in [Daemons -> [Daemons -> PacketBags]] BY DEF FloodTypes
  <2> HIDE DEF connected
  <2> QED BY <1>1, <1>4, <2>1
<1>6. Changed_Edges' \in [Daemons -> SUBSET Edges] BY <1>1 DEF FloodTypes
<1>7. \A m \in connected : neighbor_id[n][m] \in Slots BY DEF FloodTypes, IdsGiven
<1>8. mask' \in [Daemons -> [Edges -> SUBSET Slots]]
  <2>1. mask \in [Daemons -> [Edges -> SUBSET Slots]] BY DEF FloodTypes
  <2>2. CASE again
    <3> HIDE DEF again, connected
    <3>1. [e \in Edges |-> mask[n][e] \cup
              {neighbor_id[n][m] : m \in {k \in connected : e \in sends[k]}}]
             \in [Edges -> SUBSET Slots]
      BY <1>7, <2>1
    <3> QED BY <1>1, <2>1, <2>2, <3>1
  <2>3. CASE ~again
    <3> HIDE DEF again
    <3> QED BY <1>1, <2>1, <2>3
  <2> QED BY <2>2, <2>3
<1>9. FloodTypes'
  <2>1. UNCHANGED <<All_Edges, neighbor_id, syncing, torn, boots, mishaps>>
    BY DEF SendStateUpdates
  <2> QED BY <1>5, <1>6, <1>8, <2>1 DEF FloodTypes
<1>10. Pass(n, sends, again)
  <2>1. \A m \in Daemons : IsConnected(n, m) => /\ sends[m] \subseteq Needed(n, m)
                                                /\ ~again => sends[m] = Needed(n, m)
    BY <1>2
  <2>2. \A m \in Daemons :
            chan'[n][m] = IF IsConnected(n, m) THEN Sent(n, m, sends[m]) ELSE chan[n][m]
    BY <1>1 DEF FloodTypes
  <2>3. \A k \in Daemons : k # n => /\ chan'[k] = chan[k]
                                    /\ mask'[k] = mask[k]
                                    /\ Changed_Edges'[k] = Changed_Edges[k]
    <3> HIDE DEF again
    <3> QED BY <1>1 DEF FloodTypes
  <2>4. ASSUME again
        PROVE  /\ Changed_Edges'[n] = Changed_Edges[n]
               /\ \A e \in Edges : mask'[n][e] = mask[n][e] \cup
                {neighbor_id[n][m] : m \in {k \in Daemons : IsConnected(n, k) /\ e \in sends[k]}}
    <3>1. \A e \in Edges : {k \in connected : e \in sends[k]}
                              = {k \in Daemons : IsConnected(n, k) /\ e \in sends[k]}
      OBVIOUS
    <3> HIDE DEF again, connected
    <3> QED BY <1>1, <2>4, <3>1 DEF FloodTypes
  <2>5. ASSUME ~again
        PROVE  /\ Changed_Edges'[n] = {}
               /\ \A e \in Edges : mask'[n][e] = {}
    <3> HIDE DEF again
    <3> QED BY <1>1, <2>5 DEF FloodTypes
  <2> HIDE DEF again
  <2> QED BY <2>1, <2>2, <2>3, <2>4, <2>5 DEF Pass
<1>11. again \in BOOLEAN OBVIOUS
<1> HIDE DEF again
<1> QED BY <1>9, <1>10, <1>11

\* What Process_state_packet makes of an edge, by what the packet says of it.
Told(n, sender, pkt, e) ==
    LET known == All_Edges[n][e]
        id == neighbor_id[n][sender]
        newer == e \in DOMAIN pkt /\ known.stamp < pkt[e].stamp
        same == e \in DOMAIN pkt /\ known.stamp = pkt[e].stamp
    IN  /\ newer => e \in Changed_Edges'[n]
        /\ newer /\ e[1] = n =>
              (/\ All_Edges'[n][e] = [stamp |-> pkt[e].stamp + 1, cost |-> known.cost]
               /\ mask'[n][e] = {})
        /\ newer /\ e[1] # n => All_Edges'[n][e] = pkt[e] /\ mask'[n][e] = {id}
        /\ ~newer => /\ All_Edges'[n][e] = known
                     /\ e \in Changed_Edges'[n] <=> e \in Changed_Edges[n]
                     /\ mask'[n][e] = mask[n][e] \/ (same /\ mask'[n][e] = mask[n][e] \cup {id})

\* It does that with each edge, for one packet on the channel.
Hears(n, sender, pkt) ==
    /\ pkt \in Packet /\ pkt \in DOMAIN chan[sender][n]
    /\ DOMAIN chan'[sender][n] \subseteq DOMAIN chan[sender][n]
    /\ DOMAIN chan[sender][n] \ {pkt} \subseteq DOMAIN chan'[sender][n]
    /\ \A e \in Edges : Told(n, sender, pkt, e)

\* ProcessStatePacket keeps the types, and is that.
LEMMA ProcessHas ==
    ASSUME FloodTypes, IdsGiven, NEW n \in Daemons, NEW m \in Neighbors(n), ProcessStatePacket(n, m)
    PROVE  /\ FloodTypes'
           /\ m # n /\ m \in Daemons
           /\ \A a, b \in Daemons : a # m \/ b # n => chan'[a][b] = chan[a][b]
           /\ \A k \in Daemons : k # n => /\ All_Edges'[k] = All_Edges[k]
                                          /\ mask'[k] = mask[k]
                                          /\ Changed_Edges'[k] = Changed_Edges[k]
           /\ \E pkt \in Packet : Hears(n, m, pkt)
<1>1. m # n /\ m \in Daemons BY FloodConstants DEF Neighbors, Edge
<1> DEFINE known == All_Edges[n]
           Newer(p) == {e \in DOMAIN p : known[e].stamp < p[e].stamp}
           Mine(p) == {e \in Newer(p) : e[1] = n}
           Same(p) == {e \in DOMAIN p : known[e].stamp = p[e].stamp}
           id == neighbor_id[n][m]
           ToldBy(p) == [e \in Edges |->
              IF e \in Mine(p) THEN [stamp |-> p[e].stamp + 1, cost |-> known[e].cost]
              ELSE IF e \in Newer(p) THEN p[e] ELSE known[e]]
           MaskedBy(p) == [e \in Edges |->
              IF e \in Mine(p) THEN {}
              ELSE IF e \in Newer(p) THEN {id}
              ELSE IF e \in Same(p) \cap Changed_Edges[n] THEN mask[n][e] \cup {id} ELSE mask[n][e]]
<1>0. PICK pkt \in DOMAIN chan[m][n] :
         /\ chan' = [chan EXCEPT ![m][n] = BagRemove(chan[m][n], pkt)]
         /\ All_Edges' = [All_Edges EXCEPT ![n] = ToldBy(pkt)]
         /\ Changed_Edges' = [Changed_Edges EXCEPT ![n] = Changed_Edges[n] \cup Newer(pkt)]
         /\ mask' = [mask EXCEPT ![n] = MaskedBy(pkt)]
  BY <1>1 DEF ProcessStatePacket, FloodTypes
<1> DEFINE newer == Newer(pkt)
           mine == Mine(pkt)
           same == Same(pkt)
           told == ToldBy(pkt)
           masked == MaskedBy(pkt)
<1>2. /\ IsConnected(n, m)
      /\ chan' = [chan EXCEPT ![m][n] = BagRemove(chan[m][n], pkt)]
      /\ All_Edges' = [All_Edges EXCEPT ![n] = told]
      /\ Changed_Edges' = [Changed_Edges EXCEPT ![n] = Changed_Edges[n] \cup newer]
      /\ mask' = [mask EXCEPT ![n] = masked]
      /\ UNCHANGED <<neighbor_id, syncing, torn, boots, mishaps>>
  BY <1>0 DEF ProcessStatePacket
<1>3. chan[m][n] \in PacketBags BY <1>1 DEF FloodTypes
<1>4. /\ pkt \in Packet /\ BagRemove(chan[m][n], pkt) \in PacketBags
      /\ DOMAIN BagRemove(chan[m][n], pkt) \subseteq DOMAIN chan[m][n]
      /\ DOMAIN chan[m][n] \ {pkt} \subseteq DOMAIN BagRemove(chan[m][n], pkt)
  <2>1. pkt \in Packet BY <1>3 DEF PacketBags
  <2> QED BY <1>3, <2>1, BagRemoveHas
<1>5. DOMAIN pkt \subseteq Edges /\ \A e \in DOMAIN pkt : pkt[e] \in Cell
  BY <1>4 DEF Packet
<1>6. id \in Slots BY <1>1, <1>2 DEF IdsGiven, FloodTypes
<1>7. told \in [Edges -> Cell]
  <2> SUFFICES ASSUME NEW e \in Edges PROVE told[e] \in Cell
      OBVIOUS
  <2>1. known[e] \in Cell BY DEF FloodTypes
  <2>2. ASSUME e \in mine
        PROVE  [stamp |-> pkt[e].stamp + 1, cost |-> known[e].cost] \in Cell
    BY <1>5, <2>1, <2>2 DEF Cell
  <2> HIDE DEF known
  <2> QED BY <1>5, <2>1, <2>2
<1>8. masked \in [Edges -> SUBSET Slots] BY <1>6 DEF FloodTypes
<1>9. /\ All_Edges' \in [Daemons -> [Edges -> Cell]]
      /\ mask' \in [Daemons -> [Edges -> SUBSET Slots]]
      /\ All_Edges'[n] = told /\ mask'[n] = masked
  <2> HIDE DEF told, masked
  <2> QED BY <1>2, <1>7, <1>8 DEF FloodTypes
<1>10. /\ Changed_Edges' \in [Daemons -> SUBSET Edges]
       /\ Changed_Edges'[n] = Changed_Edges[n] \cup newer
  <2>1. newer \in SUBSET Edges BY <1>5
  <2> HIDE DEF newer
  <2> QED BY <1>2, <2>1 DEF FloodTypes
<1>11. /\ chan' \in [Daemons -> [Daemons -> PacketBags]]
       /\ chan'[m][n] = BagRemove(chan[m][n], pkt)
       /\ \A a, b \in Daemons : a # m \/ b # n => chan'[a][b] = chan[a][b]
  BY <1>1, <1>2, <1>4 DEF FloodTypes
<1>12. \A k \in Daemons : k # n => /\ All_Edges'[k] = All_Edges[k]
                                   /\ mask'[k] = mask[k]
                                   /\ Changed_Edges'[k] = Changed_Edges[k]
  <2> HIDE DEF told, masked, newer
  <2> QED BY <1>2 DEF FloodTypes
<1>13. ASSUME NEW e \in Edges PROVE Told(n, m, pkt, e)
  <2>1. e \in newer <=> e \in DOMAIN pkt /\ known[e].stamp < pkt[e].stamp OBVIOUS
  <2>2. e \in same <=> e \in DOMAIN pkt /\ known[e].stamp = pkt[e].stamp OBVIOUS
  <2>3. e \in mine <=> e \in newer /\ e[1] = n OBVIOUS
  <2>4. All_Edges'[n][e] = told[e] /\ mask'[n][e] = masked[e] BY <1>9
  <2>5. told[e] = IF e \in mine THEN [stamp |-> pkt[e].stamp + 1, cost |-> known[e].cost]
                  ELSE IF e \in newer THEN pkt[e] ELSE known[e]
    OBVIOUS
  <2>6. masked[e] = IF e \in mine THEN {}
              ELSE IF e \in newer THEN {id}
              ELSE IF e \in same \cap Changed_Edges[n] THEN mask[n][e] \cup {id} ELSE mask[n][e]
    OBVIOUS
  <2>7. e \in DOMAIN pkt => pkt[e].stamp \in Nat BY <1>5 DEF Cell
  <2>8. known[e].stamp \in Nat BY DEF FloodTypes, Cell
  <2>9. e \in same => e \notin newer BY <2>1, <2>2, <2>7, <2>8
  <2> HIDE DEF told, masked, newer, same, mine
  <2>10. e \in newer => e \in Changed_Edges'[n] BY <1>10
  <2>11. e \in newer /\ e[1] = n =>
            (/\ All_Edges'[n][e] = [stamp |-> pkt[e].stamp + 1, cost |-> known[e].cost]
             /\ mask'[n][e] = {})
    BY <2>3, <2>4, <2>5, <2>6
  <2>12. e \in newer /\ e[1] # n => All_Edges'[n][e] = pkt[e] /\ mask'[n][e] = {id}
    BY <2>3, <2>4, <2>5, <2>6
  <2>13. e \notin newer =>
            /\ All_Edges'[n][e] = known[e]
            /\ e \in Changed_Edges'[n] <=> e \in Changed_Edges[n]
            /\ mask'[n][e] = mask[n][e] \/ (e \in same /\ mask'[n][e] = mask[n][e] \cup {id})
    BY <1>10, <2>3, <2>4, <2>5, <2>6
  <2> HIDE DEF known, id
  <2>14. /\ e \in DOMAIN pkt /\ known[e].stamp < pkt[e].stamp <=> e \in newer
         /\ e \in DOMAIN pkt /\ known[e].stamp = pkt[e].stamp <=> e \in same
    BY <2>1, <2>2
  <2> USE DEF known, id
  <2> QED BY <2>10, <2>11, <2>12, <2>13, <2>14, Zenon DEF Told
<1>14. FloodTypes'
  BY <1>2, <1>9, <1>10, <1>11 DEF FloodTypes
<1>15. Hears(n, m, pkt) BY <1>4, <1>11, <1>13 DEF Hears
<1> QED BY <1>1, <1>4, <1>11, <1>12, <1>14, <1>15

\* Every step of the flooding keeps the types and the ids.
LEMMA FloodStepTypes == FloodTypes /\ IdsGiven /\ [FloodNext]_floodVars => FloodTypes'
<1> SUFFICES ASSUME FloodTypes, IdsGiven, [FloodNext]_floodVars PROVE FloodTypes'
    OBVIOUS
<1>1. CASE UNCHANGED floodVars BY <1>1 DEF floodVars, FloodTypes
<1>2. ASSUME NEW n \in Daemons, NEW m \in Neighbors(n),
             \/ Connect(n, m) \/ Disconnect(n, m) \/ ChangeCost(n, m)
             \/ SendStateAll(n, m) \/ ProcessStatePacket(n, m)
      PROVE  FloodTypes'
  BY <1>2, ConnectTypes, DisconnectTypes, ChangeCostTypes, SendStateAllTypes, ProcessHas
<1>3. ASSUME NEW n \in Daemons, Crash(n) \/ SendStateUpdates(n) PROVE FloodTypes'
  BY <1>3, CrashTypes, SendStateUpdatesHas
<1> QED BY <1>1, <1>2, <1>3 DEF FloodNext

\* After a crash nobody is connected to the daemon for what it knows, and the others are
\* as they were.
LEMMA CrashConnected ==
    ASSUME FloodTypes, NEW n \in Daemons, Crash(n)
    PROVE  \A a, b \in Daemons : IsConnected(a, b)' <=> a # n /\ IsConnected(a, b)
<1>1. PICK sec \in Seconds : All_Edges' = [All_Edges EXCEPT ![n] = Configured(n, sec)]
  BY DEF Crash
<1>2. /\ All_Edges'[n] = Configured(n, sec)
      /\ \A k \in Daemons : k # n => All_Edges'[k] = All_Edges[k]
  BY <1>1 DEF FloodTypes
<1>3. \A e \in Edges : Configured(n, sec)[e].cost = DISCONNECTED
  BY FloodConstants, ConfiguredHas
<1> QED BY <1>2, <1>3 DEF IsConnected, Neighbors

\* Nobody else sets the cost of an edge: a packet does not connect or disconnect.
LEMMA ProcessConnected ==
    ASSUME FloodTypes, IdsGiven, NEW n \in Daemons, NEW m \in Neighbors(n), ProcessStatePacket(n, m)
    PROVE  \A a, b \in Daemons : IsConnected(a, b)' <=> IsConnected(a, b)
<1>1. \A b \in Daemons : Edge(n, b) \in Edges =>
          All_Edges'[n][Edge(n, b)].cost = All_Edges[n][Edge(n, b)].cost
  <2> SUFFICES ASSUME NEW b \in Daemons, Edge(n, b) \in Edges
               PROVE  All_Edges'[n][Edge(n, b)].cost = All_Edges[n][Edge(n, b)].cost
      OBVIOUS
  <2>1. PICK pkt \in Packet : Told(n, m, pkt, Edge(n, b)) BY ProcessHas DEF Hears
  <2>2. Edge(n, b)[1] = n BY DEF Edge
  <2> QED BY <2>1, <2>2 DEF Told
<1>2. \A k \in Daemons : k # n => All_Edges'[k] = All_Edges[k] BY ProcessHas
<1> QED BY <1>1, <1>2 DEF IsConnected, Neighbors

\* The ids are given after each step.
LEMMA FloodStepIds == FloodTypes /\ IdsGiven /\ [FloodNext]_floodVars => IdsGiven'
<1> SUFFICES ASSUME FloodTypes, IdsGiven, [FloodNext]_floodVars PROVE IdsGiven'
    OBVIOUS
<1>0. \A n \in Daemons : Neighbors(n) \subseteq Daemons BY DEF Neighbors
<1>1. CASE UNCHANGED floodVars
  BY <1>1 DEF floodVars, IdsGiven, IsConnected, Neighbors
<1>2. ASSUME NEW n \in Daemons, NEW m \in Neighbors(n), Connect(n, m) PROVE IdsGiven'
  <2>1. SetCost(n, m, Min(Costs)) /\ Min(Costs) \in Costs /\ Min(Costs) # DISCONNECTED
    BY <1>2, LeastCost, FloodConstants DEF Connect
  <2>2. \A a, b \in Daemons :
            IsConnected(a, b)' <=> (a = n /\ b = m) \/ IsConnected(a, b)
    BY <2>1, SetCostConnected
  <2>3. PICK id \in Slots \ {neighbor_id[n][k] : k \in Daemons} :
            neighbor_id' = [neighbor_id EXCEPT ![n][m] = id]
    BY <1>2 DEF Connect
  <2>4. id # NONE /\ \A k \in Daemons : neighbor_id[n][k] # id BY <2>3, FloodConstants
  <2>5. \A a, b \in Daemons :
            neighbor_id'[a][b] = IF a = n /\ b = m THEN id ELSE neighbor_id[a][b]
    BY <1>0, <2>3 DEF FloodTypes
  <2> HIDE DEF IsConnected
  <2> QED BY <2>2, <2>4, <2>5 DEF IdsGiven
<1>3. ASSUME NEW n \in Daemons, NEW m \in Neighbors(n), Disconnect(n, m) PROVE IdsGiven'
  <2>1. SetCost(n, m, DISCONNECTED) BY <1>3 DEF Disconnect
  <2>2. \A a, b \in Daemons :
            IsConnected(a, b)' <=> ~(a = n /\ b = m) /\ IsConnected(a, b)
    BY <2>1, SetCostConnected
  <2>3. \A a, b \in Daemons :
            neighbor_id'[a][b] = IF a = n /\ b = m THEN NONE ELSE neighbor_id[a][b]
    BY <1>0, <1>3 DEF FloodTypes, Disconnect
  <2> QED BY <2>2, <2>3 DEF IdsGiven
<1>4. ASSUME NEW n \in Daemons, NEW m \in Neighbors(n), ChangeCost(n, m) PROVE IdsGiven'
  <2>1. PICK cost \in Costs : SetCost(n, m, cost) BY <1>4 DEF ChangeCost
  <2>2. cost # DISCONNECTED /\ IsConnected(n, m) /\ neighbor_id' = neighbor_id
    BY <1>4, FloodConstants DEF ChangeCost
  <2>3. \A a, b \in Daemons : IsConnected(a, b)' <=> IsConnected(a, b)
    BY <2>1, <2>2, SetCostConnected
  <2> QED BY <2>2, <2>3 DEF IdsGiven
<1>5. ASSUME NEW n \in Daemons, Crash(n) PROVE IdsGiven'
  <2>1. \A a, b \in Daemons : neighbor_id'[a][b] = IF a = n THEN NONE ELSE neighbor_id[a][b]
    BY <1>5 DEF Crash, FloodTypes
  <2> QED BY <1>5, <2>1, CrashConnected DEF IdsGiven
<1>6. ASSUME NEW n \in Daemons, NEW m \in Neighbors(n), ProcessStatePacket(n, m) PROVE IdsGiven'
  <2>1. neighbor_id' = neighbor_id BY <1>6 DEF ProcessStatePacket
  <2> QED BY <1>6, <2>1, ProcessConnected DEF IdsGiven
<1>7. ASSUME NEW n \in Daemons, NEW m \in Neighbors(n), SendStateAll(n, m) PROVE IdsGiven'
  BY <1>7 DEF SendStateAll, IdsGiven, IsConnected, Neighbors
<1>8. ASSUME NEW n \in Daemons, SendStateUpdates(n) PROVE IdsGiven'
  BY <1>8 DEF SendStateUpdates, IdsGiven, IsConnected, Neighbors
<1> QED BY <1>1, <1>2, <1>3, <1>4, <1>5, <1>6, <1>7, <1>8 DEF FloodNext

-----------------------------------------------------------------------------
(* What is on a channel *)

\* What is said stays true when the stamps of the daemon only grow.
LEMMA NotAheadKept ==
    ASSUME NEW packets \in PacketBags, NEW known \in [Edges -> Cell], NEW then \in [Edges -> Cell],
           NotAhead(packets, known), \A e \in Edges : known[e].stamp <= then[e].stamp
    PROVE  NotAhead(packets, then)
<1> SUFFICES ASSUME NEW p \in DOMAIN packets, NEW e \in DOMAIN p
             PROVE  p[e].stamp <= then[e].stamp
    BY DEF NotAhead
<1>1. p \in Packet BY DEF PacketBags
<1>2. e \in Edges /\ p[e].stamp \in Nat BY <1>1 DEF Packet, Cell
<1>3. known[e].stamp \in Nat /\ then[e].stamp \in Nat BY <1>2 DEF Cell
<1>4. p[e].stamp <= known[e].stamp BY DEF NotAhead
<1> QED BY <1>2, <1>3, <1>4

\* What a daemon sends is what it knows, and joins what it sent before.
LEMMA SentExtends ==
    ASSUME FloodTypes, NEW n \in Daemons, NEW m \in Daemons, NEW edges \in SUBSET Edges,
           edges # {}, {n, m} \notin torn
    PROVE  DOMAIN Sent(n, m, edges) = DOMAIN chan[n][m] \cup {[e \in edges |-> All_Edges[n][e]]}
<1>1. [e \in edges |-> All_Edges[n][e]] \in Packet BY DEF FloodTypes, Packet
<1>2. chan[n][m] \in PacketBags BY DEF FloodTypes
<1> QED BY <1>1, <1>2, BagAddHas DEF Sent

\* So that it is not ahead of it.
LEMMA NotAheadSent ==
    ASSUME FloodTypes, NEW n \in Daemons, NEW m \in Daemons, NEW edges \in SUBSET Edges,
           {n, m} \notin torn, NotAhead(chan[n][m], All_Edges[n])
    PROVE  NotAhead(Sent(n, m, edges), All_Edges[n])
<1>1. CASE edges = {} BY <1>1 DEF Sent
<1>2. CASE edges # {}
  <2>1. \A e \in edges : All_Edges[n][e].stamp <= All_Edges[n][e].stamp
    BY DEF FloodTypes, Cell
  <2> SUFFICES ASSUME NEW p \in DOMAIN Sent(n, m, edges), NEW e \in DOMAIN p
               PROVE  p[e].stamp <= All_Edges[n][e].stamp
      BY DEF NotAhead
  <2>2. p \in DOMAIN chan[n][m] \/ p = [d \in edges |-> All_Edges[n][d]]
    <3>1. DOMAIN Sent(n, m, edges) = DOMAIN chan[n][m] \cup {[d \in edges |-> All_Edges[n][d]]}
      BY <1>2, SentExtends, Zenon
    <3> QED BY <3>1
  <2>3. CASE p \in DOMAIN chan[n][m] BY <2>3 DEF NotAhead
  <2>4. CASE p = [d \in edges |-> All_Edges[n][d]] BY <2>1, <2>4
  <2> QED BY <2>2, <2>3, <2>4
<1> QED BY <1>1, <1>2

\* At first nothing is on a channel.
LEMMA FloodInitChan == FloodInit => ChanNotAhead
BY EmptyHas DEF FloodInit, ChanNotAhead, NotAhead

\* A cost is set: the channel of two daemons that is not torn is what it was, or empty.
LEMMA SetCostChan ==
    ASSUME FloodTypes, ChanNotAhead, NEW n \in Daemons, NEW m \in Neighbors(n),
           NEW cost \in Costs \cup {DISCONNECTED}, SetCost(n, m, cost),
           \A a, b \in Daemons : {a, b} \notin torn' =>
               (chan'[a][b] = EmptyBag \/ ({a, b} \notin torn /\ chan'[a][b] = chan[a][b]))
    PROVE  ChanNotAhead'
<1> SUFFICES ASSUME NEW a \in Daemons, NEW b \in Daemons, {a, b} \notin torn'
             PROVE  NotAhead(chan'[a][b], All_Edges'[a])
    BY DEF ChanNotAhead
<1>1. CASE chan'[a][b] = EmptyBag BY <1>1, EmptyHas DEF NotAhead
<1>2. CASE {a, b} \notin torn /\ chan'[a][b] = chan[a][b]
  <2>1. NotAhead(chan[a][b], All_Edges[a]) BY <1>2 DEF ChanNotAhead
  <2>2. All_Edges[a] \in [Edges -> Cell] /\ All_Edges'[a] \in [Edges -> Cell]
    BY SetCostHas DEF FloodTypes
  <2>3. \A e \in Edges : All_Edges[a][e].stamp <= All_Edges'[a][e].stamp
    <3> SUFFICES ASSUME NEW e \in Edges PROVE All_Edges[a][e].stamp <= All_Edges'[a][e].stamp
        OBVIOUS
    <3>1. All_Edges[a][e].stamp \in Nat BY <2>2 DEF Cell
    <3>2. All_Edges'[a][e] = All_Edges[a][e]
             \/ (a = n /\ e = Edge(n, m) /\ All_Edges'[a][e].stamp = All_Edges[a][e].stamp + 1)
      BY SetCostHas
    <3> QED BY <3>1, <3>2
  <2>4. chan[a][b] \in PacketBags BY DEF FloodTypes
  <2> QED BY <1>2, <2>1, <2>2, <2>3, <2>4, NotAheadKept
<1> QED BY <1>1, <1>2

\* The stamps that a daemon knows do not fall when it hears of others.
LEMMA ProcessStamps ==
    ASSUME FloodTypes, IdsGiven, NEW n \in Daemons, NEW m \in Neighbors(n), ProcessStatePacket(n, m)
    PROVE  \A k \in Daemons, e \in Edges : All_Edges[k][e].stamp <= All_Edges'[k][e].stamp
<1> SUFFICES ASSUME NEW k \in Daemons, NEW e \in Edges
             PROVE  All_Edges[k][e].stamp <= All_Edges'[k][e].stamp
    OBVIOUS
<1>1. All_Edges[k][e].stamp \in Nat BY DEF FloodTypes, Cell
<1>2. CASE k # n BY <1>1, <1>2, ProcessHas
<1>3. CASE k = n
  <2>1. PICK pkt \in Packet : Told(n, m, pkt, e) BY ProcessHas DEF Hears
  <2>2. e \in DOMAIN pkt => pkt[e].stamp \in Nat
    BY <2>1 DEF Packet, Cell
  <2> QED BY <1>1, <1>3, <2>1, <2>2 DEF Told
<1> QED BY <1>2, <1>3

\* No step puts anything newer on a channel.
LEMMA FloodStepChan ==
    FloodTypes /\ IdsGiven /\ ChanNotAhead /\ [FloodNext]_floodVars => ChanNotAhead'
<1> SUFFICES ASSUME FloodTypes, IdsGiven, ChanNotAhead, [FloodNext]_floodVars
             PROVE  ChanNotAhead'
    OBVIOUS
<1>0. \A n \in Daemons : Neighbors(n) \subseteq Daemons /\ n \notin Neighbors(n)
  BY FloodConstants DEF Neighbors, Edge
<1>1. CASE UNCHANGED floodVars BY <1>1 DEF floodVars, ChanNotAhead
<1>2. ASSUME NEW n \in Daemons, NEW m \in Neighbors(n), Connect(n, m) PROVE ChanNotAhead'
  BY <1>2, SetCostChan, LeastCost DEF Connect
<1>3. ASSUME NEW n \in Daemons, NEW m \in Neighbors(n), Disconnect(n, m) PROVE ChanNotAhead'
  <2>1. \A a, b \in Daemons : {a, b} \notin torn' =>
            (chan'[a][b] = EmptyBag \/ ({a, b} \notin torn /\ chan'[a][b] = chan[a][b]))
    <3> SUFFICES ASSUME NEW a \in Daemons, NEW b \in Daemons, {a, b} \notin torn'
                 PROVE  chan'[a][b] = EmptyBag \/ ({a, b} \notin torn /\ chan'[a][b] = chan[a][b])
        OBVIOUS
    <3>1. m \in Daemons /\ m # n /\ chan' = Severed(n, m) BY <1>0, <1>3 DEF Disconnect
    <3>2. torn' = IF IsConnected(m, n) THEN torn \cup {{n, m}} ELSE torn \ {{n, m}}
      BY <1>3 DEF Disconnect
    <3>3. CASE {a, b} # {n, m}
      <4>1. {a, b} \notin torn BY <3>2, <3>3
      <4>2. n # m BY <3>1
      <4>3. ~(a = n /\ b = m) /\ ~(a = m /\ b = n) BY <3>3
      <4>4. \A x, y \in Daemons : ~(x = n /\ y = m) /\ ~(x = m /\ y = n) =>
                Severed(n, m)[x][y] = chan[x][y]
        BY <3>1, <4>2, SeveredHas, Zenon
      <4>5. chan'[a][b] = chan[a][b] BY <3>1, <4>3, <4>4
      <4> QED BY <4>1, <4>5
    <3>4. CASE {a, b} = {n, m}
      <4>1. ~IsConnected(m, n) BY <3>2, <3>4
      <4>2. (a = n /\ b = m) \/ (a = m /\ b = n) BY <3>1, <3>4
      <4>3. Severed(n, m)[m][n] = EmptyBag /\ Severed(n, m)[n][m] = EmptyBag
        BY <3>1, <4>1, SeveredHas
      <4> QED BY <3>1, <4>2, <4>3
    <3> QED BY <3>3, <3>4
  <2> QED BY <1>3, <2>1, SetCostChan DEF Disconnect
<1>4. ASSUME NEW n \in Daemons, NEW m \in Neighbors(n), ChangeCost(n, m) PROVE ChanNotAhead'
  BY <1>4, SetCostChan DEF ChangeCost
<1>5. ASSUME NEW n \in Daemons, Crash(n) PROVE ChanNotAhead'
  <2> SUFFICES ASSUME NEW a \in Daemons, NEW b \in Daemons, {a, b} \notin torn'
               PROVE  NotAhead(chan'[a][b], All_Edges'[a])
      BY DEF ChanNotAhead
  <2>1. torn' = {p \in torn : n \notin p} \cup {{n, k} : k \in {j \in Daemons : IsConnected(j, n)}}
    BY <1>5 DEF Crash
  <2>2. chan'[a][b] = IF b = n \/ (a = n /\ ~IsConnected(b, n)) THEN EmptyBag ELSE chan[a][b]
    BY <1>5 DEF Crash
  <2>3. CASE b = n BY <2>2, <2>3, EmptyHas DEF NotAhead
  <2>4. CASE a = n
    <3>1. ~IsConnected(b, n) BY <2>1, <2>4
    <3> QED BY <2>2, <2>4, <3>1, EmptyHas DEF NotAhead
  <2>5. CASE a # n /\ b # n
    <3>1. {a, b} \notin torn BY <2>1, <2>5
    <3>2. All_Edges'[a] = All_Edges[a] BY <1>5, <2>5 DEF Crash, FloodTypes
    <3> QED BY <2>2, <2>5, <3>1, <3>2 DEF ChanNotAhead
  <2> QED BY <2>3, <2>4, <2>5
<1>6. ASSUME NEW n \in Daemons, NEW m \in Neighbors(n), ProcessStatePacket(n, m)
      PROVE  ChanNotAhead'
  <2> SUFFICES ASSUME NEW a \in Daemons, NEW b \in Daemons, {a, b} \notin torn'
               PROVE  NotAhead(chan'[a][b], All_Edges'[a])
      BY DEF ChanNotAhead
  <2>1. {a, b} \notin torn BY <1>6 DEF ProcessStatePacket
  <2>2. NotAhead(chan[a][b], All_Edges[a]) BY <2>1 DEF ChanNotAhead
  <2>3. chan[a][b] \in PacketBags /\ chan'[a][b] \in PacketBags
    BY <1>6, ProcessHas DEF FloodTypes
  <2>4. NotAhead(chan'[a][b], All_Edges[a])
    <3>1. CASE a = m /\ b = n
      <4>1. DOMAIN chan'[a][b] \subseteq DOMAIN chan[a][b] BY <1>6, <3>1, ProcessHas DEF Hears
      <4> QED BY <2>2, <4>1 DEF NotAhead
    <3>2. CASE ~(a = m /\ b = n) BY <1>6, <2>2, <3>2, ProcessHas
    <3> QED BY <3>1, <3>2
  <2>5. All_Edges[a] \in [Edges -> Cell] /\ All_Edges'[a] \in [Edges -> Cell]
    BY <1>6, ProcessHas DEF FloodTypes
  <2>6. \A e \in Edges : All_Edges[a][e].stamp <= All_Edges'[a][e].stamp
    BY <1>6, ProcessStamps
  <2> QED BY <2>3, <2>4, <2>5, <2>6, NotAheadKept
<1>7. ASSUME NEW n \in Daemons, NEW m \in Neighbors(n), SendStateAll(n, m) PROVE ChanNotAhead'
  <2>1. \A a, b \in Daemons : chan'[a][b] = IF a = n /\ b = m THEN Sent(n, m, Edges) ELSE chan[a][b]
    BY <1>0, <1>7 DEF SendStateAll, FloodTypes
  <2>2. UNCHANGED <<All_Edges, torn>> BY <1>7 DEF SendStateAll
  <2> QED BY <1>0, <2>1, <2>2, NotAheadSent DEF ChanNotAhead
<1>8. ASSUME NEW n \in Daemons, SendStateUpdates(n) PROVE ChanNotAhead'
  <2>0. PICK sends : \E again \in BOOLEAN : Pass(n, sends, again) BY <1>8, SendStateUpdatesHas
  <2>1. PICK again \in BOOLEAN : Pass(n, sends, again) BY <2>0
  <2>2. \A m \in Daemons : IsConnected(n, m) => sends[m] \in SUBSET Edges
    BY <2>1 DEF Pass, Needed, FloodTypes
  <2>3. UNCHANGED <<All_Edges, torn>> BY <1>8 DEF SendStateUpdates
  <2>4. ASSUME NEW m \in Daemons, {n, m} \notin torn PROVE NotAhead(chan'[n][m], All_Edges[n])
    BY <2>1, <2>2, <2>4, NotAheadSent DEF Pass, ChanNotAhead
  <2>5. \A k \in Daemons : k # n => chan'[k] = chan[k] BY <2>1 DEF Pass
  <2> QED BY <2>3, <2>4, <2>5 DEF ChanNotAhead
<1> QED BY <1>1, <1>2, <1>3, <1>4, <1>5, <1>6, <1>7, <1>8 DEF FloodNext

-----------------------------------------------------------------------------
(* NewsIsOnItsWay *)

\* TellsOf says the same of a daemon whose state, as far as it matters here, did not change.
LEMMA TellsKept ==
    ASSUME NEW a \in Daemons, NEW b \in Daemons, NEW e \in Edges, TellsOf(a, b, e),
           b \in syncing[a] => b \in syncing'[a],
           e \in Changed_Edges[a] => e \in Changed_Edges'[a],
           mask'[a][e] = mask[a][e], neighbor_id'[a][b] = neighbor_id[a][b],
           chan'[a][b] = chan[a][b], All_Edges'[a][e].stamp = All_Edges[a][e].stamp
    PROVE  TellsOf(a, b, e)'
<1>1. CASE b \in syncing[a] BY <1>1 DEF TellsOf
<1>2. CASE e \in Needed(a, b) BY <1>2 DEF TellsOf, Needed
<1>3. CASE \E p \in DOMAIN chan[a][b] :
               e \in DOMAIN p /\ p[e].stamp = All_Edges[a][e].stamp
  BY <1>3 DEF TellsOf
<1> QED BY <1>1, <1>2, <1>3 DEF TellsOf

\* Two neighbors know the same at first, when they are connected.
LEMMA FloodInitNews == FloodInit => NewsIsOnItsWay
<1> SUFFICES ASSUME FloodInit, NEW n \in Daemons, NEW m \in Daemons, IsConnected(n, m),
                    NEW e \in Edges, All_Edges[n][e].stamp > All_Edges[m][e].stamp
             PROVE  FALSE
    BY DEF NewsIsOnItsWay
<1>1. Edge(n, m) \in Up BY FirstConnected
<1>2. All_Edges[n] = All_Edges[m] BY <1>1, SettledHas DEF FloodInit
<1>3. All_Edges[n][e].stamp \in Nat BY SettledHas DEF FloodInit, Cell
<1> QED BY <1>2, <1>3

\* After a cost was set a daemon tells all of its neighbors of the edge, and of others what
\* it told before.
LEMMA SetCostNews ==
    ASSUME FloodTypes, NewsIsOnItsWay, NEW n \in Daemons, NEW m \in Neighbors(n),
           NEW cost \in Costs \cup {DISCONNECTED}, SetCost(n, m, cost),
           NEW a \in Daemons, NEW b \in Daemons, a # b, IsConnected(a, b), {a, b} \notin torn,
           b \in syncing[a] => b \in syncing'[a],
           neighbor_id'[a][b] = neighbor_id[a][b], chan'[a][b] = chan[a][b],
           NEW e \in Edges, All_Edges'[a][e].stamp > All_Edges'[b][e].stamp
    PROVE  TellsOf(a, b, e)'
<1>1. CASE a = n /\ e = Edge(n, m)
  <2>1. e \in Changed_Edges'[a] /\ mask'[a][e] = {} BY <1>1, SetCostHas
  <2> QED BY <2>1 DEF TellsOf, Needed
<1>2. CASE ~(a = n /\ e = Edge(n, m))
  <2>1. /\ All_Edges'[a][e] = All_Edges[a][e] /\ mask'[a][e] = mask[a][e]
        /\ e \in Changed_Edges[a] => e \in Changed_Edges'[a]
    BY <1>2, SetCostHas
  <2>2. All_Edges[b][e].stamp <= All_Edges'[b][e].stamp
    <3>1. All_Edges[b][e].stamp \in Nat BY DEF FloodTypes, Cell
    <3>2. CASE b = n /\ e = Edge(n, m)
      BY <3>1, <3>2, SetCostHas
    <3>3. CASE ~(b = n /\ e = Edge(n, m))
      <4>1. All_Edges'[b][e] = All_Edges[b][e] BY <3>3, SetCostHas
      <4> QED BY <3>1, <4>1
    <3> QED BY <3>2, <3>3
  <2>3. /\ All_Edges[a][e].stamp \in Nat /\ All_Edges[b][e].stamp \in Nat
        /\ All_Edges'[b][e].stamp \in Nat
    <3>1. All_Edges' \in [Daemons -> [Edges -> Cell]] BY SetCostHas
    <3> QED BY <3>1 DEF FloodTypes, Cell
  <2>4. All_Edges[a][e].stamp > All_Edges[b][e].stamp BY <2>1, <2>2, <2>3
  <2>5. TellsOf(a, b, e) BY <2>4 DEF NewsIsOnItsWay
  <2> QED BY <2>1, <2>5, TellsKept
<1> QED BY <1>1, <1>2

\* Connect: the new neighbor is sent everything.
LEMMA ConnectNews ==
    ASSUME FloodTypes, NewsIsOnItsWay, NEW n \in Daemons, NEW m \in Neighbors(n), Connect(n, m)
    PROVE  NewsIsOnItsWay'
<1> SUFFICES ASSUME NEW a \in Daemons, NEW b \in Daemons, IsConnected(a, b)', {a, b} \notin torn',
                    NEW e \in Edges, All_Edges'[a][e].stamp > All_Edges'[b][e].stamp
             PROVE  TellsOf(a, b, e)'
    BY DEF NewsIsOnItsWay
<1>1. SetCost(n, m, Min(Costs)) /\ Min(Costs) \in Costs \cup {DISCONNECTED} /\ m \in Daemons
  BY LeastCost DEF Connect, Neighbors
<1>2. UNCHANGED <<chan, torn>> /\ syncing' = [syncing EXCEPT ![n] = syncing[n] \cup {m}]
  BY DEF Connect, FloodTypes
<1>3. a # b BY FloodConstants DEF IsConnected, Neighbors, Edge
<1>4. CASE a = n /\ b = m
  BY <1>2, <1>4 DEF TellsOf, FloodTypes
<1>5. CASE ~(a = n /\ b = m)
  <2>1. IsConnected(a, b) BY <1>1, <1>5, SetCostConnected
  <2>2. neighbor_id'[a][b] = neighbor_id[a][b] BY <1>1, <1>5 DEF Connect, FloodTypes
  <2>3. b \in syncing[a] => b \in syncing'[a] BY <1>2 DEF FloodTypes
  <2> QED BY <1>1, <1>2, <1>3, <2>1, <2>2, <2>3, SetCostNews
<1> QED BY <1>4, <1>5

\* Disconnect: what was on the channel is lost, but then the pair is torn until the other
\* end is disconnected.
LEMMA DisconnectNews ==
    ASSUME FloodTypes, NewsIsOnItsWay, NEW n \in Daemons, NEW m \in Neighbors(n), Disconnect(n, m)
    PROVE  NewsIsOnItsWay'
<1> SUFFICES ASSUME NEW a \in Daemons, NEW b \in Daemons, IsConnected(a, b)', {a, b} \notin torn',
                    NEW e \in Edges, All_Edges'[a][e].stamp > All_Edges'[b][e].stamp
             PROVE  TellsOf(a, b, e)'
    BY DEF NewsIsOnItsWay
<1>1. SetCost(n, m, DISCONNECTED) /\ m \in Daemons /\ n # m
  BY FloodConstants DEF Disconnect, Neighbors, Edge
<1>2. /\ torn' = IF IsConnected(m, n) THEN torn \cup {{n, m}} ELSE torn \ {{n, m}}
      /\ syncing' = [syncing EXCEPT ![n] = syncing[n] \ {m}]
      /\ chan' = Severed(n, m)
  BY DEF Disconnect, FloodTypes
<1>3. a # b BY FloodConstants DEF IsConnected, Neighbors, Edge
<1>4. ~(a = n /\ b = m) BY <1>1, SetCostConnected
<1>5. IsConnected(a, b) BY <1>1, <1>4, SetCostConnected
<1>6. ~(a = m /\ b = n)
  <2> SUFFICES ASSUME a = m /\ b = n PROVE FALSE
      OBVIOUS
  <2>1. {a, b} = {n, m} OBVIOUS
  <2> QED BY <1>2, <1>5, <2>1
<1>7. {a, b} \notin torn
  <2>1. {a, b} # {n, m} BY <1>4, <1>6
  <2> QED BY <1>2, <2>1
<1>8. chan'[a][b] = chan[a][b]
  <2>1. \A x, y \in Daemons : ~(x = n /\ y = m) /\ ~(x = m /\ y = n) =>
            Severed(n, m)[x][y] = chan[x][y]
    BY <1>1, SeveredHas, Zenon
  <2> QED BY <1>2, <1>4, <1>6, <2>1
<1>9. neighbor_id'[a][b] = neighbor_id[a][b] BY <1>1, <1>4 DEF Disconnect, FloodTypes
<1>10. b \in syncing[a] => b \in syncing'[a] BY <1>2, <1>4 DEF FloodTypes
<1> QED BY <1>1, <1>3, <1>5, <1>7, <1>8, <1>9, <1>10, SetCostNews

\* ChangeCost
LEMMA ChangeCostNews ==
    ASSUME FloodTypes, NewsIsOnItsWay, NEW n \in Daemons, NEW m \in Neighbors(n), ChangeCost(n, m)
    PROVE  NewsIsOnItsWay'
<1> SUFFICES ASSUME NEW a \in Daemons, NEW b \in Daemons, IsConnected(a, b)', {a, b} \notin torn',
                    NEW e \in Edges, All_Edges'[a][e].stamp > All_Edges'[b][e].stamp
             PROVE  TellsOf(a, b, e)'
    BY DEF NewsIsOnItsWay
<1>1. PICK cost \in Costs : SetCost(n, m, cost) BY DEF ChangeCost
<1>2. UNCHANGED <<neighbor_id, syncing, chan, torn>> /\ IsConnected(n, m) BY DEF ChangeCost
<1>3. a # b BY FloodConstants DEF IsConnected, Neighbors, Edge
<1>4. IsConnected(a, b) BY <1>1, <1>2, SetCostConnected
<1> QED BY <1>1, <1>2, <1>3, <1>4, SetCostNews

\* Crash: who was connected to the daemon has a dead control link.
LEMMA CrashNews ==
    ASSUME FloodTypes, NewsIsOnItsWay, NEW n \in Daemons, Crash(n)
    PROVE  NewsIsOnItsWay'
<1> SUFFICES ASSUME NEW a \in Daemons, NEW b \in Daemons, IsConnected(a, b)', {a, b} \notin torn',
                    NEW e \in Edges, All_Edges'[a][e].stamp > All_Edges'[b][e].stamp
             PROVE  TellsOf(a, b, e)'
    BY DEF NewsIsOnItsWay
<1>1. a # n /\ IsConnected(a, b) BY CrashConnected
<1>2. torn' = {p \in torn : n \notin p} \cup {{n, k} : k \in {j \in Daemons : IsConnected(j, n)}}
  BY DEF Crash
<1>3. b # n
  <2> SUFFICES ASSUME b = n PROVE FALSE
      OBVIOUS
  <2>1. {a, b} = {n, a} OBVIOUS
  <2> QED BY <1>1, <1>2, <2>1
<1>4. {a, b} \notin torn BY <1>1, <1>2, <1>3
<1>5. /\ All_Edges'[a] = All_Edges[a] /\ All_Edges'[b] = All_Edges[b]
      /\ Changed_Edges'[a] = Changed_Edges[a] /\ mask'[a] = mask[a]
      /\ neighbor_id'[a] = neighbor_id[a] /\ syncing'[a] = syncing[a]
  BY <1>1, <1>3 DEF Crash, FloodTypes
<1>6. chan'[a][b] = chan[a][b] BY <1>1, <1>3 DEF Crash
<1>7. TellsOf(a, b, e) BY <1>1, <1>4, <1>5 DEF NewsIsOnItsWay
<1> QED BY <1>5, <1>6, <1>7, TellsKept

\* What is on a channel stays when more is sent, and what is sent is told.
LEMMA SentTells ==
    ASSUME FloodTypes, NEW n \in Daemons, NEW m \in Daemons, NEW edges \in SUBSET Edges,
           {n, m} \notin torn, NEW e \in Edges, chan'[n][m] = Sent(n, m, edges),
           UNCHANGED All_Edges,
           \/ e \in edges
           \/ \E p \in DOMAIN chan[n][m] :
                 e \in DOMAIN p /\ p[e].stamp = All_Edges[n][e].stamp
    PROVE  TellsOf(n, m, e)'
<1>1. CASE edges = {}
  <2>1. chan'[n][m] = chan[n][m] BY <1>1 DEF Sent
  <2> QED BY <1>1, <2>1 DEF TellsOf
<1>2. CASE edges # {}
  <2>1. DOMAIN chan'[n][m] = DOMAIN chan[n][m] \cup {[d \in edges |-> All_Edges[n][d]]}
    <3>1. DOMAIN Sent(n, m, edges) = DOMAIN chan[n][m] \cup {[d \in edges |-> All_Edges[n][d]]}
      BY <1>2, SentExtends, Zenon
    <3> QED BY <3>1
  <2>2. \E p \in DOMAIN chan'[n][m] : e \in DOMAIN p /\ p[e].stamp = All_Edges[n][e].stamp
    <3>1. CASE e \in edges BY <2>1, <3>1
    <3>2. CASE \E p \in DOMAIN chan[n][m] :
                 e \in DOMAIN p /\ p[e].stamp = All_Edges[n][e].stamp
      BY <2>1, <3>2
    <3> QED BY <3>1, <3>2
  <2> QED BY <2>2 DEF TellsOf
<1> QED BY <1>1, <1>2

\* SendStateAll
LEMMA SendStateAllNews ==
    ASSUME FloodTypes, NewsIsOnItsWay, NEW n \in Daemons, NEW m \in Neighbors(n), SendStateAll(n, m)
    PROVE  NewsIsOnItsWay'
<1> SUFFICES ASSUME NEW a \in Daemons, NEW b \in Daemons, IsConnected(a, b)', {a, b} \notin torn',
                    NEW e \in Edges, All_Edges'[a][e].stamp > All_Edges'[b][e].stamp
             PROVE  TellsOf(a, b, e)'
    BY DEF NewsIsOnItsWay
<1>1. m \in Daemons BY DEF Neighbors
<1>2. /\ UNCHANGED <<All_Edges, Changed_Edges, mask, neighbor_id, torn, boots, mishaps>>
      /\ syncing' = [syncing EXCEPT ![n] = syncing[n] \ {m}]
      /\ chan' = [chan EXCEPT ![n][m] = Sent(n, m, Edges)]
  BY DEF SendStateAll, FloodTypes
<1>3. IsConnected(a, b) BY <1>2 DEF IsConnected, Neighbors
<1>4. CASE a = n /\ b = m
  <2>1. chan'[n][m] = Sent(n, m, Edges) BY <1>1, <1>2 DEF FloodTypes
  <2>2. {n, m} \notin torn /\ Edges \in SUBSET Edges BY <1>2, <1>4
  <2>3. All_Edges' = All_Edges BY <1>2
  <2> QED BY <1>1, <1>4, <2>1, <2>2, <2>3, SentTells
<1>5. CASE ~(a = n /\ b = m)
  <2>1. chan'[a][b] = chan[a][b] BY <1>1, <1>2, <1>5 DEF FloodTypes
  <2>2. b \in syncing[a] => b \in syncing'[a] BY <1>2, <1>5 DEF FloodTypes
  <2>3. TellsOf(a, b, e) BY <1>2, <1>3 DEF NewsIsOnItsWay
  <2> QED BY <1>2, <2>1, <2>2, <2>3, TellsKept
<1> QED BY <1>4, <1>5

\* SendStateUpdates: what is not sent to a neighbor in this pass is sent in a later one,
\* for the ids of neighbors tell them apart.
LEMMA SendStateUpdatesNews ==
    ASSUME FloodTypes, IdsGiven, NewsIsOnItsWay, NEW n \in Daemons, SendStateUpdates(n)
    PROVE  NewsIsOnItsWay'
<1> SUFFICES ASSUME NEW a \in Daemons, NEW b \in Daemons, IsConnected(a, b)', {a, b} \notin torn',
                    NEW e \in Edges, All_Edges'[a][e].stamp > All_Edges'[b][e].stamp
             PROVE  TellsOf(a, b, e)'
    BY DEF NewsIsOnItsWay
<1>1. UNCHANGED <<All_Edges, neighbor_id, syncing, torn>> BY DEF SendStateUpdates
<1>2. IsConnected(a, b) BY <1>1 DEF IsConnected, Neighbors
<1>3. TellsOf(a, b, e) BY <1>1, <1>2 DEF NewsIsOnItsWay
<1>4. PICK sends : \E again \in BOOLEAN : Pass(n, sends, again) BY SendStateUpdatesHas
<1>5. PICK again \in BOOLEAN : Pass(n, sends, again) BY <1>4
<1>6. CASE a # n
  <2>1. chan'[a] = chan[a] /\ mask'[a] = mask[a] /\ Changed_Edges'[a] = Changed_Edges[a]
    BY <1>5, <1>6 DEF Pass
  <2> QED BY <1>1, <1>3, <2>1, TellsKept
<1>7. CASE a = n
  <2>1. sends[b] \subseteq Needed(n, b) /\ chan'[n][b] = Sent(n, b, sends[b])
    BY <1>2, <1>5, <1>7 DEF Pass
  <2>2. sends[b] \in SUBSET Edges BY <2>1 DEF Needed, FloodTypes
  <2>3. CASE b \in syncing[n] BY <1>1, <1>7, <2>3 DEF TellsOf
  <2>4. CASE \/ e \in sends[b]
             \/ \E p \in DOMAIN chan[n][b] :
                   e \in DOMAIN p /\ p[e].stamp = All_Edges[n][e].stamp
    <3>1. {n, b} \notin torn BY <1>1, <1>7
    <3>2. All_Edges' = All_Edges BY <1>1
    <3> QED BY <1>7, <2>1, <2>2, <2>4, <3>1, <3>2, SentTells
  <2>5. CASE e \in Needed(n, b) /\ e \notin sends[b]
    <3>1. again BY <1>2, <1>5, <1>7, <2>5 DEF Pass
    <3>2. /\ Changed_Edges'[n] = Changed_Edges[n]
          /\ mask'[n][e] = mask[n][e] \cup
                {neighbor_id[n][k] : k \in {j \in Daemons : IsConnected(n, j) /\ e \in sends[j]}}
      BY <1>5, <3>1 DEF Pass
    <3>3. \A k \in Daemons : k # b => neighbor_id[n][k] # neighbor_id[n][b]
      BY <1>2, <1>7 DEF IdsGiven
    <3>4. \A k \in {j \in Daemons : IsConnected(n, j) /\ e \in sends[j]} :
              neighbor_id[n][k] # neighbor_id[n][b]
      BY <2>5, <3>3
    <3>5. neighbor_id[n][b] \notin mask[n][e] /\ e \in Changed_Edges[n] BY <2>5 DEF Needed
    <3>6. neighbor_id'[n][b] \notin mask'[n][e] BY <1>1, <3>2, <3>4, <3>5
    <3> QED BY <1>7, <3>2, <3>5, <3>6 DEF TellsOf, Needed
  <2> QED BY <1>3, <1>7, <2>3, <2>4, <2>5 DEF TellsOf
<1> QED BY <1>6, <1>7

\* ProcessStatePacket: what a daemon hears from a neighbor it need not tell it, and the
\* others it tells.
LEMMA ProcessNews ==
    ASSUME FloodTypes, IdsGiven, ChanNotAhead, NewsIsOnItsWay,
           NEW n \in Daemons, NEW m \in Neighbors(n), ProcessStatePacket(n, m)
    PROVE  NewsIsOnItsWay'
<1> SUFFICES ASSUME NEW a \in Daemons, NEW b \in Daemons, IsConnected(a, b)', {a, b} \notin torn',
                    NEW e \in Edges, All_Edges'[a][e].stamp > All_Edges'[b][e].stamp
             PROVE  TellsOf(a, b, e)'
    BY DEF NewsIsOnItsWay
<1>0. PICK pkt \in Packet : Hears(n, m, pkt) BY ProcessHas
<1>1. /\ m # n /\ m \in Daemons /\ pkt \in Packet /\ pkt \in DOMAIN chan[m][n]
      /\ DOMAIN chan[m][n] \ {pkt} \subseteq DOMAIN chan'[m][n]
      /\ \A x, y \in Daemons : x # m \/ y # n => chan'[x][y] = chan[x][y]
      /\ \A k \in Daemons : k # n => /\ All_Edges'[k] = All_Edges[k]
                                     /\ mask'[k] = mask[k]
                                     /\ Changed_Edges'[k] = Changed_Edges[k]
      /\ Told(n, m, pkt, e)
  BY <1>0, ProcessHas DEF Hears
<1>2. UNCHANGED <<neighbor_id, syncing, torn>> BY DEF ProcessStatePacket
<1>3. IsConnected(a, b) /\ {a, b} \notin torn BY <1>2, ProcessConnected
<1>4. a # b BY <1>3, FloodConstants DEF IsConnected, Neighbors, Edge
<1>5. /\ All_Edges[a][e].stamp \in Nat /\ All_Edges[b][e].stamp \in Nat
      /\ All_Edges'[a][e].stamp \in Nat /\ All_Edges'[b][e].stamp \in Nat
  <2>1. FloodTypes' BY ProcessHas
  <2> QED BY <2>1 DEF FloodTypes, Cell
<1>6. All_Edges[b][e].stamp <= All_Edges'[b][e].stamp BY ProcessStamps
<1>7. e \in DOMAIN pkt => pkt[e].stamp \in Nat BY <1>1 DEF Packet, Cell
<1>8. {m, n} \notin torn => (e \in DOMAIN pkt => pkt[e].stamp <= All_Edges[m][e].stamp)
  BY <1>1 DEF ChanNotAhead, NotAhead
<1>9. CASE a # n
  <2>1. All_Edges[a][e].stamp > All_Edges[b][e].stamp BY <1>1, <1>5, <1>6, <1>9
  <2>2. TellsOf(a, b, e) BY <1>3, <2>1 DEF NewsIsOnItsWay
  <2>3. CASE ~(a = m /\ b = n)
    <3>1. chan'[a][b] = chan[a][b] BY <1>1, <2>3
    <3> QED BY <1>1, <1>2, <1>9, <2>2, <3>1, TellsKept
  <2>4. CASE a = m /\ b = n
    <3>1. CASE b \in syncing[a] BY <1>2, <3>1 DEF TellsOf
    <3>2. CASE e \in Needed(a, b) BY <1>1, <1>2, <1>9, <3>2 DEF TellsOf, Needed
    <3>3. CASE \E p \in DOMAIN chan[a][b] :
                  e \in DOMAIN p /\ p[e].stamp = All_Edges[a][e].stamp
      <4>1. PICK p \in DOMAIN chan[m][n] :
                  e \in DOMAIN p /\ p[e].stamp = All_Edges[m][e].stamp
        BY <2>4, <3>3
      <4>3. p # pkt
        <5> SUFFICES ASSUME p = pkt PROVE FALSE
            OBVIOUS
        <5>2. e \in DOMAIN pkt /\ pkt[e].stamp = All_Edges[m][e].stamp BY <4>1
        <5>3. All_Edges[n][e].stamp < pkt[e].stamp BY <2>1, <2>4, <5>2
        <5>4. All_Edges'[n][e].stamp \in {pkt[e].stamp, pkt[e].stamp + 1}
          BY <1>1, <5>2, <5>3 DEF Told
        <5>5. All_Edges'[m][e] = All_Edges[m][e] BY <1>1
        <5> QED BY <1>5, <1>7, <2>4, <5>2, <5>4, <5>5
      <4>5. \E q \in DOMAIN chan'[m][n] : e \in DOMAIN q /\ q[e].stamp = All_Edges'[m][e].stamp
        <5>1. All_Edges'[m][e] = All_Edges[m][e] /\ p \in DOMAIN chan'[m][n] BY <1>1, <4>3
        <5> QED BY <4>1, <5>1
      <4> QED BY <2>4, <4>5 DEF TellsOf
    <3> QED BY <2>2, <3>1, <3>2, <3>3 DEF TellsOf
  <2> QED BY <2>3, <2>4
<1>10. CASE a = n
  <2>1. All_Edges'[b] = All_Edges[b] BY <1>1, <1>4, <1>10
  <2>2. chan'[a][b] = chan[a][b] BY <1>1, <1>10
  <2>3. b # m => neighbor_id[n][b] # neighbor_id[n][m]
    BY <1>1, <1>3, <1>10 DEF IdsGiven
  <2>4. CASE e \in DOMAIN pkt /\ All_Edges[n][e].stamp < pkt[e].stamp
    <3>1. e \in Changed_Edges'[n] BY <1>1, <2>4 DEF Told
    <3>2. CASE e[1] = n
      <4>1. mask'[n][e] = {} BY <1>1, <2>4, <3>2 DEF Told
      <4> QED BY <1>10, <3>1, <4>1 DEF TellsOf, Needed
    <3>3. CASE e[1] # n
      <4>1. mask'[n][e] = {neighbor_id[n][m]} /\ All_Edges'[n][e] = pkt[e]
        BY <1>1, <2>4, <3>3 DEF Told
      <4>2. b # m
        <5> SUFFICES ASSUME b = m PROVE FALSE
            OBVIOUS
        <5>1. {m, n} \notin torn
          <6>1. {m, n} = {a, b} BY <1>10
          <6> QED BY <1>3, <6>1
        <5>2. pkt[e].stamp <= All_Edges[m][e].stamp BY <1>8, <2>4, <5>1
        <5> QED BY <1>5, <1>7, <1>10, <2>1, <2>4, <4>1, <5>2
      <4>3. neighbor_id'[n][b] \notin mask'[n][e] BY <1>2, <2>3, <4>1, <4>2
      <4> QED BY <1>10, <3>1, <4>3 DEF TellsOf, Needed
    <3> QED BY <3>2, <3>3
  <2>5. CASE ~(e \in DOMAIN pkt /\ All_Edges[n][e].stamp < pkt[e].stamp)
    <3>1. /\ All_Edges'[n][e] = All_Edges[n][e]
          /\ e \in Changed_Edges'[n] <=> e \in Changed_Edges[n]
          /\ \/ mask'[n][e] = mask[n][e]
             \/ /\ e \in DOMAIN pkt /\ All_Edges[n][e].stamp = pkt[e].stamp
                /\ mask'[n][e] = mask[n][e] \cup {neighbor_id[n][m]}
      BY <1>1, <2>5 DEF Told
    <3>2. TellsOf(a, b, e) BY <1>3, <1>10, <2>1, <3>1 DEF NewsIsOnItsWay
    <3>3. CASE mask'[n][e] = mask[n][e]
      BY <1>2, <1>10, <2>2, <3>1, <3>2, <3>3, TellsKept
    <3>4. CASE /\ e \in DOMAIN pkt /\ All_Edges[n][e].stamp = pkt[e].stamp
               /\ mask'[n][e] = mask[n][e] \cup {neighbor_id[n][m]}
      <4>1. b # m
        <5> SUFFICES ASSUME b = m PROVE FALSE
            OBVIOUS
        <5>1. {m, n} \notin torn
          <6>1. {m, n} = {a, b} BY <1>10
          <6> QED BY <1>3, <6>1
        <5>2. pkt[e].stamp <= All_Edges[m][e].stamp BY <1>8, <3>4, <5>1
        <5> QED BY <1>5, <1>10, <2>1, <3>1, <3>4, <5>2
      <4>2. CASE b \in syncing[a] BY <1>2, <4>2 DEF TellsOf
      <4>3. CASE e \in Needed(a, b)
        <5>1. neighbor_id'[n][b] \notin mask'[n][e]
          BY <1>2, <1>10, <2>3, <3>4, <4>1, <4>3 DEF Needed
        <5> QED BY <1>10, <3>1, <4>3, <5>1 DEF TellsOf, Needed
      <4>4. CASE \E p \in DOMAIN chan[a][b] :
                  e \in DOMAIN p /\ p[e].stamp = All_Edges[a][e].stamp
        BY <1>10, <2>2, <3>1, <4>4 DEF TellsOf
      <4> QED BY <3>2, <4>2, <4>3, <4>4 DEF TellsOf
    <3> QED BY <3>1, <3>3, <3>4
  <2> QED BY <2>4, <2>5
<1> QED BY <1>9, <1>10

\* What is inductive, and what NewsIsOnItsWay follows from.
FloodInv == FloodTypes /\ IdsGiven /\ ChanNotAhead /\ NewsIsOnItsWay

\* A step keeps it.
LEMMA FloodStep == FloodInv /\ [FloodNext]_floodVars => FloodInv'
<1> SUFFICES ASSUME FloodTypes, IdsGiven, ChanNotAhead, NewsIsOnItsWay, [FloodNext]_floodVars
             PROVE  FloodInv'
    BY DEF FloodInv
<1>1. FloodTypes' /\ IdsGiven' /\ ChanNotAhead'
  BY FloodStepTypes, FloodStepIds, FloodStepChan
<1>2. NewsIsOnItsWay'
  <2>1. CASE UNCHANGED floodVars
    <3>1. UNCHANGED <<All_Edges, Changed_Edges, mask, neighbor_id, syncing, chan, torn>>
      BY <2>1 DEF floodVars
    <3> QED BY <3>1 DEF NewsIsOnItsWay, IsConnected, Neighbors, TellsOf, Needed
  <2>2. ASSUME NEW n \in Daemons, NEW m \in Neighbors(n),
               \/ Connect(n, m) \/ Disconnect(n, m) \/ ChangeCost(n, m)
               \/ SendStateAll(n, m) \/ ProcessStatePacket(n, m)
        PROVE  NewsIsOnItsWay'
    BY <2>2, ConnectNews, DisconnectNews, ChangeCostNews, SendStateAllNews, ProcessNews
  <2>3. ASSUME NEW n \in Daemons, Crash(n) \/ SendStateUpdates(n) PROVE NewsIsOnItsWay'
    BY <2>3, CrashNews, SendStateUpdatesNews
  <2> QED BY <2>1, <2>2, <2>3 DEF FloodNext
<1> QED BY <1>1, <1>2 DEF FloodInv

\* The inductive invariant of the flooding: types, an id for every connected neighbor and
\* no two the same, no channel ahead of who sends on it, and NewsIsOnItsWay.
THEOREM FloodInvariant == FloodSpec => []FloodInv
<1>1. FloodInit => FloodInv
  BY FloodInitTypes, FloodInitChan, FloodInitNews DEF FloodInv
<1> QED BY <1>1, FloodStep, PTL DEF FloodSpec

\* State flooding keeps everything within its type.
THEOREM FloodTypeCorrect == FloodSpec => []FloodTypeOK
<1>1. FloodInv => FloodTypeOK
  <2> SUFFICES ASSUME FloodTypes PROVE FloodTypeOK
      BY DEF FloodInv
  <2>1. ASSUME NEW n \in Daemons, NEW m \in Daemons
        PROVE  \A p \in DOMAIN chan[n][m] :
                  /\ chan[n][m][p] \in Nat \ {0}
                  /\ DOMAIN p \subseteq Edges /\ \A e \in DOMAIN p : p[e] \in Cell
    <3>1. chan[n][m] \in PacketBags BY DEF FloodTypes
    <3>2. PICK packets \in SUBSET Packet : chan[n][m] \in [packets -> Nat \ {0}]
      BY <3>1 DEF PacketBags
    <3> QED BY <3>2 DEF Packet
  <2> QED BY <2>1 DEF FloodTypes, FloodTypeOK
<1> QED BY <1>1, FloodInvariant, PTL

\* What a connected daemon knows and its neighbor does not is on its way: the masks of
\* changed states, whose ids are handed on from neighbor to neighbor, never hold it back
\* (state_flood.c:545-557, 787-799).
THEOREM NewsReachesEverybody == FloodSpec => []NewsIsOnItsWay
<1>1. FloodInv => NewsIsOnItsWay BY DEF FloodInv
<1> QED BY <1>1, FloodInvariant, PTL

-----------------------------------------------------------------------------
(* OneCostPerStamp *)

\* A daemon knows this cell of the edge, or it is on its way.
Seen(e, c) ==
    \/ \E n \in Daemons : c = All_Edges[n][e]
    \/ \E n, m \in Daemons : \E p \in DOMAIN chan[n][m] :
          e \in DOMAIN p /\ c = p[e]

\* What the source of an edge knows of it.
Own(e) == All_Edges[e[1]][e]

\* Nobody has a newer cell than the source, and no two cells have the same stamp and
\* different costs.
Agreed(e) ==
    /\ \A c \in Cell : Seen(e, c) => c.stamp <= Own(e).stamp
    /\ \A c \in Cell : Seen(e, c) /\ c.stamp = 0 => c.cost = DISCONNECTED
    /\ \A c, d \in Cell : Seen(e, c) /\ Seen(e, d) /\ c.stamp = d.stamp => c.cost = d.cost

\* The clock at the last start.
LastBoot(n) == boots[n][Len(boots[n])]

\* How far the changes of a cost since the last fault are ahead of two a fault: a leg that
\* is connected will be disconnected, and one that is torn was already counted.
Slack(n, m) == IF ~IsConnected(n, m) THEN 0 ELSE IF {n, m} \in torn THEN -1 ELSE 1

\* A stamp grows by less than a second from one start to the next.
Bounded(e) ==
    Own(e).stamp <= LastBoot(e[1]) * Second + 2 * mishaps + Slack(e[1], e[2])

\* Until the clock of the source was set back.
SourceLeads ==
    /\ \A n \in Daemons : boots[n] # <<>>
    /\ \A e \in Edges : ~TurnedBack(e[1]) => Agreed(e) /\ Bounded(e)

\* A daemon does not change the costs of its edges so often that their stamps, a
\* microsecond each time, run ahead of the second of its next start.
FaultsFitASecond == Second >= 2 * MaxFaults

\* Cells of an edge agree after a step that makes no new cell but one of the source.
LEMMA AgreedKept ==
    ASSUME NEW e \in Edges, Agreed(e), Own(e) \in Cell, Own(e)' \in Cell,
           \A c \in Cell : Seen(e, c)' =>
               (Seen(e, c) \/ c = Own(e)' \/ c = [stamp |-> 0, cost |-> DISCONNECTED]),
           Own(e)' = Own(e) \/ Own(e)'.stamp > Own(e).stamp
    PROVE  Agreed(e)'
<1> DEFINE zero == [stamp |-> 0, cost |-> DISCONNECTED]
           own == Own(e)
           new == Own(e)'
<1>1. zero \in Cell /\ zero.stamp = 0 /\ zero.cost = DISCONNECTED BY CellHas
<1>2. Seen(e, own) BY FloodConstants DEF Seen, Own
<1>3. \A c \in Cell : c.stamp \in Nat BY DEF Cell
<1>4. new.stamp >= own.stamp /\ own.stamp \in Nat /\ new.stamp \in Nat BY <1>3
<1>5. \A c \in Cell : Seen(e, c) => c.stamp <= own.stamp BY DEF Agreed
<1>6. \A c \in Cell : Seen(e, c) /\ c.stamp = 0 => c.cost = DISCONNECTED BY DEF Agreed
<1>7. \A c, d \in Cell : Seen(e, c) /\ Seen(e, d) /\ c.stamp = d.stamp => c.cost = d.cost
  BY DEF Agreed
<1>8. \A c \in Cell : Seen(e, c)' => (Seen(e, c) \/ c = new \/ c = zero) OBVIOUS
<1>9. new = own \/ new.stamp > own.stamp OBVIOUS
<1>10. own \in Cell /\ new \in Cell OBVIOUS
<1> HIDE DEF zero, own, new
<1>11. \A c \in Cell : Seen(e, c)' => c.stamp <= new.stamp
  BY <1>1, <1>3, <1>4, <1>5, <1>8
<1>12. \A c \in Cell : Seen(e, c)' /\ c.stamp = 0 => c.cost = DISCONNECTED
  BY <1>1, <1>2, <1>3, <1>4, <1>6, <1>8, <1>9, <1>10
<1>13. ASSUME NEW c \in Cell, NEW d \in Cell, Seen(e, c)', Seen(e, d)', c.stamp = d.stamp
       PROVE  c.cost = d.cost
  <2>1. c.stamp = 0 => c.cost = d.cost BY <1>12, <1>13
  <2>2. c = zero \/ d = zero => c.stamp = 0 BY <1>1, <1>13
  <2>3. c = new /\ d = new => c.cost = d.cost OBVIOUS
  <2>4. c = new /\ Seen(e, d) => c.cost = d.cost
    BY <1>2, <1>3, <1>4, <1>5, <1>7, <1>9, <1>10, <1>13
  <2>5. d = new /\ Seen(e, c) => c.cost = d.cost
    BY <1>2, <1>3, <1>4, <1>5, <1>7, <1>9, <1>10, <1>13
  <2>6. Seen(e, c) /\ Seen(e, d) => c.cost = d.cost BY <1>7, <1>13
  <2> QED BY <1>8, <1>13, <2>1, <2>2, <2>3, <2>4, <2>5, <2>6
<1>14. \A c \in Cell : Seen(e, c)' => c.stamp <= Own(e)'.stamp BY <1>11 DEF new
<1> QED BY <1>12, <1>13, <1>14 DEF Agreed

\* Slack is one of three numbers.
LEMMA SlackHas ==
    ASSUME NEW a, NEW b
    PROVE  /\ Slack(a, b) \in {-1, 0, 1}
           /\ ~IsConnected(a, b) => Slack(a, b) = 0
           /\ IsConnected(a, b) => Slack(a, b) = IF {a, b} \in torn THEN -1 ELSE 1
BY DEF Slack

\* The numbers that the bound on a stamp is made of.
LEMMA BoundTypes ==
    ASSUME FloodTypes, SourceLeads, NEW e \in Edges
    PROVE  /\ Own(e) \in Cell /\ Own(e).stamp \in Nat
           /\ LastBoot(e[1]) \in Nat /\ LastBoot(e[1]) * Second \in Nat
           /\ mishaps \in Nat /\ mishaps <= MaxFaults
<1>1. e[1] \in Daemons BY FloodConstants
<1>2. Own(e) \in Cell BY <1>1 DEF Own, FloodTypes
<1>3. boots[e[1]] \in Seq(Seconds \cup {Started}) /\ boots[e[1]] # <<>>
  BY <1>1 DEF FloodTypes, SourceLeads
<1>4. LastBoot(e[1]) \in Nat
  <2>1. Len(boots[e[1]]) \in 1..Len(boots[e[1]]) BY <1>3, EmptySeq, LenProperties
  <2>2. LastBoot(e[1]) \in Seconds \cup {Started} BY <1>3, <2>1, ElementOfSeq DEF LastBoot
  <2> QED BY <2>2, FloodConstants
<1>5. LastBoot(e[1]) * Second \in Nat BY <1>4, FloodConstants
<1> QED BY <1>2, <1>4, <1>5, FloodConstants DEF Cell, FloodTypes

\* At first all know the same, or nothing, of an edge.
LEMMA FloodInitLeads == FloodInit => SourceLeads
<1> SUFFICES ASSUME FloodInit PROVE SourceLeads
    OBVIOUS
<1>1. \A n \in Daemons : boots[n] = <<Started>> BY DEF FloodInit
<1>2. \A n, m \in Daemons : DOMAIN chan[n][m] = {} BY EmptyHas DEF FloodInit
<1>3. ASSUME NEW e \in Edges PROVE Agreed(e) /\ Bounded(e)
  <2> DEFINE first == Started * Second
             up == [stamp |-> first + 1, cost |-> Min(Costs)]
             down == [stamp |-> first, cost |-> DISCONNECTED]
             zero == [stamp |-> 0, cost |-> DISCONNECTED]
  <2>1. e[1] \in Daemons /\ e[2] \in Daemons /\ e = Edge(e[1], e[2]) BY FloodConstants
  <2>2. Own(e) = IF e \in Up THEN up ELSE down
    BY <2>1, SettledHas DEF Own, FloodInit
  <2>3. \A c \in Cell : Seen(e, c) => (c = zero \/ c = down \/ (e \in Up /\ c = up))
    <3> SUFFICES ASSUME NEW c \in Cell, Seen(e, c)
                 PROVE  c = zero \/ c = down \/ (e \in Up /\ c = up)
        OBVIOUS
    <3>1. PICK n \in Daemons : c = All_Edges[n][e] BY <1>2 DEF Seen
    <3>2. c = Settled(n)[e] BY <3>1 DEF FloodInit
    <3> QED BY <3>2, SettledHas
  <2>4. first \in Nat BY FloodConstants
  <2>5. LastBoot(e[1]) = Started BY <1>1, <2>1 DEF LastBoot
  <2>6. e \in Up <=> IsConnected(e[1], e[2]) BY <2>1, FirstConnected
  <2>7. Slack(e[1], e[2]) = IF e \in Up THEN 1 ELSE 0 BY <2>6 DEF Slack, FloodInit
  <2>8. mishaps = 0 BY DEF FloodInit
  <2>9. Bounded(e)
    <3>1. Own(e).stamp = first + Slack(e[1], e[2]) BY <2>2, <2>4, <2>7
    <3>2. Slack(e[1], e[2]) \in Int BY <2>7
    <3> HIDE DEF first
    <3>3. Own(e).stamp <= first + 2 * mishaps + Slack(e[1], e[2]) BY <2>4, <2>8, <3>1, <3>2
    <3> QED BY <2>5, <3>3 DEF Bounded, first
  <2>10. Agreed(e)
    <3>1. \A c \in {zero, down} : c.cost = DISCONNECTED /\ c.stamp <= Own(e).stamp
      BY <2>2, <2>4
    <3>2. up.stamp # zero.stamp /\ up.stamp # down.stamp /\ up.stamp # 0 BY <2>4
    <3>3. e \in Up => Own(e) = up /\ up.stamp <= Own(e).stamp BY <2>2, <2>4
    <3> HIDE DEF up, down, zero
    <3>4. \A c \in Cell : Seen(e, c) => c.stamp <= Own(e).stamp BY <2>3, <3>1, <3>3
    <3>5. \A c \in Cell : Seen(e, c) /\ c.stamp = 0 => c.cost = DISCONNECTED
      BY <2>3, <3>1, <3>2
    <3>6. \A c, d \in Cell : Seen(e, c) /\ Seen(e, d) /\ c.stamp = d.stamp => c.cost = d.cost
      BY <2>3, <3>1, <3>2
    <3> QED BY <3>4, <3>5, <3>6 DEF Agreed
  <2> QED BY <2>9, <2>10
<1> QED BY <1>1, <1>3 DEF SourceLeads

\* A cost is set and no channel is given more.
LEMMA SetCostAgreed ==
    ASSUME FloodTypes, NEW n \in Daemons, NEW m \in Neighbors(n),
           NEW cost \in Costs \cup {DISCONNECTED}, SetCost(n, m, cost),
           \A a, b \in Daemons : chan'[a][b] = chan[a][b] \/ chan'[a][b] = EmptyBag,
           NEW e \in Edges, Agreed(e)
    PROVE  /\ Agreed(e)'
           /\ Own(e)'.stamp = IF e = Edge(n, m) THEN Own(e).stamp + 1 ELSE Own(e).stamp
<1>1. e[1] \in Daemons /\ e = Edge(e[1], e[2]) BY FloodConstants
<1>2. Own(e) \in Cell /\ Own(e)' \in Cell
  BY <1>1, SetCostHas DEF Own, FloodTypes
<1>3. e = Edge(n, m) => e[1] = n BY DEF Edge
<1>4. CASE e = Edge(n, m)
  <2>1. Own(e)'.stamp = Own(e).stamp + 1 BY <1>3, <1>4, SetCostHas DEF Own
  <2>2. Own(e)'.stamp > Own(e).stamp BY <1>2, <2>1 DEF Cell
  <2>3. ASSUME NEW c \in Cell, Seen(e, c)' PROVE Seen(e, c) \/ c = Own(e)'
    <3>1. CASE \E k \in Daemons : c = All_Edges'[k][e]
      <4>1. PICK k \in Daemons : c = All_Edges'[k][e] BY <3>1
      <4>2. CASE k = n BY <1>3, <1>4, <4>1, <4>2 DEF Own
      <4>3. CASE k # n
        <5>1. c = All_Edges[k][e] BY <4>1, <4>3, SetCostHas
        <5> QED BY <5>1 DEF Seen
      <4> QED BY <4>2, <4>3
    <3>2. CASE \E a, b \in Daemons : \E p \in DOMAIN chan'[a][b] :
                  e \in DOMAIN p /\ c = p[e]
      <4>1. PICK a \in Daemons, b \in Daemons : \E p \in DOMAIN chan'[a][b] :
                  e \in DOMAIN p /\ c = p[e]
        BY <3>2
      <4>2. chan'[a][b] = chan[a][b] BY <4>1, EmptyHas
      <4> QED BY <4>1, <4>2 DEF Seen
    <3> QED BY <2>3, <3>1, <3>2 DEF Seen
  <2>4. Agreed(e)' BY <1>2, <2>2, <2>3, AgreedKept
  <2> QED BY <1>4, <2>1, <2>4
<1>5. CASE e # Edge(n, m)
  <2>1. \A k \in Daemons : All_Edges'[k][e] = All_Edges[k][e] BY <1>5, SetCostHas
  <2>2. Own(e)' = Own(e) BY <1>1, <2>1 DEF Own
  <2>3. ASSUME NEW c \in Cell, Seen(e, c)' PROVE Seen(e, c)
    <3>1. CASE \E k \in Daemons : c = All_Edges'[k][e] BY <2>1, <3>1 DEF Seen
    <3>2. CASE \E a, b \in Daemons : \E p \in DOMAIN chan'[a][b] :
                  e \in DOMAIN p /\ c = p[e]
      <4>1. PICK a \in Daemons, b \in Daemons : \E p \in DOMAIN chan'[a][b] :
                  e \in DOMAIN p /\ c = p[e]
        BY <3>2
      <4>2. chan'[a][b] = chan[a][b] BY <4>1, EmptyHas
      <4> QED BY <4>1, <4>2 DEF Seen
    <3> QED BY <2>3, <3>1, <3>2 DEF Seen
  <2>4. Agreed(e)' BY <1>2, <2>2, <2>3, AgreedKept
  <2> QED BY <1>5, <2>2, <2>4
<1> QED BY <1>4, <1>5

\* Whose leg is connected or disconnected when a cost is set.
LEMMA SetCostSlack ==
    ASSUME FloodTypes, NEW n \in Daemons, NEW m \in Neighbors(n),
           NEW cost \in Costs \cup {DISCONNECTED}, SetCost(n, m, cost), NEW e \in Edges
    PROVE  /\ e = Edge(n, m) =>
                  e[1] = n /\ e[2] = m /\ (IsConnected(e[1], e[2])' <=> cost # DISCONNECTED)
           /\ e # Edge(n, m) => (IsConnected(e[1], e[2])' <=> IsConnected(e[1], e[2]))
<1>1. e[1] \in Daemons /\ e[2] \in Daemons /\ e = Edge(e[1], e[2]) BY FloodConstants
<1>2. ~(e[1] = n /\ e[2] = m) <=> e # Edge(n, m) BY <1>1 DEF Edge
<1>3. IsConnected(e[1], e[2])' <=> IF e[1] = n /\ e[2] = m THEN cost # DISCONNECTED
                                   ELSE IsConnected(e[1], e[2])
  BY <1>1, SetCostConnected
<1> HIDE DEF IsConnected
<1> QED BY <1>2, <1>3

\* Connect
LEMMA ConnectLeads ==
    ASSUME FloodTypes, SourceLeads, NEW n \in Daemons, NEW m \in Neighbors(n), Connect(n, m),
           NEW e \in Edges, Agreed(e), Bounded(e)
    PROVE  Agreed(e)' /\ Bounded(e)'
<1>1. SetCost(n, m, Min(Costs)) /\ Min(Costs) \in Costs \cup {DISCONNECTED}
          /\ Min(Costs) # DISCONNECTED
  BY LeastCost, FloodConstants DEF Connect
<1>2. UNCHANGED <<chan, torn, boots, mishaps>> /\ ~IsConnected(n, m) /\ {n, m} \notin torn
  BY DEF Connect
<1>3. Agreed(e)' /\ Own(e)'.stamp = IF e = Edge(n, m) THEN Own(e).stamp + 1 ELSE Own(e).stamp
  BY <1>1, <1>2, SetCostAgreed
<1>4. LastBoot(e[1])' = LastBoot(e[1]) /\ mishaps' = mishaps BY <1>2 DEF LastBoot
<1>5. Slack(e[1], e[2])' = IF e = Edge(n, m) THEN Slack(e[1], e[2]) + 1 ELSE Slack(e[1], e[2])
  <2>1. CASE e = Edge(n, m)
    BY <1>1, <1>2, <2>1, SetCostSlack DEF Slack
  <2>2. CASE e # Edge(n, m)
    BY <1>1, <1>2, <2>2, SetCostSlack DEF Slack
  <2> QED BY <2>1, <2>2
<1>6. Bounded(e)'
  <2> DEFINE base == LastBoot(e[1]) * Second
  <2>1. /\ Own(e).stamp \in Nat /\ base \in Nat /\ mishaps \in Nat
        /\ Slack(e[1], e[2]) \in {-1, 0, 1}
    BY BoundTypes, SlackHas
  <2>2. Own(e).stamp <= base + 2 * mishaps + Slack(e[1], e[2]) BY DEF Bounded
  <2> HIDE DEF base
  <2>3. Own(e)'.stamp <= base + 2 * mishaps' + Slack(e[1], e[2])'
    BY <1>3, <1>4, <1>5, <2>1, <2>2
  <2> QED BY <1>4, <2>3 DEF Bounded, base
<1> QED BY <1>3, <1>6

\* Disconnect: of the two ends the first counts as a fault, the second does not.
LEMMA DisconnectLeads ==
    ASSUME FloodTypes, SourceLeads, NEW n \in Daemons, NEW m \in Neighbors(n), Disconnect(n, m),
           NEW e \in Edges, Agreed(e), Bounded(e)
    PROVE  Agreed(e)' /\ Bounded(e)'
<1>1. SetCost(n, m, DISCONNECTED) /\ DISCONNECTED \in Costs \cup {DISCONNECTED}
          /\ m \in Daemons /\ n # m
  BY FloodConstants DEF Disconnect, Neighbors, Edge
<1>2. /\ UNCHANGED boots /\ IsConnected(n, m) /\ chan' = Severed(n, m)
      /\ torn' = IF IsConnected(m, n) THEN torn \cup {{n, m}} ELSE torn \ {{n, m}}
      /\ mishaps' = IF {n, m} \in torn THEN mishaps ELSE mishaps + 1
  BY DEF Disconnect, Mishap
<1>3. \A a, b \in Daemons : chan'[a][b] = chan[a][b] \/ chan'[a][b] = EmptyBag
  <2>1. \A a, b \in Daemons : Severed(n, m)[a][b] = chan[a][b] \/ Severed(n, m)[a][b] = EmptyBag
    BY <1>1, SeveredHas, Zenon
  <2> QED BY <1>2, <2>1
<1>4. Agreed(e)' /\ Own(e)'.stamp = IF e = Edge(n, m) THEN Own(e).stamp + 1 ELSE Own(e).stamp
  BY <1>1, <1>3, SetCostAgreed
<1>5. LastBoot(e[1])' = LastBoot(e[1]) BY <1>2 DEF LastBoot
<1> DEFINE base == LastBoot(e[1]) * Second
           slack == Slack(e[1], e[2])
           slack2 == Slack(e[1], e[2])'
<1>6. /\ Own(e).stamp \in Nat /\ base \in Nat /\ mishaps \in Nat /\ slack \in {-1, 0, 1}
  BY BoundTypes, SlackHas
<1>7. Own(e).stamp <= base + 2 * mishaps + slack BY DEF Bounded
<1>8. CASE e = Edge(n, m)
  <2>1. e[1] = n /\ e[2] = m /\ ~IsConnected(e[1], e[2])' BY <1>1, <1>8, SetCostSlack
  <2>2. slack2 = 0 BY <2>1 DEF Slack
  <2>3. slack = IF {n, m} \in torn THEN -1 ELSE 1 BY <1>2, <2>1 DEF Slack
  <2> HIDE DEF base, slack, slack2
  <2>4. Own(e)'.stamp <= base + 2 * mishaps' + slack2
    BY <1>2, <1>4, <1>6, <1>7, <1>8, <2>2, <2>3
  <2> QED BY <1>4, <1>5, <2>4 DEF Bounded, base, slack2
<1>9. CASE e # Edge(n, m)
  <2>1. IsConnected(e[1], e[2])' <=> IsConnected(e[1], e[2]) BY <1>1, <1>9, SetCostSlack
  <2>2. slack2 \in {-1, 0, 1} BY DEF Slack
  <2>3. CASE {e[1], e[2]} = {n, m}
    <3>1. e = Edge(m, n) /\ e[1] = m /\ e[2] = n
      BY <1>9, <2>3, FloodConstants DEF Edge
    <3>2. CASE {n, m} \in torn
      <4>1. slack2 >= slack
        <5>1. CASE IsConnected(m, n)
          <6>1. {e[1], e[2]} \in torn BY <2>3, <3>2
          <6>2. slack = -1 BY <3>1, <5>1, <6>1 DEF Slack
          <6> HIDE DEF slack, slack2
          <6> QED BY <2>2, <6>2
        <5>2. CASE ~IsConnected(m, n)
          <6>1. slack = 0 /\ slack2 = 0 BY <2>1, <3>1, <5>2 DEF Slack
          <6> HIDE DEF slack, slack2
          <6> QED BY <6>1
        <5> QED BY <5>1, <5>2
      <4>2. mishaps' = mishaps /\ Own(e)'.stamp = Own(e).stamp BY <1>2, <1>4, <1>9, <3>2
      <4> HIDE DEF base, slack, slack2
      <4>3. Own(e)'.stamp <= base + 2 * mishaps' + slack2 BY <1>6, <1>7, <2>2, <4>1, <4>2
      <4> QED BY <1>4, <1>5, <4>3 DEF Bounded, base, slack2
    <3>3. CASE {n, m} \notin torn
      <4>1. mishaps' = mishaps + 1 /\ Own(e)'.stamp = Own(e).stamp BY <1>2, <1>4, <1>9, <3>3
      <4> HIDE DEF base, slack, slack2
      <4>2. Own(e)'.stamp <= base + 2 * mishaps' + slack2 BY <1>6, <1>7, <2>2, <4>1
      <4> QED BY <1>4, <1>5, <4>2 DEF Bounded, base, slack2
    <3> QED BY <3>2, <3>3
  <2>4. CASE {e[1], e[2]} # {n, m}
    <3>1. {e[1], e[2]} \in torn' <=> {e[1], e[2]} \in torn BY <1>2, <2>4
    <3>2. slack2 = slack BY <2>1, <3>1 DEF Slack
    <3>3. mishaps' \in {mishaps, mishaps + 1} /\ Own(e)'.stamp = Own(e).stamp
      BY <1>2, <1>4, <1>9
    <3> HIDE DEF base, slack, slack2
    <3>4. Own(e)'.stamp <= base + 2 * mishaps' + slack2 BY <1>6, <1>7, <3>2, <3>3
    <3> QED BY <1>4, <1>5, <3>4 DEF Bounded, base, slack2
  <2> QED BY <2>3, <2>4
<1> QED BY <1>8, <1>9

\* ChangeCost
LEMMA ChangeCostLeads ==
    ASSUME FloodTypes, SourceLeads, NEW n \in Daemons, NEW m \in Neighbors(n), ChangeCost(n, m),
           NEW e \in Edges, Agreed(e), Bounded(e)
    PROVE  Agreed(e)' /\ Bounded(e)'
<1>1. PICK cost \in Costs : SetCost(n, m, cost) BY DEF ChangeCost
<1>2. /\ UNCHANGED <<neighbor_id, syncing, chan, torn, boots>> /\ IsConnected(n, m)
      /\ mishaps' = mishaps + 1 /\ cost # DISCONNECTED
  BY FloodConstants DEF ChangeCost, Mishap
<1>3. Agreed(e)' /\ Own(e)'.stamp = IF e = Edge(n, m) THEN Own(e).stamp + 1 ELSE Own(e).stamp
  BY <1>1, <1>2, SetCostAgreed
<1>4. LastBoot(e[1])' = LastBoot(e[1]) BY <1>2 DEF LastBoot
<1>5. IsConnected(e[1], e[2])' <=> IsConnected(e[1], e[2]) BY <1>1, <1>2, SetCostSlack
<1>6. Slack(e[1], e[2])' = Slack(e[1], e[2]) BY <1>2, <1>5 DEF Slack
<1>7. Bounded(e)'
  <2> DEFINE base == LastBoot(e[1]) * Second
  <2>1. /\ Own(e).stamp \in Nat /\ base \in Nat /\ mishaps \in Nat
        /\ Slack(e[1], e[2]) \in {-1, 0, 1}
    BY BoundTypes, SlackHas
  <2>2. Own(e).stamp <= base + 2 * mishaps + Slack(e[1], e[2]) BY DEF Bounded
  <2> HIDE DEF base
  <2>3. Own(e)'.stamp <= base + 2 * mishaps' + Slack(e[1], e[2])'
    BY <1>2, <1>3, <1>6, <2>1, <2>2
  <2> QED BY <1>4, <2>3 DEF Bounded, base
<1> QED BY <1>3, <1>7

\* What was sent is known to who sent it.
LEMMA SendsAgreed ==
    ASSUME FloodTypes, UNCHANGED All_Edges, NEW e \in Edges, Agreed(e),
           \A a, b \in Daemons : \/ chan'[a][b] = chan[a][b]
                                 \/ \E edges \in SUBSET Edges : chan'[a][b] = Sent(a, b, edges)
    PROVE  Agreed(e)' /\ Own(e)' = Own(e)
<1>0. e[1] \in Daemons BY FloodConstants
<1>1. Own(e)' = Own(e) /\ Own(e) \in Cell BY <1>0 DEF Own, FloodTypes
<1>2. ASSUME NEW c \in Cell, Seen(e, c)' PROVE Seen(e, c)
  <2>1. CASE \E k \in Daemons : c = All_Edges'[k][e] BY <2>1 DEF Seen
  <2>2. CASE \E a, b \in Daemons : \E p \in DOMAIN chan'[a][b] :
                e \in DOMAIN p /\ c = p[e]
    <3>1. PICK a \in Daemons, b \in Daemons : \E p \in DOMAIN chan'[a][b] :
                e \in DOMAIN p /\ c = p[e]
      BY <2>2
    <3>2. PICK p \in DOMAIN chan'[a][b] : e \in DOMAIN p /\ c = p[e]
      BY <3>1
    <3>3. CASE chan'[a][b] = chan[a][b] BY <3>2, <3>3 DEF Seen
    <3>4. CASE chan'[a][b] # chan[a][b]
      <4>1. PICK edges \in SUBSET Edges : chan'[a][b] = Sent(a, b, edges) BY <3>4
      <4>2. edges # {} /\ {a, b} \notin torn BY <3>4, <4>1 DEF Sent
      <4>3. DOMAIN chan'[a][b] = DOMAIN chan[a][b] \cup {[d \in edges |-> All_Edges[a][d]]}
        <5>1. DOMAIN Sent(a, b, edges) = DOMAIN chan[a][b] \cup {[d \in edges |-> All_Edges[a][d]]}
          BY <4>1, <4>2, SentExtends, Zenon
        <5> QED BY <4>1, <5>1
      <4>4. CASE p \in DOMAIN chan[a][b] BY <3>2, <4>4 DEF Seen
      <4>5. CASE p = [d \in edges |-> All_Edges[a][d]]
        <5>1. c = All_Edges[a][e] BY <3>2, <4>5
        <5> QED BY <5>1 DEF Seen
      <4> QED BY <3>2, <4>3, <4>4, <4>5
    <3> QED BY <3>3, <3>4
  <2> QED BY <1>2, <2>1, <2>2 DEF Seen
<1> QED BY <1>1, <1>2, AgreedKept

\* The bound stays where nothing that it is made of changes.
LEMMA BoundedSame ==
    ASSUME NEW e \in Edges, Bounded(e), Own(e)' = Own(e),
           IsConnected(e[1], e[2])' <=> IsConnected(e[1], e[2]), UNCHANGED <<torn, boots, mishaps>>
    PROVE  Bounded(e)'
<1>1. Slack(e[1], e[2])' = Slack(e[1], e[2]) BY DEF Slack
<1>2. LastBoot(e[1])' = LastBoot(e[1]) BY DEF LastBoot
<1> QED BY <1>1, <1>2 DEF Bounded

\* SendStateAll and SendStateUpdates
LEMMA SendLeads ==
    ASSUME FloodTypes, IdsGiven, NEW n \in Daemons, NEW e \in Edges, Agreed(e), Bounded(e),
           SendStateUpdates(n) \/ \E m \in Neighbors(n) : SendStateAll(n, m)
    PROVE  Agreed(e)' /\ Bounded(e)'
<1>1. UNCHANGED <<All_Edges, torn, boots, mishaps>> BY DEF SendStateUpdates, SendStateAll
<1>2. \A a, b \in Daemons : \/ chan'[a][b] = chan[a][b]
                            \/ \E edges \in SUBSET Edges : chan'[a][b] = Sent(a, b, edges)
  <2>1. CASE SendStateUpdates(n)
    <3>1. PICK sends : \E again \in BOOLEAN : Pass(n, sends, again) BY <2>1, SendStateUpdatesHas
    <3>2. \A m \in Daemons : IsConnected(n, m) => sends[m] \in SUBSET Edges
      BY <3>1 DEF Pass, Needed, FloodTypes
    <3>3. /\ \A m \in Daemons :
                chan'[n][m] = IF IsConnected(n, m) THEN Sent(n, m, sends[m]) ELSE chan[n][m]
          /\ \A k \in Daemons : k # n => chan'[k] = chan[k]
      BY <3>1 DEF Pass
    <3> QED BY <3>2, <3>3
  <2>2. ASSUME NEW m \in Neighbors(n), SendStateAll(n, m)
        PROVE  \A a, b \in Daemons : \/ chan'[a][b] = chan[a][b]
                                     \/ \E edges \in SUBSET Edges : chan'[a][b] = Sent(a, b, edges)
    <3>1. m \in Daemons BY DEF Neighbors
    <3>2. \A a, b \in Daemons : chan'[a][b] = IF a = n /\ b = m THEN Sent(n, m, Edges) ELSE chan[a][b]
      <4>1. chan' = [chan EXCEPT ![n][m] = Sent(n, m, Edges)] BY <2>2 DEF SendStateAll
      <4>2. chan \in [Daemons -> [Daemons -> PacketBags]] BY DEF FloodTypes
      <4> QED BY <3>1, <4>1, <4>2
    <3>3. Edges \in SUBSET Edges OBVIOUS
    <3> QED BY <3>2, <3>3
  <2> QED BY <2>1, <2>2
<1>3. Agreed(e)' /\ Own(e)' = Own(e) BY <1>1, <1>2, SendsAgreed
<1>4. IsConnected(e[1], e[2])' <=> IsConnected(e[1], e[2])
  BY <1>1 DEF IsConnected, Neighbors
<1> QED BY <1>1, <1>3, <1>4, BoundedSame

\* ProcessStatePacket: the source is never told anything newer, and does not outbid.
LEMMA ProcessLeads ==
    ASSUME FloodTypes, IdsGiven, NEW n \in Daemons, NEW m \in Neighbors(n),
           ProcessStatePacket(n, m), NEW e \in Edges, Agreed(e), Bounded(e)
    PROVE  Agreed(e)' /\ Bounded(e)'
<1>0. PICK pkt \in Packet : Hears(n, m, pkt) BY ProcessHas
<1>1. /\ m # n /\ m \in Daemons /\ pkt \in Packet /\ pkt \in DOMAIN chan[m][n]
      /\ DOMAIN chan'[m][n] \subseteq DOMAIN chan[m][n]
      /\ \A x, y \in Daemons : x # m \/ y # n => chan'[x][y] = chan[x][y]
      /\ \A k \in Daemons : k # n => All_Edges'[k] = All_Edges[k]
      /\ Told(n, m, pkt, e)
  BY <1>0, ProcessHas DEF Hears
<1>4. Own(e) \in Cell
  <2>1. e[1] \in Daemons BY FloodConstants
  <2> QED BY <2>1 DEF Own, FloodTypes
<1>5. e \in DOMAIN pkt => pkt[e] \in Cell /\ Seen(e, pkt[e])
  <2>1. e \in DOMAIN pkt => pkt[e] \in Cell BY <1>1 DEF Packet
  <2> QED BY <1>1, <2>1 DEF Seen
<1>6. ~(e \in DOMAIN pkt /\ All_Edges[n][e].stamp < pkt[e].stamp /\ e[1] = n)
  <2> SUFFICES ASSUME e \in DOMAIN pkt, All_Edges[n][e].stamp < pkt[e].stamp, e[1] = n
               PROVE  FALSE
      OBVIOUS
  <2>1. pkt[e].stamp <= Own(e).stamp BY <1>5 DEF Agreed
  <2>2. Own(e).stamp = All_Edges[n][e].stamp BY DEF Own
  <2>3. pkt[e].stamp \in Nat /\ Own(e).stamp \in Nat BY <1>4, <1>5 DEF Cell
  <2> QED BY <2>1, <2>2, <2>3
<1>7. \/ All_Edges'[n][e] = All_Edges[n][e]
      \/ e \in DOMAIN pkt /\ All_Edges'[n][e] = pkt[e] /\ e[1] # n
  BY <1>1, <1>6 DEF Told
<1>8. Own(e)' = Own(e)
  <2>1. e[1] \in Daemons BY FloodConstants
  <2> QED BY <1>1, <1>7, <2>1 DEF Own
<1>9. ASSUME NEW c \in Cell, Seen(e, c)' PROVE Seen(e, c)
  <2>1. CASE \E k \in Daemons : c = All_Edges'[k][e]
    <3>1. PICK k \in Daemons : c = All_Edges'[k][e] BY <2>1
    <3>2. CASE c = All_Edges[k][e] BY <3>2 DEF Seen
    <3>3. CASE c # All_Edges[k][e]
      <4>1. c = pkt[e] /\ e \in DOMAIN pkt BY <1>1, <1>7, <3>1, <3>3
      <4> QED BY <1>5, <4>1
    <3> QED BY <3>2, <3>3
  <2>2. CASE \E a, b \in Daemons : \E p \in DOMAIN chan'[a][b] :
                e \in DOMAIN p /\ c = p[e]
    <3>1. PICK a \in Daemons, b \in Daemons : \E p \in DOMAIN chan'[a][b] :
                e \in DOMAIN p /\ c = p[e]
      BY <2>2
    <3>2. PICK p \in DOMAIN chan'[a][b] : e \in DOMAIN p /\ c = p[e]
      BY <3>1
    <3>3. CASE ~(a = m /\ b = n)
      <4>1. chan'[a][b] = chan[a][b] BY <1>1, <3>3
      <4> QED BY <3>2, <4>1 DEF Seen
    <3>4. CASE a = m /\ b = n
      <4>1. p \in DOMAIN chan[m][n] BY <1>1, <3>2, <3>4
      <4> QED BY <1>1, <3>2, <4>1 DEF Seen
    <3> QED BY <3>3, <3>4
  <2> QED BY <1>9, <2>1, <2>2 DEF Seen
<1>10. Agreed(e)' BY <1>4, <1>8, <1>9, AgreedKept
<1>11. IsConnected(e[1], e[2])' <=> IsConnected(e[1], e[2]) BY FloodConstants, ProcessConnected
<1>12. UNCHANGED <<torn, boots, mishaps>> BY DEF ProcessStatePacket
<1> QED BY <1>8, <1>10, <1>11, <1>12, BoundedSame

\* Once the clock of a daemon was set back, it was.
LEMMA TurnedBackStays ==
    ASSUME FloodTypes, [FloodNext]_floodVars, NEW n \in Daemons, TurnedBack(n)
    PROVE  TurnedBack(n)'
<1>1. CASE boots' = boots BY <1>1 DEF TurnedBack
<1>2. ASSUME NEW k \in Daemons, NEW sec \in Seconds, boots' = [boots EXCEPT ![k] = Append(@, sec)]
      PROVE  TurnedBack(n)'
  <2>1. boots[k] \in Seq(Seconds \cup {Started}) /\ sec \in Seconds \cup {Started}
    BY DEF FloodTypes
  <2>2. /\ Len(Append(boots[k], sec)) = Len(boots[k]) + 1 /\ Len(boots[k]) \in Nat
        /\ \A i \in 1..Len(boots[k]) : Append(boots[k], sec)[i] = boots[k][i]
    BY <2>1, AppendProperties
  <2>3. boots'[n] = IF n = k THEN Append(boots[k], sec) ELSE boots[n]
    BY <1>2 DEF FloodTypes
  <2>4. CASE n = k
    <3>1. PICK i \in 1..Len(boots[n]), j \in 1..Len(boots[n]) : i < j /\ boots[n][i] > boots[n][j]
      BY DEF TurnedBack
    <3>2. i \in 1..Len(boots'[n]) /\ j \in 1..Len(boots'[n]) BY <2>2, <2>3, <2>4
    <3>3. boots'[n][i] = boots[n][i] /\ boots'[n][j] = boots[n][j] BY <2>2, <2>3, <2>4
    <3> QED BY <3>1, <3>2, <3>3 DEF TurnedBack
  <2>5. CASE n # k BY <2>3, <2>5 DEF TurnedBack
  <2> QED BY <2>4, <2>5
<1>3. \/ boots' = boots
      \/ \E k \in Daemons : \E sec \in Seconds : boots' = [boots EXCEPT ![k] = Append(@, sec)]
  <2>1. CASE UNCHANGED floodVars BY <2>1 DEF floodVars
  <2>2. ASSUME NEW k \in Daemons, NEW m \in Neighbors(k),
               \/ Connect(k, m) \/ Disconnect(k, m) \/ ChangeCost(k, m)
               \/ SendStateAll(k, m) \/ ProcessStatePacket(k, m)
        PROVE  boots' = boots
    BY <2>2 DEF Connect, Disconnect, ChangeCost, SendStateAll, ProcessStatePacket
  <2>3. ASSUME NEW k \in Daemons, SendStateUpdates(k) PROVE boots' = boots
    BY <2>3 DEF SendStateUpdates
  <2>4. ASSUME NEW k \in Daemons, Crash(k)
        PROVE  \E sec \in Seconds : boots' = [boots EXCEPT ![k] = Append(@, sec)]
    BY <2>4 DEF Crash
  <2> QED BY <2>1, <2>2, <2>3, <2>4 DEF FloodNext
<1> QED BY <1>1, <1>2, <1>3

\* Each daemon was started.
LEMMA BootsStay ==
    ASSUME FloodTypes, [FloodNext]_floodVars, NEW n \in Daemons, boots[n] # <<>>
    PROVE  boots'[n] # <<>>
<1>1. CASE boots' = boots BY <1>1
<1>2. ASSUME NEW k \in Daemons, Crash(k) PROVE boots'[n] # <<>>
  <2>1. PICK sec \in Seconds : boots' = [boots EXCEPT ![k] = Append(@, sec)] BY <1>2 DEF Crash
  <2>2. boots[k] \in Seq(Seconds \cup {Started}) /\ sec \in Seconds \cup {Started}
    BY DEF FloodTypes
  <2>3. Append(boots[k], sec) # <<>> BY <2>2, AppendProperties
  <2> QED BY <2>1, <2>3 DEF FloodTypes
<1>3. boots' = boots \/ \E k \in Daemons : Crash(k)
  <2>1. CASE UNCHANGED floodVars BY <2>1 DEF floodVars
  <2>2. ASSUME NEW k \in Daemons, NEW m \in Neighbors(k),
               \/ Connect(k, m) \/ Disconnect(k, m) \/ ChangeCost(k, m)
               \/ SendStateAll(k, m) \/ ProcessStatePacket(k, m)
        PROVE  boots' = boots
    BY <2>2 DEF Connect, Disconnect, ChangeCost, SendStateAll, ProcessStatePacket
  <2>3. ASSUME NEW k \in Daemons, SendStateUpdates(k) PROVE boots' = boots
    BY <2>3 DEF SendStateUpdates
  <2> QED BY <2>1, <2>2, <2>3 DEF FloodNext
<1> QED BY <1>1, <1>2, <1>3

\* A later second, with fewer changes than it has microseconds before it.
LEMMA LaterSecond ==
    ASSUME NEW a \in Nat, NEW b \in Nat, NEW s \in Nat, a < b
    PROVE  a * s + s <= b * s
<1> DEFINE d == b - a - 1
<1>1. d \in Nat /\ b = a + 1 + d OBVIOUS
<1>2. d * s \in Nat /\ a * s \in Nat BY <1>1
<1> HIDE DEF d
<1>3. b * s = a * s + s + d * s BY <1>1
<1> QED BY <1>2, <1>3

\* Crash: unless its clock was set back, a daemon starts with newer stamps for its edges
\* than any that is still about.
LEMMA CrashLeads ==
    ASSUME FloodTypes, SourceLeads, FaultsFitASecond, NEW n \in Daemons, Crash(n),
           NEW e \in Edges, Agreed(e), Bounded(e), ~TurnedBack(e[1])'
    PROVE  Agreed(e)' /\ Bounded(e)'
<1>1. PICK sec \in Seconds \ Range(boots[n]) :
          /\ boots' = [boots EXCEPT ![n] = Append(@, sec)]
          /\ All_Edges' = [All_Edges EXCEPT ![n] = Configured(n, sec)]
  BY DEF Crash
<1>2. sec \in Nat BY FloodConstants
<1>3. /\ Configured(n, sec) \in [Edges -> Cell]
      /\ Configured(n, sec)[e].cost = DISCONNECTED
      /\ e[1] = n => Configured(n, sec)[e].stamp = sec * Second
      /\ e[1] # n => Configured(n, sec)[e].stamp = 0
  BY <1>2, ConfiguredHas
<1>4. /\ All_Edges'[n] = Configured(n, sec)
      /\ \A k \in Daemons : k # n => All_Edges'[k] = All_Edges[k]
  BY <1>1 DEF FloodTypes
<1>5. \A a, b \in Daemons : chan'[a][b] = chan[a][b] \/ chan'[a][b] = EmptyBag
  BY DEF Crash, FloodTypes
<1>6. /\ mishaps' = mishaps + 1 /\ mishaps < MaxFaults
  BY DEF Crash, Mishap
<1>7. e[1] \in Daemons /\ e[2] \in Daemons BY FloodConstants
<1> DEFINE base == LastBoot(e[1]) * Second
           slack == Slack(e[1], e[2])
           slack2 == Slack(e[1], e[2])'
<1>8. /\ Own(e) \in Cell /\ Own(e).stamp \in Nat /\ LastBoot(e[1]) \in Nat /\ base \in Nat
      /\ mishaps \in Nat /\ slack \in {-1, 0, 1}
  BY BoundTypes, SlackHas
<1>9. Own(e).stamp <= base + 2 * mishaps + slack BY DEF Bounded
<1>10. MaxFaults \in Nat /\ Second \in Nat BY FloodConstants
<1>11. ASSUME NEW c \in Cell, Seen(e, c)' PROVE Seen(e, c) \/ c = All_Edges'[n][e]
  <2>1. CASE \E k \in Daemons : c = All_Edges'[k][e]
    <3>1. PICK k \in Daemons : c = All_Edges'[k][e] BY <2>1
    <3>2. CASE k = n BY <3>1, <3>2
    <3>3. CASE k # n
      <4>1. c = All_Edges[k][e] BY <1>4, <3>1, <3>3
      <4> QED BY <4>1 DEF Seen
    <3> QED BY <3>2, <3>3
  <2>2. CASE \E a, b \in Daemons : \E p \in DOMAIN chan'[a][b] :
                e \in DOMAIN p /\ c = p[e]
    <3>1. PICK a \in Daemons, b \in Daemons : \E p \in DOMAIN chan'[a][b] :
                e \in DOMAIN p /\ c = p[e]
      BY <2>2
    <3>2. chan'[a][b] = chan[a][b] BY <1>5, <3>1, EmptyHas
    <3> QED BY <3>1, <3>2 DEF Seen
  <2> QED BY <1>11, <2>1, <2>2 DEF Seen
<1>12. CASE e[1] = n
  <2>1. Own(e)' = Configured(n, sec)[e] BY <1>4, <1>12 DEF Own
  <2>2. boots[n] \in Seq(Seconds \cup {Started}) /\ boots[n] # <<>>
    BY DEF FloodTypes, SourceLeads
  <2>3. Len(boots[n]) \in Nat /\ Len(boots[n]) \in 1..Len(boots[n])
    BY <2>2, EmptySeq, LenProperties
  <2>4. boots'[n] = Append(boots[n], sec) BY <1>1 DEF FloodTypes
  <2>5. /\ Len(boots'[n]) = Len(boots[n]) + 1
        /\ boots'[n][Len(boots[n])] = LastBoot(n)
        /\ boots'[n][Len(boots[n]) + 1] = sec
    BY <2>2, <2>3, <2>4, AppendProperties DEF LastBoot
  <2>6. LastBoot(n)' = sec BY <2>5 DEF LastBoot
  <2>7. LastBoot(n) <= sec
    <3>1. ~(LastBoot(n) > sec)
      <4>1. Len(boots[n]) \in 1..Len(boots'[n]) /\ Len(boots[n]) + 1 \in 1..Len(boots'[n])
        BY <2>3, <2>5
      <4>2. Len(boots[n]) < Len(boots[n]) + 1 BY <2>3
      <4>3. ~TurnedBack(n)' BY <1>12
      <4> QED BY <2>5, <4>1, <4>2, <4>3 DEF TurnedBack
    <3> QED BY <1>2, <1>8, <1>12, <3>1
  <2>8. LastBoot(n) # sec
    <3>1. DOMAIN boots[n] = 1..Len(boots[n]) BY <2>2, LenProperties
    <3>2. LastBoot(n) \in Range(boots[n]) BY <2>3, <3>1 DEF LastBoot, Range
    <3> QED BY <3>2
  <2>9. base + Second <= sec * Second
    <3>1. LastBoot(n) < sec BY <1>2, <1>8, <1>12, <2>7, <2>8
    <3> QED BY <1>2, <1>8, <1>10, <1>12, <3>1, LaterSecond
  <2>10. sec * Second \in Nat BY <1>2, <1>10
  <2>11. Own(e).stamp < sec * Second
    <3> DEFINE start == sec * Second
    <3>1. base + Second <= start /\ start \in Nat BY <2>9, <2>10
    <3>2. Second >= 2 * MaxFaults BY DEF FaultsFitASecond
    <3> HIDE DEF base, slack, start
    <3>3. Own(e).stamp < start BY <1>6, <1>8, <1>9, <1>10, <3>1, <3>2
    <3> QED BY <3>3 DEF start
  <2>12. Own(e)' \in Cell /\ Own(e)'.stamp > Own(e).stamp
    BY <1>3, <1>8, <1>12, <2>1, <2>10, <2>11
  <2>13. \A c \in Cell : Seen(e, c)' => (Seen(e, c) \/ c = Own(e)')
    BY <1>4, <1>11, <2>1
  <2>14. Agreed(e)' BY <1>8, <2>12, <2>13, AgreedKept
  <2>15. slack2 = 0
    <3>1. ~IsConnected(e[1], e[2])' BY <1>7, <1>12, CrashConnected
    <3> QED BY <3>1 DEF Slack
  <2>16. Bounded(e)'
    <3> DEFINE start == sec * Second
    <3>1. Own(e)'.stamp = start /\ start \in Nat BY <1>3, <1>12, <2>1, <2>10
    <3> HIDE DEF start, slack2
    <3>2. Own(e)'.stamp <= start + 2 * mishaps' + slack2 BY <1>6, <1>8, <2>15, <3>1
    <3>3. LastBoot(e[1])' * Second = start BY <1>12, <2>6 DEF start
    <3> QED BY <3>2, <3>3 DEF Bounded, slack2
  <2> QED BY <2>14, <2>16
<1>13. CASE e[1] # n
  <2>1. Own(e)' = Own(e) BY <1>4, <1>7, <1>13 DEF Own
  <2>2. All_Edges'[n][e] = [stamp |-> 0, cost |-> DISCONNECTED]
    <3>1. Configured(n, sec)[e] \in Cell BY <1>3
    <3> QED BY <1>3, <1>4, <1>13, <3>1 DEF Cell
  <2>3. \A c \in Cell : Seen(e, c)' =>
            (Seen(e, c) \/ c = [stamp |-> 0, cost |-> DISCONNECTED])
    BY <1>11, <2>2
  <2>4. Agreed(e)' BY <1>8, <2>1, <2>3, AgreedKept
  <2>5. IsConnected(e[1], e[2])' <=> IsConnected(e[1], e[2])
    BY <1>7, <1>13, CrashConnected
  <2>6. slack2 \in {-1, 0, 1} /\ slack2 >= slack - 2
    <3>1. slack2 \in {-1, 0, 1} BY DEF Slack
    <3> HIDE DEF slack, slack2
    <3> QED BY <1>8, <3>1
  <2>7. LastBoot(e[1])' = LastBoot(e[1])
    <3>1. boots'[e[1]] = boots[e[1]] BY <1>1, <1>7, <1>13 DEF FloodTypes
    <3> QED BY <3>1 DEF LastBoot
  <2> HIDE DEF base, slack, slack2
  <2>8. Own(e)'.stamp <= base + 2 * mishaps' + slack2 BY <1>6, <1>8, <1>9, <2>1, <2>6
  <2>9. Bounded(e)' BY <2>7, <2>8 DEF Bounded, base, slack2
  <2> QED BY <2>4, <2>9
<1> QED BY <1>12, <1>13

\* A step keeps the lead of the sources.
LEMMA LeadsStep ==
    ASSUME FaultsFitASecond
    PROVE  FloodInv /\ SourceLeads /\ [FloodNext]_floodVars => SourceLeads'
<1> SUFFICES ASSUME FloodTypes, IdsGiven, SourceLeads, [FloodNext]_floodVars
             PROVE  SourceLeads'
    BY DEF FloodInv
<1>1. \A n \in Daemons : boots'[n] # <<>> BY BootsStay DEF SourceLeads
<1>2. ASSUME NEW e \in Edges, ~TurnedBack(e[1])' PROVE Agreed(e)' /\ Bounded(e)'
  <2>1. e[1] \in Daemons BY FloodConstants
  <2>2. ~TurnedBack(e[1]) BY <1>2, <2>1, TurnedBackStays
  <2>3. Agreed(e) /\ Bounded(e) BY <2>2 DEF SourceLeads
  <2>4. CASE UNCHANGED floodVars
    <3>1. UNCHANGED <<All_Edges, chan, torn, boots, mishaps>> BY <2>4 DEF floodVars
    <3>2. Agreed(e)' BY <2>3, <3>1 DEF Agreed, Seen, Own
    <3>3. Bounded(e)' BY <2>3, <3>1 DEF Bounded, Own, LastBoot, Slack, IsConnected, Neighbors
    <3> QED BY <3>2, <3>3
  <2>5. ASSUME NEW n \in Daemons, NEW m \in Neighbors(n),
               \/ Connect(n, m) \/ Disconnect(n, m) \/ ChangeCost(n, m)
               \/ SendStateAll(n, m) \/ ProcessStatePacket(n, m)
        PROVE  Agreed(e)' /\ Bounded(e)'
    BY <2>3, <2>5, ConnectLeads, DisconnectLeads, ChangeCostLeads, SendLeads, ProcessLeads
  <2>6. ASSUME NEW n \in Daemons, SendStateUpdates(n) PROVE Agreed(e)' /\ Bounded(e)'
    BY <2>3, <2>6, SendLeads
  <2>7. ASSUME NEW n \in Daemons, Crash(n) PROVE Agreed(e)' /\ Bounded(e)'
    BY <1>2, <2>3, <2>7, CrashLeads
  <2> QED BY <2>4, <2>5, <2>6, <2>7 DEF FloodNext
<1> QED BY <1>1, <1>2 DEF SourceLeads

\* Two daemons with the same stamp of an edge have the same cost for it, unless the clock of
\* its source was set back, if the faults between two starts take less than the second that
\* the stamps of a start are ahead.
THEOREM StampsTellCosts ==
    ASSUME FaultsFitASecond
    PROVE  FloodSpec => []OneCostPerStamp
<1>1. FloodInit => FloodInv /\ SourceLeads
  BY FloodInitTypes, FloodInitChan, FloodInitNews, FloodInitLeads DEF FloodInv
<1>2. (FloodInv /\ SourceLeads) /\ [FloodNext]_floodVars => (FloodInv /\ SourceLeads)'
  BY FloodStep, LeadsStep
<1>3. FloodInv /\ SourceLeads => OneCostPerStamp
  <2> SUFFICES ASSUME FloodTypes, SourceLeads, NEW n \in Daemons, NEW m \in Daemons, NEW e \in Edges,
                      All_Edges[n][e].stamp = All_Edges[m][e].stamp, ~TurnedBack(e[1])
               PROVE  All_Edges[n][e].cost = All_Edges[m][e].cost
      BY DEF FloodInv, OneCostPerStamp
  <2>1. All_Edges[n][e] \in Cell /\ All_Edges[m][e] \in Cell BY DEF FloodTypes
  <2>2. Seen(e, All_Edges[n][e]) /\ Seen(e, All_Edges[m][e]) BY DEF Seen
  <2>3. Agreed(e) BY DEF SourceLeads
  <2> QED BY <2>1, <2>2, <2>3 DEF Agreed
<1> QED BY <1>1, <1>2, <1>3, PTL DEF FloodSpec
=============================================================================
