------------------------- MODULE NetworkLegsProofs -------------------------
(***************************************************************************)
(* The legs of Spines, whatever the places of control links, the counts of   *)
(* hellos, what the network holds and what goes wrong.                      *)
(***************************************************************************)
EXTENDS NetworkLegs, FiniteSetTheorems, SequenceTheorems, WellFoundedInduction, TLAPS

-----------------------------------------------------------------------------
(* The inductive invariant *)

Datagram == [type : {"ping", "hello", "hello_req", "state"}, id : Nat]

\* A leg has a control link if and only if it is not disconnected; a control link has an
\* id, and counts hellos only from a control link it knows.
Placed(l) ==
    /\ l.status = "disconnected" <=> l.place = NONE
    /\ l.place = NONE <=> l.ctrl_link_id = 0
    /\ l.place = NONE => l.other_side_ctrl_link_id = 0
    /\ l.other_side_ctrl_link_id = 0 => l.connect_cnter = 0 /\ l.status # "connected"

\* A hello is due at once only when the last one was answered, and Dead_Leg is queued
\* before the count of unanswered hellos passes its range.
HellosDue(l, q) ==
    \A s \in Places : l.place = s =>
        /\ q.hello[s] = "now" => l.hellos_out = 0
        /\ l.hellos_out > DEAD_LINK_CNT => s \in q.dying

\* EventsFindTheirLink, of one end.
EventsFound(l, q) ==
    \A s \in Places :
        /\ q.hello[s] # "no" <=> l.place = s
        /\ s \in q.counting \cup q.asking => l.place = s
        /\ s \in q.syncing => l.place = s /\ l.status = "connected"

EndOK(l, q) ==
    /\ l \in Network_Leg /\ q \in Queue
    /\ Placed(l) /\ HellosDue(l, q) /\ EventsFound(l, q)

\* No more is under way than the network holds, and a hello names its control link.
WireHolds ==
    \A e \in LegEnds :
        /\ Len(wire[e]) <= WireCap[e]
        /\ \A i \in 1..Len(wire[e]) : wire[e][i].type \in HelloTypes => wire[e][i].id # 0

LegInv == LegTypeOK /\ WireHolds /\ \A e \in LegEnds : EndOK(leg[e], queue[e])

-----------------------------------------------------------------------------
(* Ids of control links *)

\* The constants that the proofs below use, with their types.
LEMMA LegConstants ==
    /\ hello_cnt_start \in Nat /\ hello_cnt_start > 0
    /\ DEAD_LINK_CNT \in Nat /\ DEAD_LINK_CNT > hello_cnt_start
    /\ CONNECT_LINK_CNT \in Nat /\ CONNECT_LINK_CNT > 0
    /\ Places \subseteq Nat /\ NONE \notin Places
    /\ \A e \in LegEnds : WireCap[e] \in Nat /\ WireCap[e] > 0
BY LegAssumption DEF NONE

\* Each end has one other end.
LEMMA OtherEnd ==
    ASSUME NEW e \in LegEnds
    PROVE  Other(e) \in LegEnds /\ Other(e) # e /\ Other(Other(e)) = e
BY DEF LegEnds, Other

\* A set of naturals that is not empty has a least member.
LEMMA LeastNat ==
    ASSUME NEW S, S \subseteq Nat, S # {}
    PROVE  Min(S) \in S
<1>1. PICK x \in S : \A y \in S : ~(<<y, x>> \in OpToRel(<, Nat))
  BY NatLessThanWellFounded, WFMin
<1>2. ASSUME NEW y \in S PROVE x <= y
  <2>1. ~(y < x) BY <1>1 DEF OpToRel
  <2>2. QED BY <2>1
<1>3. QED BY <1>2 DEF Min

\* There are no more ids on a wire than datagrams.
LEMMA FewIds ==
    ASSUME NEW w \in Seq(Datagram)
    PROVE  LET ids == {w[i].id : i \in 1..Len(w)}
           IN  IsFiniteSet(ids) /\ Cardinality(ids) <= Len(w)
<1> DEFINE ids == {w[i].id : i \in 1..Len(w)}
           f == [i \in 1..Len(w) |-> w[i].id]
<1>1. Len(w) \in Nat OBVIOUS
<1>2. IsFiniteSet(1..Len(w)) /\ Cardinality(1..Len(w)) = Len(w) BY <1>1, FS_Interval
<1>3. f \in Surjection(1..Len(w), ids) BY DEF Surjection
<1>4. QED BY <1>2, <1>3, FS_Surjection

\* An id that nobody remembers exists.
LEMMA FreshIdIsFresh ==
    ASSUME LegTypeOK, WireHolds, NEW e \in LegEnds
    PROVE  /\ FreshId(e) \in Nat /\ FreshId(e) # 0
           /\ FreshId(e) \notin Ids(Other(e))
           /\ FreshId(e) # leg[e].ctrl_link_id
           /\ FreshId(e) # leg[Other(e)].other_side_ctrl_link_id
<1> DEFINE o == Other(e)
           cap == WireCap[o]
           all == 1..(cap + 3)
           ids == {wire[o][i].id : i \in 1..Len(wire[o])}
           two == {leg[e].ctrl_link_id, leg[o].other_side_ctrl_link_id}
           free == all \ (Ids(o) \cup two)
<1>1. o \in LegEnds BY OtherEnd
<1>2. wire[o] \in Seq(Datagram) /\ Len(wire[o]) <= cap
  BY <1>1 DEF LegTypeOK, WireHolds, Datagram
<1>3. cap \in Nat BY <1>1, LegConstants
<1>4. Len(wire[o]) \in Nat BY <1>2
<1> HIDE DEF o, cap
<1>5. IsFiniteSet(ids) /\ Cardinality(ids) <= Len(wire[o]) BY <1>2, FewIds
<1> HIDE DEF ids, two
<1>6. IsFiniteSet(all) /\ Cardinality(all) = cap + 3 BY <1>3, FS_Interval
<1>7. IsFiniteSet(two) /\ Cardinality(two) <= 2
  <2>1. DEFINE a == leg[e].ctrl_link_id
               b == leg[o].other_side_ctrl_link_id
  <2>2. IsFiniteSet({a}) /\ Cardinality({a}) = 1 BY FS_Singleton
  <2> HIDE DEF a, b
  <2>3. IsFiniteSet({a} \cup {b}) /\ Cardinality({a} \cup {b}) <= 2
    BY <2>2, FS_AddElement
  <2>4. two = {a} \cup {b} BY DEF two, a, b
  <2>5. QED BY <2>3, <2>4
<1>8. IsFiniteSet(ids \cup two) /\ Cardinality(ids \cup two) <= cap + 2
  <2>1. /\ IsFiniteSet(ids \cup two) /\ IsFiniteSet(ids \cap two)
        /\ Cardinality(ids \cup two) = Cardinality(ids) + Cardinality(two) - Cardinality(ids \cap two)
    BY <1>5, <1>7, FS_Union, FS_Intersection
  <2>2. Cardinality(ids) \in Nat /\ Cardinality(two) \in Nat /\ Cardinality(ids \cap two) \in Nat
    BY <1>5, <1>7, <2>1, FS_CardinalityType
  <2>3. QED BY <1>2, <1>3, <1>4, <1>5, <1>7, <2>1, <2>2
<1>9. all \ (ids \cup two) # {}
  <2>1. SUFFICES ASSUME all \ (ids \cup two) = {} PROVE FALSE OBVIOUS
  <2>2. all \subseteq ids \cup two BY <2>1
  <2>3. Cardinality(all) <= Cardinality(ids \cup two) BY <1>8, <2>2, FS_Subset
  <2>4. Cardinality(ids \cup two) \in Nat BY <1>8, FS_CardinalityType
  <2> HIDE DEF all
  <2>5. QED BY <1>3, <1>6, <1>8, <2>3, <2>4
<1>10. Ids(o) \subseteq ids /\ \A x \in all : x \in Ids(o) <=> x \in ids BY DEF Ids, ids
<1>11. free # {} BY <1>9, <1>10
<1>12. free \subseteq Nat /\ 0 \notin free BY <1>3
<1>13. Min(free) \in free
  <2> HIDE DEF free
  <2>1. QED BY <1>11, <1>12, LeastNat
<1>14. FreshId(e) = Min(free) BY DEF FreshId, o, cap, two
<1>15. QED BY <1>12, <1>13, <1>14 DEF o, two

-----------------------------------------------------------------------------
(* An end *)

\* When one end changes to a good state, both are in good states.
LEMMA EndStep ==
    ASSUME LegInv, NEW e \in LegEnds, NEW l, NEW q, EndOK(l, q),
           leg' = [leg EXCEPT ![e] = l], queue' = [queue EXCEPT ![e] = q]
    PROVE  /\ leg' \in [LegEnds -> Network_Leg] /\ queue' \in [LegEnds -> Queue]
           /\ \A d \in LegEnds : EndOK(leg'[d], queue'[d])
<1>1. leg \in [LegEnds -> Network_Leg] /\ queue \in [LegEnds -> Queue]
  BY DEF LegInv, LegTypeOK
<1>2. l \in Network_Leg /\ q \in Queue BY DEF EndOK
<1>3. leg' \in [LegEnds -> Network_Leg] /\ queue' \in [LegEnds -> Queue] BY <1>1, <1>2
<1>4. ASSUME NEW d \in LegEnds PROVE EndOK(leg'[d], queue'[d])
  <2>1. CASE d = e
    <3>1. leg'[d] = l /\ queue'[d] = q BY <1>1, <2>1
    <3>2. QED BY <3>1
  <2>2. CASE d # e
    <3>1. leg'[d] = leg[d] /\ queue'[d] = queue[d] BY <1>1, <2>2
    <3>2. QED BY <3>1 DEF LegInv
  <2>3. QED BY <2>1, <2>2
<1>5. QED BY <1>3, <1>4

\* No link is a good state, before the timeout of the leg and after it.
LEMMA NoLinkOK ==
    /\ EndOK(NoLink, NothingQueued)
    /\ \A q : EndOK(NoLink, q) => EndOK(Disconnected, q)
<1>1. NothingQueued \in Queue BY DEF NothingQueued, Queue
<1>2. NoLink \in Network_Leg /\ Disconnected \in Network_Leg
  <2>1. 0 \in 0..(DEAD_LINK_CNT + 1) BY LegConstants
  <2>2. NoLink \in Network_Leg BY <2>1 DEF NoLink, Network_Leg
  <2>3. Disconnected \in Network_Leg BY <2>2 DEF Disconnected, Network_Leg
  <2>4. QED BY <2>2, <2>3
<1>3. Placed(NoLink) BY DEF Placed, NoLink
<1>4. Disconnected = [NoLink EXCEPT !.resting = TRUE] BY DEF Disconnected
<1>5. /\ Disconnected.status = NoLink.status /\ Disconnected.place = NoLink.place
      /\ Disconnected.ctrl_link_id = NoLink.ctrl_link_id
      /\ Disconnected.other_side_ctrl_link_id = NoLink.other_side_ctrl_link_id
      /\ Disconnected.connect_cnter = NoLink.connect_cnter
      /\ Disconnected.hellos_out = NoLink.hellos_out
  BY DEF Disconnected, NoLink
<1>6. Placed(Disconnected) BY <1>3, <1>5 DEF Placed
<1>7. HellosDue(NoLink, NothingQueued) BY LegConstants DEF HellosDue, NoLink
<1>8. EventsFound(NoLink, NothingQueued)
  BY LegConstants DEF EventsFound, NoLink, NothingQueued
<1>9. ASSUME NEW q, EndOK(NoLink, q) PROVE EndOK(Disconnected, q)
  BY <1>2, <1>5, <1>6, <1>9 DEF EndOK, HellosDue, EventsFound
<1>10. QED BY <1>1, <1>2, <1>3, <1>7, <1>8, <1>9 DEF EndOK

\* A control link that was just made.
LEMMA CreatedIs ==
    ASSUME LegInv, NEW e \in LegEnds, NEW s \in Places
    PROVE  /\ Created(e, s) = [status |-> "not_yet_connected", place |-> s,
                  ctrl_link_id |-> FreshId(e), other_side_ctrl_link_id |-> 0,
                  hellos_out |-> 0, connect_cnter |-> 0, resting |-> FALSE]
           /\ FreshId(e) \in Nat /\ FreshId(e) # 0 /\ s # NONE
<1>1. FreshId(e) \in Nat /\ FreshId(e) # 0 BY FreshIdIsFresh DEF LegInv
<1>2. s # NONE BY LegConstants
<1> DEFINE f == FreshId(e)
<1> HIDE DEF f
<1>3. Created(e, s) = [NoLink EXCEPT !.status = "not_yet_connected", !.place = s, !.ctrl_link_id = f]
  BY DEF Created, f
<1>4. Created(e, s) = [status |-> "not_yet_connected", place |-> s, ctrl_link_id |-> f,
                       other_side_ctrl_link_id |-> 0, hellos_out |-> 0, connect_cnter |-> 0,
                       resting |-> FALSE]
  BY <1>3, Zenon DEF NoLink
<1>5. QED BY <1>1, <1>2, <1>4 DEF f

\* Init establishes the invariant.
LEMMA LegInvInit == LegInit => LegInv
<1>1. SUFFICES ASSUME LegInit PROVE LegInv OBVIOUS
<1>2. EndOK(NoLink, NothingQueued) BY NoLinkOK
<1>3. NoLink \in Network_Leg /\ NothingQueued \in Queue BY <1>2 DEF EndOK
<1>4. LegTypeOK BY <1>1, <1>3 DEF LegInit, LegTypeOK
<1>5. WireHolds BY <1>1, LegConstants DEF LegInit, WireHolds
<1>6. \A e \in LegEnds : EndOK(leg[e], queue[e]) BY <1>1, <1>2 DEF LegInit
<1>7. QED BY <1>4, <1>5, <1>6 DEF LegInv

\* Sending hellos keeps an end in a good state.
LEMMA SendHelloOK ==
    ASSUME LegInv, NEW e \in LegEnds, SendHello(e)
    PROVE  \E l, q : /\ EndOK(l, q) /\ leg' = [leg EXCEPT ![e] = l]
                     /\ queue' = [queue EXCEPT ![e] = q]
<1> DEFINE s == leg[e].place
           out == leg[e].hellos_out
           l == [leg[e] EXCEPT !.hellos_out = @ + 1]
           q == [queue[e] EXCEPT !.hello = [@ EXCEPT ![s] = "later"],
                     !.counting = IF out = hello_cnt_start THEN @ \cup {s} ELSE @,
                     !.dying = IF out = DEAD_LINK_CNT THEN @ \cup {s} ELSE @]
<1>1. leg \in [LegEnds -> Network_Leg] /\ queue \in [LegEnds -> Queue]
  BY DEF LegInv, LegTypeOK
<1>2. leg[e] \in Network_Leg /\ queue[e] \in Queue BY <1>1
<1>3. EndOK(leg[e], queue[e]) BY DEF LegInv
<1>4. s \in Places /\ queue[e].hello[s] # "no"
  BY <1>2 DEF SendHello, Network_Leg
<1>5. leg' = [leg EXCEPT ![e] = l] BY <1>1 DEF SendHello
<1>6. queue' = [queue EXCEPT ![e] = q] BY <1>1, <1>2, <1>4 DEF SendHello, Queue
<1>7. out \in 0..(DEAD_LINK_CNT + 1) /\ out + 1 \in Int BY <1>2, LegConstants DEF Network_Leg
<1>8. out <= DEAD_LINK_CNT
  <2>1. CASE queue[e].hello[s] = "now"
    <3>1. out = 0 BY <1>3, <1>4, <2>1 DEF EndOK, HellosDue
    <3>2. QED BY <3>1, LegConstants
  <2>2. CASE queue[e].hello[s] # "now"
    <3>1. queue[e].hello[s] = "later" BY <1>2, <1>4, <2>2 DEF Queue
    <3>2. out > 0 => s \notin queue[e].dying BY <3>1 DEF SendHello
    <3>3. out > DEAD_LINK_CNT => s \in queue[e].dying BY <1>3, <1>4 DEF EndOK, HellosDue
    <3>4. QED BY <1>7, <3>2, <3>3, LegConstants
  <2>3. QED BY <2>1, <2>2
<1>9. l \in Network_Leg /\ q \in Queue
  <2>1. out + 1 \in 0..(DEAD_LINK_CNT + 1) BY <1>7, <1>8, LegConstants
  <2> HIDE DEF out
  <2>2. l \in Network_Leg BY <1>2, <2>1 DEF Network_Leg, out
  <2>3. q \in Queue BY <1>2, <1>4 DEF Queue
  <2>4. QED BY <2>2, <2>3
<1>10. Placed(l) BY <1>2, <1>3 DEF EndOK, Placed, Network_Leg
<1>11. l.place = s /\ l.status = leg[e].status /\ l.hellos_out = out + 1
  BY <1>2 DEF Network_Leg
<1>12. /\ q.hello = [queue[e].hello EXCEPT ![s] = "later"]
       /\ q.counting = IF out = hello_cnt_start THEN queue[e].counting \cup {s} ELSE queue[e].counting
       /\ q.dying = IF out = DEAD_LINK_CNT THEN queue[e].dying \cup {s} ELSE queue[e].dying
       /\ q.asking = queue[e].asking /\ q.syncing = queue[e].syncing
  BY <1>2 DEF Queue
<1>13. queue[e].hello \in [Places -> {"no", "later", "now"}] BY <1>2 DEF Queue
<1>14. HellosDue(l, q)
  <2>1. SUFFICES ASSUME NEW t \in Places, l.place = t
                 PROVE  q.hello[t] # "now" /\ (l.hellos_out > DEAD_LINK_CNT => t \in q.dying)
    BY DEF HellosDue
  <2>2. t = s BY <2>1, <1>11
  <2>3. q.hello[t] = "later" BY <1>12, <1>13, <2>2
  <2>4. out + 1 > DEAD_LINK_CNT => out = DEAD_LINK_CNT BY <1>7, <1>8, LegConstants
  <2>5. QED BY <1>11, <1>12, <2>2, <2>3, <2>4
<1>15. EventsFound(l, q)
  <2>1. EventsFound(leg[e], queue[e]) BY <1>3 DEF EndOK
  <2>2. QED BY <1>4, <1>11, <1>12, <1>13, <2>1 DEF EventsFound
<1> HIDE DEF l, q
<1>16. QED BY <1>5, <1>6, <1>9, <1>10, <1>14, <1>15 DEF EndOK

\* Events that are taken from the queue of an end leave it in a good state.
LEMMA FewerEventsOK ==
    ASSUME NEW l, NEW q, NEW q2 \in Queue, EndOK(l, q), q2.hello = q.hello,
           q2.counting \subseteq q.counting, q2.asking \subseteq q.asking,
           q2.syncing \subseteq q.syncing,
           \A s \in q.dying \ q2.dying : l.place = s => l.hellos_out <= DEAD_LINK_CNT
    PROVE  EndOK(l, q2)
<1>1. l \in Network_Leg /\ Placed(l) /\ HellosDue(l, q) /\ EventsFound(l, q) BY DEF EndOK
<1>2. l.hellos_out \in Int BY <1>1, LegConstants DEF Network_Leg
<1>3. HellosDue(l, q2) BY <1>1, <1>2, LegConstants DEF HellosDue
<1>4. EventsFound(l, q2) BY <1>1 DEF EventsFound
<1>5. QED BY <1>1, <1>3, <1>4 DEF EndOK

\* Each part of a queue has its type.
LEMMA QueueParts ==
    ASSUME NEW q \in Queue
    PROVE  /\ q.hello \in [Places -> {"no", "later", "now"}]
           /\ q.counting \subseteq Places /\ q.asking \subseteq Places
           /\ q.dying \subseteq Places /\ q.syncing \subseteq Places
BY DEF Queue

\* An end in which nothing is placed has nothing queued that needs a control link.
LEMMA NothingPlaced ==
    ASSUME NEW l, NEW q, EndOK(l, q), l.place = NONE
    PROVE  /\ \A s \in Places : q.hello[s] = "no"
           /\ q.counting = {} /\ q.asking = {} /\ q.syncing = {}
<1>1. q \in Queue /\ EventsFound(l, q) BY DEF EndOK
<1>2. \A s \in Places : l.place # s BY LegConstants
<1>3. QED BY <1>1, <1>2, QueueParts DEF EventsFound

\* What a leg and its queue are before a step.
LEMMA EndBefore ==
    ASSUME LegInv, NEW e \in LegEnds
    PROVE  /\ leg \in [LegEnds -> Network_Leg] /\ queue \in [LegEnds -> Queue]
           /\ leg[e] \in Network_Leg /\ queue[e] \in Queue /\ EndOK(leg[e], queue[e])
BY DEF LegInv, LegTypeOK

\* Hello requests and the state packet.
LEMMA SendHelloRequestOK ==
    ASSUME LegInv, NEW e \in LegEnds, SendHelloRequest(e) \/ SendStateAll(e)
    PROVE  \E l, q : /\ EndOK(l, q) /\ leg' = [leg EXCEPT ![e] = l]
                     /\ queue' = [queue EXCEPT ![e] = q]
<1>1. /\ leg \in [LegEnds -> Network_Leg] /\ queue \in [LegEnds -> Queue]
      /\ leg[e] \in Network_Leg /\ queue[e] \in Queue /\ EndOK(leg[e], queue[e])
  BY EndBefore
<1>2. leg' = [leg EXCEPT ![e] = leg[e]] BY <1>1 DEF SendHelloRequest, SendStateAll
<1>3. CASE SendHelloRequest(e)
  <2> DEFINE q == [queue[e] EXCEPT !.asking = @ \ {leg[e].place}]
  <2>1. queue' = [queue EXCEPT ![e] = q] BY <1>1, <1>3 DEF SendHelloRequest
  <2>2. /\ q \in Queue /\ q.hello = queue[e].hello /\ q.counting = queue[e].counting
        /\ q.asking \subseteq queue[e].asking /\ q.syncing = queue[e].syncing
        /\ q.dying = queue[e].dying
    BY <1>1 DEF Queue
  <2> HIDE DEF q
  <2>3. EndOK(leg[e], q) BY <1>1, <2>2, FewerEventsOK
  <2>4. QED BY <1>2, <2>1, <2>3
<1>4. CASE SendStateAll(e)
  <2> DEFINE q == [queue[e] EXCEPT !.syncing = @ \ {leg[e].place}]
  <2>1. queue' = [queue EXCEPT ![e] = q] BY <1>1, <1>4 DEF SendStateAll
  <2>2. /\ q \in Queue /\ q.hello = queue[e].hello /\ q.counting = queue[e].counting
        /\ q.asking = queue[e].asking /\ q.syncing \subseteq queue[e].syncing
        /\ q.dying = queue[e].dying
    BY <1>1 DEF Queue
  <2> HIDE DEF q
  <2>3. EndOK(leg[e], q) BY <1>1, <2>2, FewerEventsOK
  <2>4. QED BY <1>2, <2>1, <2>3
<1>5. QED BY <1>3, <1>4

\* Dequeued takes everything from a place but Dead_Leg.
LEMMA DequeuedIs ==
    ASSUME NEW e \in LegEnds, queue[e] \in Queue, NEW s \in Places
    PROVE  /\ Dequeued(e, s) \in Queue
           /\ Dequeued(e, s).hello = [queue[e].hello EXCEPT ![s] = "no"]
           /\ Dequeued(e, s).counting = queue[e].counting \ {s}
           /\ Dequeued(e, s).asking = queue[e].asking \ {s}
           /\ Dequeued(e, s).syncing = queue[e].syncing \ {s}
           /\ Dequeued(e, s).dying = queue[e].dying
BY DEF Dequeued, Queue

\* Once everything was taken from the place of its control link, an end may be without.
LEMMA DequeuedOK ==
    ASSUME LegInv, NEW e \in LegEnds, NEW s \in Places, leg[e].place = s
    PROVE  /\ Dequeued(e, s) \in Queue
           /\ \A t \in Places : Dequeued(e, s).hello[t] = "no"
           /\ Dequeued(e, s).counting = {} /\ Dequeued(e, s).asking = {}
           /\ Dequeued(e, s).syncing = {} /\ EndOK(NoLink, Dequeued(e, s))
<1>1. queue[e] \in Queue /\ EndOK(leg[e], queue[e]) BY EndBefore
<1>2. EventsFound(leg[e], queue[e]) BY <1>1 DEF EndOK
<1>3. Dequeued(e, s) \in Queue BY <1>1, DequeuedIs
<1>11. /\ Dequeued(e, s).hello = [queue[e].hello EXCEPT ![s] = "no"]
       /\ Dequeued(e, s).counting = queue[e].counting \ {s}
       /\ Dequeued(e, s).asking = queue[e].asking \ {s}
       /\ Dequeued(e, s).syncing = queue[e].syncing \ {s}
  BY <1>1, DequeuedIs
<1>12. /\ queue[e].hello \in [Places -> {"no", "later", "now"}]
       /\ queue[e].counting \subseteq Places /\ queue[e].asking \subseteq Places
       /\ queue[e].syncing \subseteq Places
  BY <1>1, QueueParts
<1>4. \A t \in Places : Dequeued(e, s).hello[t] = "no"
  BY <1>2, <1>11, <1>12 DEF EventsFound
<1>5. /\ Dequeued(e, s).counting = {} /\ Dequeued(e, s).asking = {}
      /\ Dequeued(e, s).syncing = {}
  BY <1>2, <1>11, <1>12 DEF EventsFound
<1>6. NoLink \in Network_Leg /\ Placed(NoLink) BY NoLinkOK DEF EndOK
<1>7. NoLink.place = NONE BY DEF NoLink
<1> DEFINE d == Dequeued(e, s)
<1> HIDE DEF d
<1>8. HellosDue(NoLink, d) BY <1>7, LegConstants DEF HellosDue
<1>9. EventsFound(NoLink, d) BY <1>4, <1>5, <1>7, LegConstants DEF EventsFound, d
<1>10. QED BY <1>3, <1>4, <1>5, <1>6, <1>8, <1>9 DEF EndOK, d

\* Dead_Leg.
LEMMA DeadLegOK ==
    ASSUME LegInv, NEW e \in LegEnds, NEW s \in Places, DeadLeg(e, s)
    PROVE  \E l, q : /\ EndOK(l, q) /\ leg' = [leg EXCEPT ![e] = l]
                     /\ queue' = [queue EXCEPT ![e] = q]
<1>1. /\ leg \in [LegEnds -> Network_Leg] /\ queue \in [LegEnds -> Queue]
      /\ leg[e] \in Network_Leg /\ queue[e] \in Queue /\ EndOK(leg[e], queue[e])
  BY EndBefore
<1>2. CASE leg[e].place = s /\ leg[e].hellos_out >= DEAD_LINK_CNT
  <2> DEFINE d == Dequeued(e, s)
             q == [d EXCEPT !.dying = @ \ {s}]
  <2>1. queue' = [queue EXCEPT ![e] = q] /\ leg' = [leg EXCEPT ![e] = Disconnected]
    BY <1>2 DEF DeadLeg
  <2>2. d \in Queue /\ EndOK(NoLink, d) BY <1>2, DequeuedOK
  <2>3. EndOK(Disconnected, d) BY <2>2, NoLinkOK
  <2> HIDE DEF d
  <2>4. /\ q \in Queue /\ q.hello = d.hello /\ q.counting = d.counting
        /\ q.asking = d.asking /\ q.syncing = d.syncing
    BY <2>2 DEF Queue
  <2>5. Disconnected.place = NONE BY DEF Disconnected, NoLink
  <2>6. d.dying \subseteq Places BY <2>2, QueueParts
  <2> HIDE DEF q
  <2>7. EndOK(Disconnected, q) BY <2>3, <2>4, <2>5, <2>6, LegConstants, FewerEventsOK
  <2>8. QED BY <2>1, <2>7
<1>3. CASE ~(leg[e].place = s /\ leg[e].hellos_out >= DEAD_LINK_CNT)
  <2> DEFINE q == [queue[e] EXCEPT !.dying = @ \ {s}]
  <2>1. queue' = [queue EXCEPT ![e] = q] /\ leg' = [leg EXCEPT ![e] = leg[e]]
    BY <1>1, <1>3 DEF DeadLeg
  <2>2. /\ q \in Queue /\ q.hello = queue[e].hello /\ q.counting = queue[e].counting
        /\ q.asking = queue[e].asking /\ q.syncing = queue[e].syncing
        /\ q.dying = queue[e].dying \ {s}
    BY <1>1 DEF Queue
  <2>3. leg[e].hellos_out \in Int BY <1>1, LegConstants DEF Network_Leg
  <2>4. \A t \in queue[e].dying \ q.dying : leg[e].place = t => leg[e].hellos_out <= DEAD_LINK_CNT
    BY <1>3, <2>2, <2>3, LegConstants
  <2> HIDE DEF q
  <2>5. EndOK(leg[e], q) BY <1>1, <2>2, <2>4, FewerEventsOK
  <2>6. QED BY <2>1, <2>5
<1>4. QED BY <1>2, <1>3

\* The timeout that lets a leg rest, and the events of a state packet.
LEMMA RestingOK ==
    ASSUME LegInv, NEW e \in LegEnds, StableTimeout(e) \/ ReceiveState(e)
    PROVE  \E l, q : /\ EndOK(l, q) /\ leg' = [leg EXCEPT ![e] = l]
                     /\ queue' = [queue EXCEPT ![e] = q]
<1>1. /\ leg \in [LegEnds -> Network_Leg] /\ queue \in [LegEnds -> Queue]
      /\ leg[e] \in Network_Leg /\ queue[e] \in Queue /\ EndOK(leg[e], queue[e])
  BY EndBefore
<1>2. Placed(leg[e]) /\ HellosDue(leg[e], queue[e]) /\ EventsFound(leg[e], queue[e])
  BY <1>1 DEF EndOK
<1>3. CASE StableTimeout(e)
  <2> DEFINE l == [leg[e] EXCEPT !.resting = FALSE]
  <2>1. leg' = [leg EXCEPT ![e] = l] /\ queue' = [queue EXCEPT ![e] = queue[e]]
    BY <1>1, <1>3 DEF StableTimeout
  <2>2. /\ l \in Network_Leg /\ l.status = leg[e].status /\ l.place = leg[e].place
        /\ l.ctrl_link_id = leg[e].ctrl_link_id /\ l.hellos_out = leg[e].hellos_out
        /\ l.other_side_ctrl_link_id = leg[e].other_side_ctrl_link_id
        /\ l.connect_cnter = leg[e].connect_cnter
    BY <1>1 DEF Network_Leg
  <2> HIDE DEF l
  <2>3. Placed(l) /\ HellosDue(l, queue[e]) /\ EventsFound(l, queue[e])
    BY <1>2, <2>2 DEF Placed, HellosDue, EventsFound
  <2>4. QED BY <1>1, <2>1, <2>2, <2>3 DEF EndOK
<1>4. CASE ReceiveState(e)
  <2> DEFINE asks == /\ leg[e].status = "not_yet_connected"
                     /\ leg[e].other_side_ctrl_link_id = wire[e][1].id
             q == [queue[e] EXCEPT !.asking = IF asks THEN @ \cup {leg[e].place} ELSE @]
  <2>1. queue' = [queue EXCEPT ![e] = q] /\ leg' = [leg EXCEPT ![e] = leg[e]]
    BY <1>1, <1>4 DEF ReceiveState
  <2>2. asks => leg[e].place \in Places BY <1>1, <1>2 DEF Network_Leg, Placed
  <2> HIDE DEF asks
  <2>3. /\ q \in Queue /\ q.hello = queue[e].hello /\ q.counting = queue[e].counting
        /\ q.asking = IF asks THEN queue[e].asking \cup {leg[e].place} ELSE queue[e].asking
        /\ q.syncing = queue[e].syncing /\ q.dying = queue[e].dying
    BY <1>1, <2>2 DEF Queue
  <2> HIDE DEF q
  <2>4. HellosDue(leg[e], q) /\ EventsFound(leg[e], q)
    BY <1>2, <2>3 DEF HellosDue, EventsFound
  <2>5. QED BY <1>1, <1>2, <2>1, <2>3, <2>4 DEF EndOK
<1>5. QED BY <1>3, <1>4

\* An end that makes its control link when a ping comes in.
LEMMA ReceivePingOK ==
    ASSUME LegInv, NEW e \in LegEnds, ReceivePing(e)
    PROVE  \E l, q : /\ EndOK(l, q) /\ leg' = [leg EXCEPT ![e] = l]
                     /\ queue' = [queue EXCEPT ![e] = q]
<1>1. /\ leg \in [LegEnds -> Network_Leg] /\ queue \in [LegEnds -> Queue]
      /\ leg[e] \in Network_Leg /\ queue[e] \in Queue /\ EndOK(leg[e], queue[e])
  BY EndBefore
<1>2. CASE leg[e].place # NONE
  <2>1. leg' = [leg EXCEPT ![e] = leg[e]] /\ queue' = [queue EXCEPT ![e] = queue[e]]
    BY <1>1, <1>2 DEF ReceivePing
  <2>2. QED BY <1>1, <2>1
<1>3. CASE leg[e].place = NONE
  <2>1. PICK s \in Places : /\ leg' = [leg EXCEPT ![e] = Created(e, s)]
                            /\ queue' = [queue EXCEPT ![e].hello[s] = "later"]
    BY <1>3 DEF ReceivePing
  <2> DEFINE l == Created(e, s)
             q == [queue[e] EXCEPT !.hello = [@ EXCEPT ![s] = "later"]]
  <2>2. queue' = [queue EXCEPT ![e] = q] BY <1>1, <2>1 DEF Queue
  <2>3. /\ \A t \in Places : queue[e].hello[t] = "no"
        /\ queue[e].counting = {} /\ queue[e].asking = {} /\ queue[e].syncing = {}
    BY <1>1, <1>3, NothingPlaced
  <2>4. /\ q \in Queue /\ q.hello = [queue[e].hello EXCEPT ![s] = "later"]
        /\ q.counting = {} /\ q.asking = {} /\ q.syncing = {}
    BY <1>1, <2>3 DEF Queue
  <2>5. queue[e].hello \in [Places -> {"no", "later", "now"}] BY <1>1, QueueParts
  <2>6. /\ l = [status |-> "not_yet_connected", place |-> s,
                  ctrl_link_id |-> FreshId(e), other_side_ctrl_link_id |-> 0,
                  hellos_out |-> 0, connect_cnter |-> 0, resting |-> FALSE]
        /\ FreshId(e) \in Nat /\ FreshId(e) # 0 /\ s # NONE
    BY CreatedIs
  <2> HIDE DEF l, q
  <2>7. EndOK(l, q)
    <3>1. 0 \in 0..(DEAD_LINK_CNT + 1) /\ ~(0 > DEAD_LINK_CNT) BY LegConstants
    <3>2. l \in Network_Leg BY <2>6, <3>1 DEF Network_Leg
    <3>3. Placed(l) BY <2>6 DEF Placed
    <3>4. HellosDue(l, q) BY <2>4, <2>5, <2>6, <3>1 DEF HellosDue
    <3>5. EventsFound(l, q) BY <2>3, <2>4, <2>5, <2>6 DEF EventsFound
    <3>6. QED BY <2>4, <3>2, <3>3, <3>4, <3>5 DEF EndOK
  <2>8. QED BY <2>1, <2>2, <2>7 DEF l
<1>4. QED BY <1>2, <1>3

\* An end that starts anew because the other end has another control link.
LEMMA ReceiveStrangeHelloOK ==
    ASSUME LegInv, NEW e \in LegEnds, ReceiveStrangeHello(e)
    PROVE  \E l, q : /\ EndOK(l, q) /\ leg' = [leg EXCEPT ![e] = l]
                     /\ queue' = [queue EXCEPT ![e] = q]
<1>1. /\ leg \in [LegEnds -> Network_Leg] /\ queue \in [LegEnds -> Queue]
      /\ leg[e] \in Network_Leg /\ queue[e] \in Queue /\ EndOK(leg[e], queue[e])
  BY EndBefore
<1> DEFINE d == Dequeued(e, leg[e].place)
<1>2. leg[e].place \in Places
  <2>1. leg[e].other_side_ctrl_link_id # 0 BY DEF ReceiveStrangeHello
  <2>2. QED BY <1>1, <2>1 DEF EndOK, Placed, Network_Leg
<1>3. /\ d \in Queue /\ \A t \in Places : d.hello[t] = "no"
      /\ d.counting = {} /\ d.asking = {} /\ d.syncing = {}
  BY <1>2, DequeuedOK
<1>4. PICK s \in Places : /\ leg' = [leg EXCEPT ![e] = [Created(e, s) EXCEPT !.hellos_out = 1]]
                          /\ queue' = [queue EXCEPT ![e] = [d EXCEPT !.hello[s] = "later"]]
  BY DEF ReceiveStrangeHello
<1> DEFINE l == [Created(e, s) EXCEPT !.hellos_out = 1]
           q == [d EXCEPT !.hello[s] = "later"]
<1>5. /\ Created(e, s) = [status |-> "not_yet_connected", place |-> s,
                ctrl_link_id |-> FreshId(e), other_side_ctrl_link_id |-> 0,
                hellos_out |-> 0, connect_cnter |-> 0, resting |-> FALSE]
      /\ FreshId(e) \in Nat /\ FreshId(e) # 0 /\ s # NONE
  BY CreatedIs
<1>6. /\ l \in Network_Leg /\ l.status = "not_yet_connected" /\ l.place = s /\ l.ctrl_link_id # 0
      /\ l.other_side_ctrl_link_id = 0 /\ l.hellos_out = 1 /\ l.connect_cnter = 0
  <2>1. 0 \in 0..(DEAD_LINK_CNT + 1) /\ 1 \in 0..(DEAD_LINK_CNT + 1) BY LegConstants
  <2>2. Created(e, s) \in Network_Leg BY <1>5, <2>1 DEF Network_Leg
  <2>3. /\ Created(e, s).status = "not_yet_connected" /\ Created(e, s).place = s
        /\ Created(e, s).ctrl_link_id # 0 /\ Created(e, s).other_side_ctrl_link_id = 0
        /\ Created(e, s).connect_cnter = 0
    BY <1>5
  <2>4. QED BY <2>1, <2>2, <2>3 DEF Network_Leg
<1> HIDE DEF d
<1>7. /\ q \in Queue /\ q.hello = [d.hello EXCEPT ![s] = "later"]
      /\ q.counting = {} /\ q.asking = {} /\ q.syncing = {}
  BY <1>3 DEF Queue
<1>8. d.hello \in [Places -> {"no", "later", "now"}] BY <1>3, QueueParts
<1> HIDE DEF l, q
<1>9. EndOK(l, q)
  <2>1. ~(1 > DEAD_LINK_CNT) BY LegConstants
  <2>2. Placed(l) BY <1>5, <1>6 DEF Placed
  <2>3. HellosDue(l, q) BY <1>6, <1>7, <1>8, <2>1 DEF HellosDue
  <2>4. EventsFound(l, q) BY <1>3, <1>6, <1>7, <1>8 DEF EventsFound
  <2>5. QED BY <1>6, <1>7, <2>2, <2>3, <2>4 DEF EndOK
<1>10. QED BY <1>4, <1>9 DEF l, q

\* A hello that is heard at a control link, old, with nothing queued elsewhere.
LEMMA HeardOK ==
    ASSUME LegInv, NEW e \in LegEnds, NEW s \in Places, NEW old \in Network_Leg, Placed(old),
           old.place = s, NEW m \in Datagram, m.id # 0, Heard(e, old, m, s),
           \A t \in Places : t # s => queue[e].hello[t] = "no",
           queue[e].counting \subseteq {s}, queue[e].asking \subseteq {s},
           queue[e].syncing \subseteq {s}, queue[e].syncing # {} => old.status = "connected"
    PROVE  \E l, q : /\ EndOK(l, q) /\ leg' = [leg EXCEPT ![e] = l]
                     /\ queue' = [queue EXCEPT ![e] = q]
<1> DEFINE cnt == IF old.status = "connected" THEN old.connect_cnter ELSE old.connect_cnter + 1
           connects == old.status # "connected" /\ cnt >= CONNECT_LINK_CNT
           new == [old EXCEPT !.other_side_ctrl_link_id = m.id, !.hellos_out = 0,
                              !.connect_cnter = cnt]
           l == IF connects THEN [new EXCEPT !.status = "connected"] ELSE new
           due == IF connects \/ m.type = "hello_req" THEN "now"
                  ELSE IF queue[e].hello[s] = "no" THEN "later" ELSE queue[e].hello[s]
           q == [queue[e] EXCEPT !.hello = [@ EXCEPT ![s] = due],
                     !.counting = @ \ {s},
                     !.syncing = IF connects THEN @ \cup {s} ELSE @]
<1>1. /\ leg \in [LegEnds -> Network_Leg] /\ queue \in [LegEnds -> Queue]
      /\ queue[e] \in Queue
  BY EndBefore
<1>2. queue[e].hello \in [Places -> {"no", "later", "now"}] BY <1>1, QueueParts
<1>3. s # NONE /\ m.id \in Nat /\ old.connect_cnter \in Nat /\ cnt \in Nat
  BY LegConstants DEF Network_Leg, Datagram
<1>4. new.status = old.status /\ new.connect_cnter = cnt BY DEF Network_Leg
<1>5. leg' = [leg EXCEPT ![e] = l] BY <1>1, <1>4 DEF Heard
<1>6. queue' = [queue EXCEPT ![e] = q]
  <2>1. queue' = [queue EXCEPT
              ![e].hello[s] = IF connects \/ m.type = "hello_req" THEN "now"
                              ELSE IF @ = "no" THEN "later" ELSE @,
              ![e].counting = @ \ {s},
              ![e].syncing = IF connects THEN @ \cup {s} ELSE @]
    BY <1>4 DEF Heard
  <2> HIDE DEF connects
  <2>2. QED BY <1>1, <1>2, <2>1 DEF Queue
<1>7. due \in {"later", "now"} BY <1>2
<1> HIDE DEF connects, cnt, due
<1>8. /\ l \in Network_Leg /\ l.place = s /\ l.hellos_out = 0 /\ l.ctrl_link_id = old.ctrl_link_id
      /\ l.other_side_ctrl_link_id = m.id
      /\ l.status = IF connects THEN "connected" ELSE old.status
  <2>1. 0 \in 0..(DEAD_LINK_CNT + 1) BY LegConstants
  <2>2. /\ new \in Network_Leg /\ new.place = s /\ new.hellos_out = 0
        /\ new.ctrl_link_id = old.ctrl_link_id /\ new.other_side_ctrl_link_id = m.id
        /\ new.status = old.status
    BY <1>3, <2>1 DEF Network_Leg
  <2> HIDE DEF new
  <2>3. QED BY <2>2 DEF Network_Leg
<1>9. /\ q \in Queue /\ q.hello = [queue[e].hello EXCEPT ![s] = due]
      /\ q.counting = queue[e].counting \ {s} /\ q.asking = queue[e].asking
      /\ q.syncing = IF connects THEN queue[e].syncing \cup {s} ELSE queue[e].syncing
  BY <1>1, <1>7 DEF Queue
<1> HIDE DEF l, q
<1>10. Placed(l) BY <1>3, <1>8 DEF Placed
<1>11. HellosDue(l, q)
  <2>1. ~(0 > DEAD_LINK_CNT) BY LegConstants
  <2>2. QED BY <1>8, <2>1 DEF HellosDue
<1>12. EventsFound(l, q) BY <1>2, <1>7, <1>8, <1>9 DEF EventsFound
<1>13. QED BY <1>5, <1>6, <1>8, <1>9, <1>10, <1>11, <1>12 DEF EndOK

\* A hello that comes in when the end takes it.
LEMMA ReceiveHelloOK ==
    ASSUME LegInv, NEW e \in LegEnds, ReceiveHello(e)
    PROVE  \E l, q : /\ EndOK(l, q) /\ leg' = [leg EXCEPT ![e] = l]
                     /\ queue' = [queue EXCEPT ![e] = q]
<1> DEFINE m == wire[e][1]
<1>1. /\ leg \in [LegEnds -> Network_Leg] /\ queue \in [LegEnds -> Queue]
      /\ leg[e] \in Network_Leg /\ queue[e] \in Queue /\ EndOK(leg[e], queue[e])
  BY EndBefore
<1>2. m \in Datagram /\ m.id # 0
  <2>1. wire[e] \in Seq(Datagram) /\ wire[e] # <<>> /\ m.type \in HelloTypes
    BY DEF LegInv, LegTypeOK, Datagram, ReceiveHello, Reads
  <2>2. 1 \in 1..Len(wire[e]) BY <2>1
  <2>3. QED BY <2>1, <2>2 DEF LegInv, WireHolds
<1> HIDE DEF m
<1>3. CASE leg[e].place # NONE
  <2> DEFINE s == leg[e].place
  <2>1. Heard(e, leg[e], m, s) BY <1>3 DEF ReceiveHello, m
  <2>2. s \in Places /\ Placed(leg[e]) BY <1>1, <1>3 DEF Network_Leg, EndOK
  <2>3. /\ \A t \in Places : t # s => queue[e].hello[t] = "no"
        /\ queue[e].counting \subseteq {s} /\ queue[e].asking \subseteq {s}
        /\ queue[e].syncing \subseteq {s}
        /\ queue[e].syncing # {} => leg[e].status = "connected"
    BY <1>1, QueueParts DEF EndOK, EventsFound
  <2> HIDE DEF s
  <2>4. s = leg[e].place BY DEF s
  <2>5. QED BY <1>1, <1>2, <2>1, <2>2, <2>3, <2>4, HeardOK
<1>4. CASE leg[e].place = NONE
  <2>1. PICK s \in Places : Heard(e, Created(e, s), m, s) BY <1>4 DEF ReceiveHello, m
  <2>2. /\ Created(e, s) = [status |-> "not_yet_connected", place |-> s,
                ctrl_link_id |-> FreshId(e), other_side_ctrl_link_id |-> 0,
                hellos_out |-> 0, connect_cnter |-> 0, resting |-> FALSE]
        /\ FreshId(e) \in Nat /\ FreshId(e) # 0 /\ s # NONE
    BY CreatedIs
  <2>3. Created(e, s) \in Network_Leg
    <3>1. 0 \in 0..(DEAD_LINK_CNT + 1) BY LegConstants
    <3>2. QED BY <2>2, <3>1 DEF Network_Leg
  <2>4. Placed(Created(e, s)) /\ Created(e, s).place = s BY <2>2 DEF Placed
  <2>5. /\ \A t \in Places : queue[e].hello[t] = "no"
        /\ queue[e].counting = {} /\ queue[e].asking = {} /\ queue[e].syncing = {}
    BY <1>1, <1>4, NothingPlaced
  <2>6. QED BY <1>2, <2>1, <2>3, <2>4, <2>5, HeardOK
<1>5. QED BY <1>3, <1>4

\* A daemon that crashes.
LEMMA CrashOK ==
    ASSUME LegInv, NEW e \in LegEnds, Crash(e)
    PROVE  \E l, q : /\ EndOK(l, q) /\ leg' = [leg EXCEPT ![e] = l]
                     /\ queue' = [queue EXCEPT ![e] = q]
BY NoLinkOK DEF Crash

\* Every step changes one end, to a good state.
LEMMA EndChanges ==
    ASSUME LegInv, [LegNext]_legVars
    PROVE  \E e \in LegEnds : \E l, q :
              EndOK(l, q) /\ leg' = [leg EXCEPT ![e] = l] /\ queue' = [queue EXCEPT ![e] = q]
<1> DEFINE Changes(e) == \E l, q : /\ EndOK(l, q) /\ leg' = [leg EXCEPT ![e] = l]
                                   /\ queue' = [queue EXCEPT ![e] = q]
<1>1. ASSUME NEW e \in LegEnds, UNCHANGED <<leg, queue>> PROVE Changes(e)
  <2>1. /\ leg \in [LegEnds -> Network_Leg] /\ queue \in [LegEnds -> Queue]
        /\ EndOK(leg[e], queue[e])
    BY EndBefore
  <2>2. leg' = [leg EXCEPT ![e] = leg[e]] /\ queue' = [queue EXCEPT ![e] = queue[e]]
    BY <1>1, <2>1
  <2>3. QED BY <2>1, <2>2
<1>2. ASSUME NEW e \in LegEnds, SendHello(e) PROVE Changes(e) BY <1>2, SendHelloOK
<1>3. ASSUME NEW e \in LegEnds, SendHelloRequestCnt(e) PROVE Changes(e)
  BY <1>1, <1>3 DEF SendHelloRequestCnt
<1>4. ASSUME NEW e \in LegEnds, SendHelloRequest(e) \/ SendStateAll(e) PROVE Changes(e)
  BY <1>4, SendHelloRequestOK
<1>5. ASSUME NEW e \in LegEnds, SendHelloPing(e) PROVE Changes(e) BY <1>1, <1>5 DEF SendHelloPing
<1>6. ASSUME NEW e \in LegEnds, NEW s \in Places, DeadLeg(e, s) PROVE Changes(e)
  BY <1>6, DeadLegOK
<1>7. ASSUME NEW e \in LegEnds, StableTimeout(e) \/ ReceiveState(e) PROVE Changes(e)
  BY <1>7, RestingOK
<1>8. ASSUME NEW e \in LegEnds, RefuseHello(e) PROVE Changes(e) BY <1>1, <1>8 DEF RefuseHello
<1>9. ASSUME NEW e \in LegEnds, ReceivePing(e) PROVE Changes(e) BY <1>9, ReceivePingOK
<1>10. ASSUME NEW e \in LegEnds, ReceiveStrangeHello(e) PROVE Changes(e)
  BY <1>10, ReceiveStrangeHelloOK
<1>11. ASSUME NEW e \in LegEnds, ReceiveHello(e) PROVE Changes(e) BY <1>11, ReceiveHelloOK
<1>12. ASSUME NEW e \in LegEnds, Lose(e) \/ Overtake(e) PROVE Changes(e)
  BY <1>1, <1>12 DEF Lose, Overtake
<1>13. ASSUME NEW e \in LegEnds, Crash(e) PROVE Changes(e) BY <1>13, CrashOK
<1>14. CASE UNCHANGED legVars
  <2>1. 0 \in LegEnds BY DEF LegEnds
  <2>2. Changes(0) BY <1>1, <1>14, <2>1 DEF legVars
  <2>3. QED BY <2>1, <2>2
<1> HIDE DEF Changes
<1>15. CASE LegNext
  <2>1. PICK e \in LegEnds :
            \/ SendHello(e) \/ SendHelloRequestCnt(e) \/ SendHelloRequest(e)
            \/ SendHelloPing(e) \/ SendStateAll(e) \/ \E s \in Places : DeadLeg(e, s)
            \/ StableTimeout(e) \/ RefuseHello(e) \/ ReceivePing(e)
            \/ ReceiveStrangeHello(e) \/ ReceiveHello(e) \/ ReceiveState(e)
            \/ Lose(e) \/ Overtake(e) \/ Crash(e)
    BY <1>15, Zenon DEF LegNext
  <2>2. Changes(e)
    BY <2>1, <1>2, <1>3, <1>4, <1>5, <1>6, <1>7, <1>8, <1>9, <1>10, <1>11, <1>12, <1>13, Zenon
  <2>3. QED BY <2>2 DEF Changes
<1>16. QED BY <1>14, <1>15

-----------------------------------------------------------------------------
(* The wire *)

\* What is on its way to end e: no more than the network holds, and a hello has an id.
WireOK(w, e) ==
    /\ w \in Seq(Datagram) /\ Len(w) <= WireCap[e]
    /\ \A i \in 1..Len(w) : w[i].type \in HelloTypes => w[i].id # 0

\* A datagram is sent when there is room.
LEMMA AppendOK ==
    ASSUME NEW e \in LegEnds, NEW w, WireOK(w, e), Len(w) < WireCap[e], NEW m \in Datagram,
           m.type \in HelloTypes => m.id # 0
    PROVE  WireOK(Append(w, m), e)
<1> DEFINE v == Append(w, m)
<1>1. WireCap[e] \in Nat /\ w \in Seq(Datagram) /\ Len(w) \in Nat BY LegConstants DEF WireOK
<1>2. v \in Seq(Datagram) /\ Len(v) = Len(w) + 1 BY <1>1
<1>3. ASSUME NEW i \in 1..Len(v), v[i].type \in HelloTypes PROVE v[i].id # 0
  <2>1. CASE i = Len(w) + 1
    <3>1. v[i] = m BY <1>1, <2>1
    <3>2. QED BY <1>3, <3>1
  <2>2. CASE i # Len(w) + 1
    <3>1. i \in 1..Len(w) BY <1>1, <1>2, <2>2
    <3>2. v[i] = w[i] BY <1>1, <3>1
    <3>3. QED BY <1>3, <3>1, <3>2 DEF WireOK
  <2>3. QED BY <2>1, <2>2
<1>4. Len(v) <= WireCap[e] BY <1>1, <1>2
<1>5. QED BY <1>2, <1>3, <1>4 DEF WireOK

\* The items of the tail of a sequence.
LEMMA TailItems ==
    ASSUME NEW w \in Seq(Datagram), w # <<>>
    PROVE  /\ Tail(w) \in Seq(Datagram) /\ Len(Tail(w)) = Len(w) - 1 /\ Len(w) \in Nat \ {0}
           /\ \A i \in 1..Len(Tail(w)) : i + 1 \in 1..Len(w) /\ Tail(w)[i] = w[i + 1]
OBVIOUS

\* A datagram is read or lost.
LEMMA TailOK ==
    ASSUME NEW e \in LegEnds, NEW w, WireOK(w, e), w # <<>>
    PROVE  WireOK(Tail(w), e)
<1>1. w \in Seq(Datagram) BY DEF WireOK
<1>2. WireCap[e] \in Nat BY LegConstants
<1> DEFINE t == Tail(w)
<1>3. /\ t \in Seq(Datagram) /\ Len(t) = Len(w) - 1 /\ Len(w) \in Nat \ {0}
      /\ \A i \in 1..Len(t) : i + 1 \in 1..Len(w) /\ t[i] = w[i + 1]
  BY <1>1, TailItems
<1> HIDE DEF t
<1>4. QED BY <1>2, <1>3 DEF WireOK, t

\* Where the items go when the last overtakes the others.
LEMMA OvertakenItems ==
    ASSUME NEW w \in Seq(Datagram), Len(w) > 1
    PROVE  LET v == <<Last(w)>> \o Front(w)
           IN  /\ v \in Seq(Datagram) /\ Len(v) = Len(w) /\ Len(w) \in Nat /\ v[1] = w[Len(w)]
               /\ \A i \in 2..Len(w) : v[i] = w[i - 1]
<1> DEFINE f == Front(w)
           v == <<Last(w)>> \o f
<1>1. Len(w) \in Nat /\ w[Len(w)] \in Datagram OBVIOUS
<1>2. f = SubSeq(w, 1, Len(w) - 1) BY DEF Front
<1>3. f \in Seq(Datagram) /\ Len(f) = Len(w) - 1 BY <1>1, <1>2
<1>4. \A i \in 1..Len(f) : f[i] = w[i] BY <1>1, <1>2, <1>3
<1>5. Last(w) = w[Len(w)] BY DEF Last
<1> HIDE DEF f
<1> DEFINE h == <<Last(w)>>
<1>6. h \in Seq(Datagram) /\ Len(h) = 1 /\ h[1] = w[Len(w)] BY <1>1, <1>5
<1> HIDE DEF h
<1>7. v = h \o f BY DEF h
<1>8. v \in Seq(Datagram) /\ Len(v) = Len(w) BY <1>1, <1>3, <1>6, <1>7
<1>9. v[1] = w[Len(w)] BY <1>1, <1>3, <1>6, <1>7
<1>10. ASSUME NEW i \in 2..Len(w) PROVE v[i] = w[i - 1]
  <2>1. i - 1 \in 1..Len(f) BY <1>1, <1>3
  <2>2. v[i] = f[i - 1] BY <1>1, <1>3, <1>6, <1>7
  <2>3. QED BY <1>4, <2>1, <2>2
<1>11. QED BY <1>1, <1>8, <1>9, <1>10 DEF h, f

\* The last datagram overtakes the others.
LEMMA OvertakenOK ==
    ASSUME NEW e \in LegEnds, NEW w, WireOK(w, e), Len(w) > 1
    PROVE  WireOK(<<Last(w)>> \o Front(w), e)
<1> DEFINE v == <<Last(w)>> \o Front(w)
<1>1. w \in Seq(Datagram) BY DEF WireOK
<1>2. /\ v \in Seq(Datagram) /\ Len(v) = Len(w) /\ Len(w) \in Nat /\ v[1] = w[Len(w)]
      /\ \A i \in 2..Len(w) : v[i] = w[i - 1]
  BY <1>1, OvertakenItems
<1> HIDE DEF v
<1>3. ASSUME NEW i \in 1..Len(v) PROVE \E j \in 1..Len(w) : v[i] = w[j]
  <2>1. CASE i = 1 BY <1>2, <2>1
  <2>2. CASE i # 1
    <3>1. i \in 2..Len(w) /\ i - 1 \in 1..Len(w) BY <1>2, <2>2
    <3>2. QED BY <1>2, <3>1
  <2>3. QED BY <2>1, <2>2
<1>4. QED BY <1>2, <1>3 DEF WireOK, v

\* How a step of end e changes the wires.
WireChanges(e) ==
    \/ wire' = wire
    \/ wire[e] # <<>> /\ wire' = Rest(e)
    \/ \E m \in Datagram :
          /\ Room(e) /\ m.id = leg[e].ctrl_link_id
          /\ m.type \in HelloTypes => m.id # 0
          /\ wire' = [wire EXCEPT ![Other(e)] = Append(@, m)]
    \/ /\ wire[e] # <<>> /\ Room(e)
       /\ wire' = [Rest(e) EXCEPT ![Other(e)] =
                       Append(@, [type |-> "hello", id |-> FreshId(e)])]
    \/ Len(wire[e]) > 1 /\ wire' = [wire EXCEPT ![e] = <<Last(@)>> \o Front(@)]

\* Sends, with an id if it sends a hello.
LEMMA SendsChanges ==
    ASSUME LegInv, NEW e \in LegEnds,
           NEW type \in {"ping", "hello", "hello_req", "state"},
           type \in HelloTypes => leg[e].place \in Places, Sends(e, type)
    PROVE  WireChanges(e)
<1> DEFINE m == [type |-> type, id |-> leg[e].ctrl_link_id]
<1>1. leg[e] \in Network_Leg /\ Placed(leg[e]) BY EndBefore DEF EndOK
<1>2. m \in Datagram /\ m.id = leg[e].ctrl_link_id /\ m.type = type
  BY <1>1 DEF Network_Leg, Datagram
<1>3. type \in HelloTypes => m.id # 0 BY <1>1, <1>2, LegConstants DEF Placed
<1>4. Room(e) /\ wire' = [wire EXCEPT ![Other(e)] = Append(@, m)] BY DEF Sends
<1> HIDE DEF m
<1>5. QED BY <1>2, <1>3, <1>4 DEF WireChanges

\* Every step of an end changes the wires in one of these ways.
LEMMA StepChangesWires ==
    ASSUME LegInv, NEW e \in LegEnds,
           \/ SendHello(e) \/ SendHelloRequestCnt(e) \/ SendHelloRequest(e)
           \/ SendHelloPing(e) \/ SendStateAll(e) \/ \E s \in Places : DeadLeg(e, s)
           \/ StableTimeout(e) \/ RefuseHello(e) \/ ReceivePing(e)
           \/ ReceiveStrangeHello(e) \/ ReceiveHello(e) \/ ReceiveState(e)
           \/ Lose(e) \/ Overtake(e) \/ Crash(e)
    PROVE  WireChanges(e)
<1>1. /\ leg[e] \in Network_Leg /\ queue[e] \in Queue
      /\ queue[e].counting \subseteq Places /\ queue[e].asking \subseteq Places
  BY EndBefore, QueueParts
<1>2. CASE SendHello(e)
  <2>1. leg[e].place \in Places BY <1>1, <1>2 DEF SendHello, Network_Leg
  <2>2. QED BY <1>2, <2>1, SendsChanges DEF SendHello
<1>3. CASE SendHelloRequestCnt(e) \/ SendHelloRequest(e)
  <2>1. leg[e].place \in Places BY <1>1, <1>3 DEF SendHelloRequestCnt, SendHelloRequest
  <2>2. QED BY <1>3, <2>1, SendsChanges DEF SendHelloRequestCnt, SendHelloRequest
<1>4. CASE SendHelloPing(e) \/ SendStateAll(e)
  <2>1. Sends(e, "ping") \/ Sends(e, "state") BY <1>4 DEF SendHelloPing, SendStateAll
  <2>2. "ping" \notin HelloTypes /\ "state" \notin HelloTypes BY DEF HelloTypes
  <2>3. QED BY <2>1, <2>2, SendsChanges
<1>5. CASE \/ \E s \in Places : DeadLeg(e, s)
           \/ StableTimeout(e) \/ Crash(e)
  BY <1>5 DEF WireChanges, DeadLeg, StableTimeout, Crash
<1>6. CASE \/ RefuseHello(e) \/ ReceivePing(e) \/ ReceiveHello(e) \/ ReceiveState(e) \/ Lose(e)
  BY <1>6 DEF WireChanges, RefuseHello, ReceivePing, ReceiveHello, ReceiveState, Lose, Reads
<1>7. CASE ReceiveStrangeHello(e)
  BY <1>7 DEF WireChanges, ReceiveStrangeHello, Reads
<1>8. CASE Overtake(e) BY <1>8 DEF WireChanges, Overtake
<1>9. QED BY <1>2, <1>3, <1>4, <1>5, <1>6, <1>7, <1>8

\* However an end changes them, the wires stay within their bounds.
LEMMA WiresStayOK ==
    ASSUME LegInv, NEW e \in LegEnds, WireChanges(e)
    PROVE  wire' \in [LegEnds -> Seq(Datagram)] /\ \A d \in LegEnds : WireOK(wire'[d], d)
<1> DEFINE o == Other(e)
<1>1. o \in LegEnds /\ o # e /\ \A d \in LegEnds : d = e \/ d = o
  BY OtherEnd DEF LegEnds, Other
<1>2. wire \in [LegEnds -> Seq(Datagram)] BY DEF LegInv, LegTypeOK, Datagram
<1>3. \A d \in LegEnds : WireOK(wire[d], d) BY <1>2 DEF LegInv, WireHolds, WireOK
<1>4. ASSUME NEW v, NEW w, WireOK(v, e), WireOK(w, o),
             wire' = [wire EXCEPT ![e] = v, ![o] = w]
      PROVE  wire' \in [LegEnds -> Seq(Datagram)] /\ \A d \in LegEnds : WireOK(wire'[d], d)
  <2>1. v \in Seq(Datagram) /\ w \in Seq(Datagram) BY <1>4 DEF WireOK
  <2> HIDE DEF o
  <2>2. wire'[e] = v /\ wire'[o] = w BY <1>1, <1>2, <1>4
  <2>3. QED BY <1>1, <1>2, <1>4, <2>1, <2>2
<1>5. Room(e) => Len(wire[o]) < WireCap[o] BY DEF Room
<1> HIDE DEF o
<1>6. CASE wire' = wire
  BY <1>2, <1>3, <1>6
<1>7. CASE wire[e] # <<>> /\ wire' = Rest(e)
  <2>1. wire' = [wire EXCEPT ![e] = Tail(wire[e]), ![o] = wire[o]] BY <1>1, <1>2, <1>7 DEF Rest
  <2>2. WireOK(Tail(wire[e]), e) BY <1>3, <1>7, TailOK
  <2>3. QED BY <1>1, <1>3, <1>4, <2>1, <2>2
<1>8. ASSUME NEW m \in Datagram, Room(e), m.type \in HelloTypes => m.id # 0,
             wire' = [wire EXCEPT ![o] = Append(@, m)]
      PROVE  wire' \in [LegEnds -> Seq(Datagram)] /\ \A d \in LegEnds : WireOK(wire'[d], d)
  <2>1. wire' = [wire EXCEPT ![e] = wire[e], ![o] = Append(wire[o], m)] BY <1>1, <1>2, <1>8
  <2>2. WireOK(Append(wire[o], m), o) BY <1>1, <1>3, <1>5, <1>8, AppendOK
  <2>3. QED BY <1>1, <1>3, <1>4, <2>1, <2>2
<1>9. CASE /\ wire[e] # <<>> /\ Room(e)
           /\ wire' = [Rest(e) EXCEPT ![o] = Append(@, [type |-> "hello", id |-> FreshId(e)])]
  <2> DEFINE m == [type |-> "hello", id |-> FreshId(e)]
  <2>1. FreshId(e) \in Nat /\ FreshId(e) # 0 BY FreshIdIsFresh DEF LegInv
  <2>2. m \in Datagram /\ m.id # 0 BY <2>1 DEF Datagram
  <2>3. wire' = [Rest(e) EXCEPT ![o] = Append(@, m)] BY <1>9
  <2> HIDE DEF m
  <2>4. wire' = [wire EXCEPT ![e] = Tail(wire[e]), ![o] = Append(wire[o], m)]
    BY <1>1, <1>2, <2>3 DEF Rest
  <2>5. WireOK(Tail(wire[e]), e) BY <1>3, <1>9, TailOK
  <2>6. WireOK(Append(wire[o], m), o) BY <1>1, <1>3, <1>5, <1>9, <2>2, AppendOK
  <2>7. QED BY <1>4, <2>4, <2>5, <2>6
<1>10. CASE Len(wire[e]) > 1 /\ wire' = [wire EXCEPT ![e] = <<Last(@)>> \o Front(@)]
  <2> DEFINE v == <<Last(wire[e])>> \o Front(wire[e])
  <2>1. WireOK(v, e) BY <1>3, <1>10, OvertakenOK
  <2>2. wire' = [wire EXCEPT ![e] = v] BY <1>10
  <2> HIDE DEF v
  <2>3. wire' = [wire EXCEPT ![e] = v, ![o] = wire[o]] BY <1>1, <1>2, <2>2
  <2>4. QED BY <1>1, <1>3, <1>4, <2>1, <2>3
<1>11. QED BY <1>6, <1>7, <1>8, <1>9, <1>10 DEF WireChanges, o

-----------------------------------------------------------------------------
(* The invariant *)

\* Every step is a step of an end.
LEMMA StepOfAnEnd ==
    ASSUME LegNext
    PROVE  \E e \in LegEnds :
              \/ SendHello(e) \/ SendHelloRequestCnt(e) \/ SendHelloRequest(e)
              \/ SendHelloPing(e) \/ SendStateAll(e) \/ \E s \in Places : DeadLeg(e, s)
              \/ StableTimeout(e) \/ RefuseHello(e) \/ ReceivePing(e)
              \/ ReceiveStrangeHello(e) \/ ReceiveHello(e) \/ ReceiveState(e)
              \/ Lose(e) \/ Overtake(e) \/ Crash(e)
BY Zenon DEF LegNext

\* What went wrong and the history keep their types.
LEMMA HistoryTypes ==
    ASSUME LegInv, [LegNext]_legVars
    PROVE  faults' \subseteq {"loss", "overtaking", "crash"} /\ stale' \in [LegEnds -> SUBSET Nat]
<1>1. /\ faults \subseteq {"loss", "overtaking", "crash"} /\ stale \in [LegEnds -> SUBSET Nat]
      /\ wire \in [LegEnds -> Seq(Datagram)]
  BY DEF LegInv, LegTypeOK, Datagram
<1>2. ASSUME NEW e \in LegEnds, NoteLink(e) PROVE stale' \in [LegEnds -> SUBSET Nat]
  <2>1. Ids(e) \subseteq Nat
    <3>1. wire[e] \in Seq(Datagram) BY <1>1
    <3>2. \A i \in 1..Len(wire[e]) : wire[e][i] \in Datagram BY <3>1
    <3>3. QED BY <3>2 DEF Ids, Datagram
  <2> DEFINE a == Ids(e) \ {leg[Other(e)].ctrl_link_id}
             f == FreshId(e)
  <2>2. stale' = [stale EXCEPT ![e] = a, ![Other(e)] = @ \ {f}] BY <1>2 DEF NoteLink
  <2>3. a \subseteq Nat BY <2>1
  <2> HIDE DEF a, f
  <2>4. QED BY <1>1, <2>2, <2>3, OtherEnd
<1>3. CASE UNCHANGED legVars BY <1>1, <1>3 DEF legVars
<1>4. ASSUME NEW e \in LegEnds,
              \/ SendHello(e) \/ SendHelloRequestCnt(e) \/ SendHelloRequest(e)
              \/ SendHelloPing(e) \/ SendStateAll(e) \/ \E s \in Places : DeadLeg(e, s)
              \/ StableTimeout(e) \/ RefuseHello(e) \/ ReceiveState(e)
      PROVE  UNCHANGED <<faults, stale>>
  BY <1>4 DEF SendHello, SendHelloRequestCnt, SendHelloRequest, SendHelloPing, SendStateAll,
     DeadLeg, StableTimeout, RefuseHello, ReceiveState, Sends
<1>5. ASSUME NEW e \in LegEnds, ReceivePing(e) \/ ReceiveStrangeHello(e) \/ ReceiveHello(e)
      PROVE  UNCHANGED faults /\ (UNCHANGED stale \/ NoteLink(e))
  BY <1>5 DEF ReceivePing, ReceiveStrangeHello, ReceiveHello
<1>6. ASSUME NEW e \in LegEnds, Lose(e) \/ Overtake(e) \/ Crash(e)
      PROVE  /\ faults' \subseteq {"loss", "overtaking", "crash"}
             /\ stale' = stale \/ stale' = [stale EXCEPT ![e] = {}]
  BY <1>1, <1>6 DEF Lose, Overtake, Crash, Fault
<1>7. CASE LegNext
  <2>1. PICK e \in LegEnds :
              \/ SendHello(e) \/ SendHelloRequestCnt(e) \/ SendHelloRequest(e)
              \/ SendHelloPing(e) \/ SendStateAll(e) \/ \E s \in Places : DeadLeg(e, s)
              \/ StableTimeout(e) \/ RefuseHello(e) \/ ReceivePing(e)
              \/ ReceiveStrangeHello(e) \/ ReceiveHello(e) \/ ReceiveState(e)
              \/ Lose(e) \/ Overtake(e) \/ Crash(e)
    BY <1>7, StepOfAnEnd
  <2>2. CASE UNCHANGED <<faults, stale>> BY <1>1, <2>2
  <2>3. CASE UNCHANGED faults /\ NoteLink(e) BY <1>1, <1>2, <2>3
  <2>4. CASE Lose(e) \/ Overtake(e) \/ Crash(e)
    <3>1. faults' \subseteq {"loss", "overtaking", "crash"} BY <1>6, <2>4
    <3>2. stale' = stale \/ stale' = [stale EXCEPT ![e] = {}] BY <1>6, <2>4
    <3>3. QED BY <1>1, <3>1, <3>2
  <2>5. QED BY <2>1, <1>4, <1>5, <2>2, <2>3, <2>4
<1>8. QED BY <1>3, <1>7

\* Every step preserves the invariant.
LEMMA LegInvStep == LegInv /\ [LegNext]_legVars => LegInv'
<1>1. SUFFICES ASSUME LegInv, [LegNext]_legVars PROVE LegInv' OBVIOUS
<1>2. /\ leg' \in [LegEnds -> Network_Leg] /\ queue' \in [LegEnds -> Queue]
      /\ \A e \in LegEnds : EndOK(leg'[e], queue'[e])
  <2>1. PICK e \in LegEnds :
            \E l, q : /\ EndOK(l, q) /\ leg' = [leg EXCEPT ![e] = l]
                      /\ queue' = [queue EXCEPT ![e] = q]
    BY <1>1, EndChanges
  <2>2. PICK l, q :
            EndOK(l, q) /\ leg' = [leg EXCEPT ![e] = l] /\ queue' = [queue EXCEPT ![e] = q]
    BY <2>1
  <2>3. QED BY <1>1, <2>2, EndStep
<1>3. wire' \in [LegEnds -> Seq(Datagram)] /\ \A d \in LegEnds : WireOK(wire'[d], d)
  <2>1. CASE LegNext
    <3>1. PICK e \in LegEnds : WireChanges(e) BY <1>1, <2>1, StepOfAnEnd, StepChangesWires
    <3>2. QED BY <1>1, <3>1, WiresStayOK
  <2>2. CASE UNCHANGED legVars
    <3>1. 0 \in LegEnds /\ wire' = wire BY <2>2 DEF LegEnds, legVars
    <3>2. WireChanges(0) BY <3>1 DEF WireChanges
    <3>3. QED BY <1>1, <3>1, <3>2, WiresStayOK
  <2>3. QED BY <1>1, <2>1, <2>2
<1>4. faults' \subseteq {"loss", "overtaking", "crash"} /\ stale' \in [LegEnds -> SUBSET Nat]
  BY <1>1, HistoryTypes
<1>5. LegTypeOK' BY <1>2, <1>3, <1>4 DEF LegTypeOK, Datagram
<1>6. WireHolds' BY <1>3 DEF WireHolds, WireOK
<1>7. QED BY <1>2, <1>5, <1>6 DEF LegInv

\* Every step keeps the types, the bounds of the wires and the two ends in good states.
THEOREM LegInvariant == LegSpec => []LegInv
<1>1. LegInit => LegInv BY LegInvInit
<1>2. LegInv /\ [LegNext]_legVars => LegInv' BY LegInvStep
<1>3. QED BY <1>1, <1>2, PTL DEF LegSpec

\* Type correctness of the legs.
THEOREM LegTypeCorrect == LegSpec => []LegTypeOK
<1>1. LegInv => LegTypeOK BY DEF LegInv
<1>2. QED BY <1>1, LegInvariant, PTL

\* EventsFindTheirLink: Send_Hello, Send_Hello_Request_Cnt and Net_Send_State_All always
\* find the control link they are queued for (hello.c:199, 273, state_flood.c:129), and a
\* control link never lacks its periodic hello, whatever is lost, overtakes or crashes.
THEOREM EventsAlwaysFindTheirLink == LegSpec => []EventsFindTheirLink
<1>1. LegInv => EventsFindTheirLink
  BY DEF LegInv, EndOK, EventsFound, EventsFindTheirLink
<1>2. QED BY <1>1, LegInvariant, PTL

-----------------------------------------------------------------------------
(* What a step does to the control links *)

\* The control link stays, and what it knows of the other one.
Stays(e) ==
    /\ leg'[e].status = leg[e].status /\ leg'[e].ctrl_link_id = leg[e].ctrl_link_id
    /\ leg'[e].other_side_ctrl_link_id = leg[e].other_side_ctrl_link_id
    /\ leg'[e].connect_cnter = leg[e].connect_cnter
    /\ stale' = stale
    /\ \/ wire' = wire
       \/ wire[e] # <<>> /\ wire' = Rest(e)
       \/ \E m \in Datagram : /\ m.id = leg[e].ctrl_link_id
                              /\ wire' = [wire EXCEPT ![Other(e)] = Append(@, m)]
       \/ /\ "overtaking" \in faults' /\ Len(wire[e]) > 1
          /\ wire' = [wire EXCEPT ![e] = <<Last(@)>> \o Front(@)]

\* It is gone.
Dies(e) ==
    /\ leg'[e].status = "disconnected" /\ leg'[e].ctrl_link_id = 0
    /\ leg'[e].other_side_ctrl_link_id = 0 /\ leg'[e].connect_cnter = 0
    /\ wire' = wire /\ (stale' = stale \/ stale' = [stale EXCEPT ![e] = {}])
    /\ "crash" \in faults' \/ leg[e].hellos_out >= DEAD_LINK_CNT

\* A new one is made that has heard of no other yet.
IsMade(e) ==
    /\ leg'[e].status = "not_yet_connected" /\ leg'[e].ctrl_link_id = FreshId(e)
    /\ leg'[e].other_side_ctrl_link_id = 0 /\ leg'[e].connect_cnter = 0
    /\ wire[e] # <<>> /\ NoteLink(e)
    /\ \/ wire' = Rest(e)
       \/ \E m \in Datagram : m.id = FreshId(e) /\ wire' = [Rest(e) EXCEPT ![Other(e)] = Append(@, m)]
    /\ \/ leg[e].status = "disconnected"
       \/ /\ wire[e][1].id # 0
          /\ leg[e].other_side_ctrl_link_id \notin {0, wire[e][1].id}

\* A hello is counted: at a new control link, or at the old one.
Counts(e) ==
    LET new == leg[e].place = NONE
        cnt == IF new THEN 0 ELSE leg[e].connect_cnter
    IN  /\ wire[e] # <<>> /\ wire[e][1].id # 0 /\ wire' = Rest(e)
        /\ leg'[e].ctrl_link_id = IF new THEN FreshId(e) ELSE leg[e].ctrl_link_id
        /\ leg[e].other_side_ctrl_link_id \in {0, wire[e][1].id}
        /\ leg'[e].other_side_ctrl_link_id = wire[e][1].id
        /\ IF leg[e].status = "connected"
           THEN leg'[e].status = "connected"
           ELSE /\ leg'[e].connect_cnter = cnt + 1
                /\ leg'[e].status = "connected" => cnt + 1 >= CONNECT_LINK_CNT
        /\ IF new THEN NoteLink(e) ELSE stale' = stale

\* A step of end e is one of these, and leaves the other leg alone.
Moves(e) ==
    /\ leg'[Other(e)] = leg[Other(e)] /\ faults \subseteq faults'
    /\ Stays(e) \/ Dies(e) \/ IsMade(e) \/ Counts(e)

\* Faults are not forgotten.
LEMMA FaultsStay ==
    ASSUME LegNext
    PROVE  faults \subseteq faults'
<1>1. PICK e \in LegEnds :
              \/ SendHello(e) \/ SendHelloRequestCnt(e) \/ SendHelloRequest(e)
              \/ SendHelloPing(e) \/ SendStateAll(e) \/ \E s \in Places : DeadLeg(e, s)
              \/ StableTimeout(e) \/ RefuseHello(e) \/ ReceivePing(e)
              \/ ReceiveStrangeHello(e) \/ ReceiveHello(e) \/ ReceiveState(e)
              \/ Lose(e) \/ Overtake(e) \/ Crash(e)
  BY StepOfAnEnd
<1>2. CASE Lose(e) \/ Overtake(e) \/ Crash(e)
  BY <1>2 DEF Lose, Overtake, Crash, Fault
<1>3. CASE ~(Lose(e) \/ Overtake(e) \/ Crash(e))
  <2>1. faults' = faults
    BY <1>1, <1>3 DEF SendHello, SendHelloRequestCnt, SendHelloRequest, SendHelloPing, SendStateAll,
       DeadLeg, StableTimeout, RefuseHello, ReceiveState, Sends, ReceivePing, ReceiveStrangeHello,
       ReceiveHello
  <2>2. QED BY <2>1
<1>4. QED BY <1>2, <1>3

\* Steps that only send.
LEMMA SendingStays ==
    ASSUME LegInv, NEW e \in LegEnds,
           \/ SendHello(e) \/ SendHelloRequestCnt(e) \/ SendHelloRequest(e)
           \/ SendHelloPing(e) \/ SendStateAll(e)
    PROVE  leg'[Other(e)] = leg[Other(e)] /\ Stays(e)
<1>1. /\ leg \in [LegEnds -> Network_Leg] /\ leg[e] \in Network_Leg BY EndBefore
<1>2. PICK type \in {"ping", "hello", "hello_req", "state"} : Sends(e, type)
  BY DEF SendHello, SendHelloRequestCnt, SendHelloRequest, SendHelloPing, SendStateAll
<1> DEFINE m == [type |-> type, id |-> leg[e].ctrl_link_id]
<1>3. m \in Datagram /\ m.id = leg[e].ctrl_link_id BY <1>1 DEF Datagram, Network_Leg
<1>4. wire' = [wire EXCEPT ![Other(e)] = Append(@, m)] /\ stale' = stale BY <1>2 DEF Sends
<1> HIDE DEF m
<1>5. leg' = leg \/ leg' = [leg EXCEPT ![e].hellos_out = @ + 1]
  BY DEF SendHello, SendHelloRequestCnt, SendHelloRequest, SendHelloPing, SendStateAll
<1>6. /\ leg'[Other(e)] = leg[Other(e)]
      /\ leg'[e].status = leg[e].status /\ leg'[e].ctrl_link_id = leg[e].ctrl_link_id
      /\ leg'[e].other_side_ctrl_link_id = leg[e].other_side_ctrl_link_id
      /\ leg'[e].connect_cnter = leg[e].connect_cnter
  BY <1>1, <1>5, OtherEnd DEF Network_Leg
<1>7. QED BY <1>3, <1>4, <1>6 DEF Stays

\* A hello that is heard is counted.
LEMMA HearingCounts ==
    ASSUME LegInv, NEW e \in LegEnds, ReceiveHello(e)
    PROVE  leg'[Other(e)] = leg[Other(e)] /\ Counts(e)
<1> DEFINE m == wire[e][1]
<1>1. /\ leg \in [LegEnds -> Network_Leg] /\ leg[e] \in Network_Leg /\ Placed(leg[e])
  BY EndBefore DEF EndOK
<1>2. m \in Datagram /\ m.id # 0 /\ wire[e] # <<>>
  <2>1. wire[e] \in Seq(Datagram) /\ wire[e] # <<>> /\ m.type \in HelloTypes
    BY DEF LegInv, LegTypeOK, Datagram, ReceiveHello, Reads
  <2>2. 1 \in 1..Len(wire[e]) BY <2>1
  <2>3. QED BY <2>1, <2>2 DEF LegInv, WireHolds
<1>3. wire' = Rest(e) /\ leg[e].other_side_ctrl_link_id \in {0, m.id} BY DEF ReceiveHello
<1>4. m.id \in Nat BY <1>2 DEF Datagram
<1> HIDE DEF m
<1>5. ASSUME NEW old \in Network_Leg, NEW s, Heard(e, old, m, s)
      PROVE  /\ leg'[Other(e)] = leg[Other(e)] /\ leg'[e].ctrl_link_id = old.ctrl_link_id
             /\ leg'[e].other_side_ctrl_link_id = m.id
             /\ IF old.status = "connected" THEN leg'[e].status = "connected"
                ELSE /\ leg'[e].connect_cnter = old.connect_cnter + 1
                     /\ leg'[e].status = "connected" => old.connect_cnter + 1 >= CONNECT_LINK_CNT
  <2> DEFINE cnt == IF old.status = "connected" THEN old.connect_cnter ELSE old.connect_cnter + 1
             connects == old.status # "connected" /\ cnt >= CONNECT_LINK_CNT
             new == [old EXCEPT !.other_side_ctrl_link_id = m.id, !.hellos_out = 0,
                                !.connect_cnter = cnt]
             l == IF connects THEN [new EXCEPT !.status = "connected"] ELSE new
  <2>1. new.status = old.status /\ new.connect_cnter = cnt BY DEF Network_Leg
  <2>2. leg' = [leg EXCEPT ![e] = l] BY <1>1, <1>5, <2>1 DEF Heard
  <2>3. leg'[Other(e)] = leg[Other(e)] /\ leg'[e] = l BY <1>1, <2>2, OtherEnd
  <2>4. cnt \in Nat BY DEF Network_Leg
  <2>5. 0 \in 0..(DEAD_LINK_CNT + 1) BY LegConstants
  <2> HIDE DEF connects
  <2>6. /\ new \in Network_Leg /\ new.ctrl_link_id = old.ctrl_link_id
        /\ new.other_side_ctrl_link_id = m.id /\ new.connect_cnter = cnt
        /\ new.status = old.status
    BY <1>4, <2>4, <2>5 DEF Network_Leg
  <2> HIDE DEF new
  <2>7. /\ l.ctrl_link_id = old.ctrl_link_id /\ l.other_side_ctrl_link_id = m.id
        /\ l.connect_cnter = cnt /\ l.status = IF connects THEN "connected" ELSE old.status
    BY <2>6 DEF Network_Leg
  <2> HIDE DEF l
  <2>8. QED BY <2>3, <2>7 DEF connects
<1>6. CASE leg[e].place # NONE
  <2>1. Heard(e, leg[e], m, leg[e].place) /\ stale' = stale BY <1>6 DEF ReceiveHello, m
  <2>2. /\ leg'[Other(e)] = leg[Other(e)] /\ leg'[e].ctrl_link_id = leg[e].ctrl_link_id
        /\ leg'[e].other_side_ctrl_link_id = m.id
        /\ IF leg[e].status = "connected" THEN leg'[e].status = "connected"
           ELSE /\ leg'[e].connect_cnter = leg[e].connect_cnter + 1
                /\ leg'[e].status = "connected" => leg[e].connect_cnter + 1 >= CONNECT_LINK_CNT
    BY <1>1, <1>5, <2>1
  <2>3. QED BY <1>2, <1>3, <1>6, <2>1, <2>2 DEF Counts, m
<1>7. CASE leg[e].place = NONE
  <2>1. PICK s \in Places : Heard(e, Created(e, s), m, s) BY <1>7 DEF ReceiveHello, m
  <2>2. NoteLink(e) BY <1>7 DEF ReceiveHello
  <2>3. /\ Created(e, s) = [status |-> "not_yet_connected", place |-> s,
                ctrl_link_id |-> FreshId(e), other_side_ctrl_link_id |-> 0,
                hellos_out |-> 0, connect_cnter |-> 0, resting |-> FALSE]
        /\ FreshId(e) \in Nat /\ FreshId(e) # 0 /\ s # NONE
    BY CreatedIs
  <2>4. Created(e, s) \in Network_Leg
    <3>1. 0 \in 0..(DEAD_LINK_CNT + 1) BY LegConstants
    <3>2. QED BY <2>3, <3>1 DEF Network_Leg
  <2>5. /\ Created(e, s).status = "not_yet_connected" /\ Created(e, s).connect_cnter = 0
        /\ Created(e, s).ctrl_link_id = FreshId(e)
    BY <2>3
  <2>6. /\ leg'[Other(e)] = leg[Other(e)] /\ leg'[e].ctrl_link_id = FreshId(e)
        /\ leg'[e].other_side_ctrl_link_id = m.id
        /\ leg'[e].connect_cnter = 0 + 1
        /\ leg'[e].status = "connected" => 0 + 1 >= CONNECT_LINK_CNT
    BY <1>5, <2>1, <2>4, <2>5
  <2>7. leg[e].status # "connected" BY <1>1, <1>7 DEF Placed
  <2>8. QED BY <1>2, <1>3, <1>7, <2>2, <2>6, <2>7 DEF Counts, m
<1>8. QED BY <1>6, <1>7

\* Dead_Leg ends a control link only when its hellos were not answered.
LEMMA DeadLegDies ==
    ASSUME LegInv, NEW e \in LegEnds, NEW s \in Places, DeadLeg(e, s)
    PROVE  leg'[Other(e)] = leg[Other(e)] /\ (Stays(e) \/ Dies(e))
<1>1. leg \in [LegEnds -> Network_Leg] BY EndBefore
<1>2. CASE leg[e].place = s /\ leg[e].hellos_out >= DEAD_LINK_CNT
  <2>1. leg' = [leg EXCEPT ![e] = Disconnected] /\ wire' = wire /\ stale' = stale
    BY <1>2 DEF DeadLeg
  <2>2. leg'[e] = Disconnected /\ leg'[Other(e)] = leg[Other(e)] BY <1>1, <2>1, OtherEnd
  <2>3. /\ Disconnected.status = "disconnected" /\ Disconnected.ctrl_link_id = 0
        /\ Disconnected.other_side_ctrl_link_id = 0 /\ Disconnected.connect_cnter = 0
    BY DEF Disconnected, NoLink
  <2>4. Dies(e) BY <1>2, <2>1, <2>2, <2>3 DEF Dies
  <2>5. QED BY <2>2, <2>4
<1>3. CASE ~(leg[e].place = s /\ leg[e].hellos_out >= DEAD_LINK_CNT)
  BY <1>3 DEF DeadLeg, Stays
<1>4. QED BY <1>2, <1>3

\* A ping makes a control link, or does nothing.
LEMMA PingMakes ==
    ASSUME LegInv, NEW e \in LegEnds, ReceivePing(e)
    PROVE  leg'[Other(e)] = leg[Other(e)] /\ (Stays(e) \/ IsMade(e))
<1>1. leg \in [LegEnds -> Network_Leg] /\ Placed(leg[e]) BY EndBefore DEF EndOK
<1>2. wire[e] # <<>> /\ wire' = Rest(e) BY DEF ReceivePing, Reads
<1>3. CASE leg[e].place # NONE
  BY <1>2, <1>3 DEF ReceivePing, Stays
<1>4. CASE leg[e].place = NONE
  <2>1. PICK s \in Places : leg' = [leg EXCEPT ![e] = Created(e, s)] /\ NoteLink(e)
    BY <1>4 DEF ReceivePing
  <2>2. leg'[e] = Created(e, s) /\ leg'[Other(e)] = leg[Other(e)] BY <1>1, <2>1, OtherEnd
  <2>3. /\ Created(e, s) = [status |-> "not_yet_connected", place |-> s,
                ctrl_link_id |-> FreshId(e), other_side_ctrl_link_id |-> 0,
                hellos_out |-> 0, connect_cnter |-> 0, resting |-> FALSE]
    BY CreatedIs
  <2>4. /\ leg'[e].status = "not_yet_connected" /\ leg'[e].ctrl_link_id = FreshId(e)
        /\ leg'[e].other_side_ctrl_link_id = 0 /\ leg'[e].connect_cnter = 0
    BY <2>2, <2>3
  <2>5. leg[e].status = "disconnected" BY <1>1, <1>4 DEF Placed
  <2>6. IsMade(e) BY <1>2, <2>1, <2>4, <2>5 DEF IsMade
  <2>7. QED BY <2>2, <2>6
<1>5. QED BY <1>3, <1>4

\* So does a hello of a strange control link.
LEMMA StrangeHelloMakes ==
    ASSUME LegInv, NEW e \in LegEnds, ReceiveStrangeHello(e)
    PROVE  leg'[Other(e)] = leg[Other(e)] /\ IsMade(e)
<1>1. leg \in [LegEnds -> Network_Leg] BY EndBefore
<1>2. PICK s \in Places : leg' = [leg EXCEPT ![e] = [Created(e, s) EXCEPT !.hellos_out = 1]]
  BY DEF ReceiveStrangeHello
<1>3. leg'[e] = [Created(e, s) EXCEPT !.hellos_out = 1] /\ leg'[Other(e)] = leg[Other(e)]
  BY <1>1, <1>2, OtherEnd
<1>4. /\ Created(e, s) = [status |-> "not_yet_connected", place |-> s,
              ctrl_link_id |-> FreshId(e), other_side_ctrl_link_id |-> 0,
              hellos_out |-> 0, connect_cnter |-> 0, resting |-> FALSE]
      /\ FreshId(e) \in Nat
  BY CreatedIs
<1>5. Created(e, s) \in Network_Leg
  <2>1. 0 \in 0..(DEAD_LINK_CNT + 1) BY LegConstants
  <2>2. QED BY <1>4, <2>1 DEF Network_Leg
<1>6. /\ Created(e, s).status = "not_yet_connected" /\ Created(e, s).ctrl_link_id = FreshId(e)
      /\ Created(e, s).other_side_ctrl_link_id = 0 /\ Created(e, s).connect_cnter = 0
  BY <1>4
<1>7. /\ leg'[e].status = "not_yet_connected" /\ leg'[e].ctrl_link_id = FreshId(e)
      /\ leg'[e].other_side_ctrl_link_id = 0 /\ leg'[e].connect_cnter = 0
  BY <1>3, <1>5, <1>6 DEF Network_Leg
<1>8. wire[e] # <<>> /\ wire[e][1].id # 0
  <2>1. wire[e] \in Seq(Datagram) /\ wire[e] # <<>> /\ wire[e][1].type \in HelloTypes
    BY DEF LegInv, LegTypeOK, Datagram, ReceiveStrangeHello, Reads
  <2>2. 1 \in 1..Len(wire[e]) BY <2>1
  <2>3. QED BY <2>1, <2>2 DEF LegInv, WireHolds
<1> DEFINE m == [type |-> "hello", id |-> FreshId(e)]
<1>9. m \in Datagram /\ m.id = FreshId(e) BY <1>4 DEF Datagram
<1>10. /\ NoteLink(e) /\ wire' = [Rest(e) EXCEPT ![Other(e)] = Append(@, m)]
       /\ leg[e].other_side_ctrl_link_id \notin {0, wire[e][1].id}
  BY DEF ReceiveStrangeHello
<1> HIDE DEF m
<1>11. QED BY <1>3, <1>7, <1>8, <1>9, <1>10 DEF IsMade

\* Every step moves a control link in one of these ways.
LEMMA StepMoves ==
    ASSUME LegInv, LegNext
    PROVE  \E e \in LegEnds : Moves(e)
<1>1. PICK e \in LegEnds :
              \/ SendHello(e) \/ SendHelloRequestCnt(e) \/ SendHelloRequest(e)
              \/ SendHelloPing(e) \/ SendStateAll(e) \/ \E s \in Places : DeadLeg(e, s)
              \/ StableTimeout(e) \/ RefuseHello(e) \/ ReceivePing(e)
              \/ ReceiveStrangeHello(e) \/ ReceiveHello(e) \/ ReceiveState(e)
              \/ Lose(e) \/ Overtake(e) \/ Crash(e)
  BY StepOfAnEnd
<1>2. faults \subseteq faults' BY FaultsStay
<1>3. /\ leg \in [LegEnds -> Network_Leg] /\ leg[e] \in Network_Leg BY EndBefore
<1>4. CASE SendHello(e) \/ SendHelloRequestCnt(e) \/ SendHelloRequest(e) \/ SendHelloPing(e)
             \/ SendStateAll(e)
  BY <1>2, <1>4, SendingStays DEF Moves
<1>5. CASE \E s \in Places : DeadLeg(e, s) BY <1>2, <1>5, DeadLegDies DEF Moves
<1>6. CASE StableTimeout(e)
  <2>1. leg' = [leg EXCEPT ![e].resting = FALSE] /\ wire' = wire /\ stale' = stale
    BY <1>6 DEF StableTimeout
  <2>2. /\ leg'[Other(e)] = leg[Other(e)]
        /\ leg'[e].status = leg[e].status /\ leg'[e].ctrl_link_id = leg[e].ctrl_link_id
        /\ leg'[e].other_side_ctrl_link_id = leg[e].other_side_ctrl_link_id
        /\ leg'[e].connect_cnter = leg[e].connect_cnter
    BY <1>3, <2>1, OtherEnd DEF Network_Leg
  <2>3. QED BY <1>2, <2>1, <2>2 DEF Moves, Stays
<1>7. CASE RefuseHello(e) \/ ReceiveState(e) \/ Lose(e) \/ Overtake(e)
  <2>1. leg' = leg /\ stale' = stale
    BY <1>7 DEF RefuseHello, ReceiveState, Lose, Overtake
  <2>2. \/ wire[e] # <<>> /\ wire' = Rest(e)
        \/ /\ "overtaking" \in faults' /\ Len(wire[e]) > 1
           /\ wire' = [wire EXCEPT ![e] = <<Last(@)>> \o Front(@)]
    BY <1>7 DEF RefuseHello, ReceiveState, Lose, Overtake, Reads, Fault
  <2>3. QED BY <1>2, <2>1, <2>2 DEF Moves, Stays
<1>8. CASE ReceivePing(e) BY <1>2, <1>8, PingMakes DEF Moves
<1>9. CASE ReceiveStrangeHello(e) BY <1>2, <1>9, StrangeHelloMakes DEF Moves
<1>10. CASE ReceiveHello(e) BY <1>2, <1>10, HearingCounts DEF Moves
<1>11. CASE Crash(e)
  <2>1. /\ leg' = [leg EXCEPT ![e] = NoLink] /\ wire' = wire /\ stale' = [stale EXCEPT ![e] = {}]
        /\ "crash" \in faults'
    BY <1>11 DEF Crash, Fault
  <2>2. leg'[e] = NoLink /\ leg'[Other(e)] = leg[Other(e)] BY <1>3, <2>1, OtherEnd
  <2>3. /\ NoLink.status = "disconnected" /\ NoLink.ctrl_link_id = 0
        /\ NoLink.other_side_ctrl_link_id = 0 /\ NoLink.connect_cnter = 0
    BY DEF NoLink
  <2>4. Dies(e) BY <2>1, <2>2, <2>3 DEF Dies
  <2>5. QED BY <1>2, <2>2, <2>4 DEF Moves
<1>12. QED BY <1>1, <1>4, <1>5, <1>6, <1>7, <1>8, <1>9, <1>10, <1>11

-----------------------------------------------------------------------------
(* First in, first out *)

\* Behind a datagram with id c there are only others with id c, or pings.
Behind(w, c) ==
    \A i, j \in 1..Len(w) : i < j /\ w[i].id = c => w[j].id \in {0, c}

\* First in, first out: behind a datagram of the control link of the other end, and once
\* it was heard of, there is nothing of another.
NothingBehind ==
    faults \cap {"overtaking", "crash"} = {} =>
        \A e \in LegEnds : leg[Other(e)].ctrl_link_id # 0 =>
            /\ Behind(wire[e], leg[Other(e)].ctrl_link_id)
            /\ leg[e].other_side_ctrl_link_id = leg[Other(e)].ctrl_link_id =>
                  \A i \in 1..Len(wire[e]) : wire[e][i].id \in {0, leg[Other(e)].ctrl_link_id}

\* The tail of a wire, and the wire with another datagram of the same control link.
LEMMA BehindTail ==
    ASSUME NEW w \in Seq(Datagram), w # <<>>, NEW c, Behind(w, c)
    PROVE  /\ Behind(Tail(w), c)
           /\ w[1].id = c => \A i \in 1..Len(Tail(w)) : Tail(w)[i].id \in {0, c}
<1> DEFINE t == Tail(w)
<1>1. /\ Len(t) = Len(w) - 1 /\ Len(w) \in Nat \ {0}
      /\ \A i \in 1..Len(t) : i + 1 \in 1..Len(w) /\ t[i] = w[i + 1]
  BY TailItems
<1> HIDE DEF t
<1>2. ASSUME NEW i \in 1..Len(t), NEW j \in 1..Len(t), i < j, t[i].id = c
      PROVE  t[j].id \in {0, c}
  <2>1. i + 1 < j + 1 BY <1>1, <1>2
  <2>2. QED BY <1>1, <1>2, <2>1 DEF Behind
<1>3. ASSUME w[1].id = c, NEW i \in 1..Len(t) PROVE t[i].id \in {0, c}
  <2>1. 1 < i + 1 /\ 1 \in 1..Len(w) BY <1>1, <1>3
  <2>2. QED BY <1>1, <1>3, <2>1 DEF Behind
<1>4. QED BY <1>2, <1>3 DEF Behind, t

\* The items of a wire to which one was added.
LEMMA AppendItems ==
    ASSUME NEW w \in Seq(Datagram), NEW m \in Datagram
    PROVE  /\ Len(Append(w, m)) = Len(w) + 1 /\ Len(w) \in Nat /\ Append(w, m) \in Seq(Datagram)
           /\ Append(w, m)[Len(w) + 1] = m
           /\ \A i \in 1..Len(w) : Append(w, m)[i] = w[i]
OBVIOUS

\* A datagram with the id of its control link is added.
LEMMA BehindAppend ==
    ASSUME NEW w \in Seq(Datagram), NEW m \in Datagram
    PROVE  /\ Behind(w, m.id) => Behind(Append(w, m), m.id)
           /\ (\A i \in 1..Len(w) : w[i].id \in {0, m.id}) =>
                 \A i \in 1..Len(Append(w, m)) : Append(w, m)[i].id \in {0, m.id}
<1> DEFINE v == Append(w, m)
<1>1. /\ Len(v) = Len(w) + 1 /\ Len(w) \in Nat /\ v[Len(w) + 1] = m
      /\ \A i \in 1..Len(w) : v[i] = w[i]
  BY AppendItems
<1> HIDE DEF v
<1>2. ASSUME NEW i \in 1..Len(v), i # Len(w) + 1 PROVE i \in 1..Len(w) BY <1>1, <1>2
<1>3. ASSUME Behind(w, m.id), NEW i \in 1..Len(v), NEW j \in 1..Len(v), i < j, v[i].id = m.id
      PROVE  v[j].id \in {0, m.id}
  <2>1. CASE j = Len(w) + 1 BY <1>1, <2>1
  <2>2. CASE j # Len(w) + 1
    <3>1. j \in 1..Len(w) /\ i # Len(w) + 1 BY <1>1, <1>3, <2>2
    <3>2. i \in 1..Len(w) BY <1>2, <3>1
    <3>3. QED BY <1>1, <1>3, <3>1, <3>2 DEF Behind
  <2>3. QED BY <2>1, <2>2
<1>4. ASSUME \A i \in 1..Len(w) : w[i].id \in {0, m.id}, NEW i \in 1..Len(v)
      PROVE  v[i].id \in {0, m.id}
  <2>1. CASE i = Len(w) + 1 BY <1>1, <2>1
  <2>2. CASE i # Len(w) + 1 BY <1>1, <1>2, <1>4, <2>2
  <2>3. QED BY <2>1, <2>2
<1>5. QED BY <1>3, <1>4 DEF Behind, v

\* The wires after a step of end e: its own, and that to the other end.
LEMMA WiresAfter ==
    ASSUME LegInv, NEW e \in LegEnds, Moves(e)
    PROVE  LET o == Other(e)
           IN  /\ \/ wire'[e] = wire[e]
                  \/ wire[e] # <<>> /\ wire'[e] = Tail(wire[e])
                  \/ /\ "overtaking" \in faults' /\ Len(wire[e]) > 1 /\ stale' = stale
                     /\ wire'[e] = <<Last(wire[e])>> \o Front(wire[e])
               /\ \/ wire'[o] = wire[o]
                  \/ \E m \in Datagram : /\ m.id = leg'[e].ctrl_link_id
                                         /\ wire'[o] = Append(wire[o], m)
<1> DEFINE o == Other(e)
<1>1. o \in LegEnds /\ o # e BY OtherEnd
<1>2. wire \in [LegEnds -> Seq(Datagram)] BY DEF LegInv, LegTypeOK, Datagram
<1> HIDE DEF o
<1>3. CASE wire' = wire BY <1>3 DEF o
<1>4. CASE wire[e] # <<>> /\ wire' = Rest(e)
  <2>1. wire'[e] = Tail(wire[e]) /\ wire'[o] = wire[o] BY <1>1, <1>2, <1>4 DEF Rest
  <2>2. QED BY <1>4, <2>1 DEF o
<1>5. ASSUME NEW m \in Datagram, m.id = leg'[e].ctrl_link_id,
             \/ wire' = [wire EXCEPT ![o] = Append(@, m)]
             \/ wire[e] # <<>> /\ wire' = [Rest(e) EXCEPT ![o] = Append(@, m)]
      PROVE  /\ wire'[e] = wire[e] \/ (wire[e] # <<>> /\ wire'[e] = Tail(wire[e]))
             /\ wire'[o] = Append(wire[o], m)
  BY <1>1, <1>2, <1>5 DEF Rest
<1>6. CASE /\ "overtaking" \in faults' /\ Len(wire[e]) > 1 /\ stale' = stale
           /\ wire' = [wire EXCEPT ![e] = <<Last(@)>> \o Front(@)]
  <2> DEFINE v == <<Last(wire[e])>> \o Front(wire[e])
  <2>1. wire' = [wire EXCEPT ![e] = v] BY <1>6
  <2> HIDE DEF v
  <2>2. wire'[e] = v /\ wire'[o] = wire[o] BY <1>1, <1>2, <2>1
  <2>3. QED BY <1>6, <2>2 DEF v, o
<1>7. CASE Stays(e) BY <1>3, <1>4, <1>5, <1>6, <1>7 DEF Stays, o
<1>8. CASE Dies(e) BY <1>3, <1>8 DEF Dies
<1>9. CASE IsMade(e) BY <1>4, <1>5, <1>9 DEF IsMade, o
<1>10. CASE Counts(e) BY <1>4, <1>10 DEF Counts
<1>11. QED BY <1>7, <1>8, <1>9, <1>10 DEF Moves

\* What an end knows of the other after its step.
LEMMA KnownAfter ==
    ASSUME LegInv, NEW e \in LegEnds, Moves(e)
    PROVE  /\ \/ leg'[e].ctrl_link_id \in {0, leg[e].ctrl_link_id}
              \/ leg'[e].ctrl_link_id = FreshId(e)
           /\ \/ leg'[e].other_side_ctrl_link_id = 0
              \/ leg'[e].other_side_ctrl_link_id = leg[e].other_side_ctrl_link_id
              \/ /\ wire[e] # <<>> /\ wire'[e] = Tail(wire[e])
                 /\ leg'[e].other_side_ctrl_link_id = wire[e][1].id
<1>1. CASE Stays(e) BY <1>1 DEF Stays
<1>2. CASE Dies(e) BY <1>2 DEF Dies
<1>3. CASE IsMade(e) BY <1>3 DEF IsMade
<1>4. CASE Counts(e)
  <2>1. wire \in [LegEnds -> Seq(Datagram)] BY DEF LegInv, LegTypeOK, Datagram
  <2>2. wire'[e] = Tail(wire[e]) BY <1>4, <2>1 DEF Counts, Rest
  <2>3. QED BY <1>4, <2>2 DEF Counts
<1>5. QED BY <1>1, <1>2, <1>3, <1>4 DEF Moves

\* Every step keeps the wires first in, first out.
LEMMA NothingBehindStep ==
    ASSUME LegInv, NothingBehind, NEW e \in LegEnds, Moves(e)
    PROVE  NothingBehind'
<1> DEFINE o == Other(e)
           Told(d, c) == /\ Behind(wire[d], c)
                         /\ leg[d].other_side_ctrl_link_id = c =>
                               \A i \in 1..Len(wire[d]) : wire[d][i].id \in {0, c}
           TellsNext(d, c) == /\ Behind(wire'[d], c)
                              /\ leg'[d].other_side_ctrl_link_id = c =>
                                    \A i \in 1..Len(wire'[d]) : wire'[d][i].id \in {0, c}
<1>1. /\ o \in LegEnds /\ o # e /\ Other(o) = e /\ \A d \in LegEnds : d = e \/ d = o
      /\ wire[e] \in Seq(Datagram) /\ wire[o] \in Seq(Datagram)
  BY OtherEnd DEF LegEnds, Other, LegInv, LegTypeOK, Datagram
<1>2. SUFFICES ASSUME faults' \cap {"overtaking", "crash"} = {}
               PROVE  \A d \in LegEnds : leg'[Other(d)].ctrl_link_id # 0 =>
                          TellsNext(d, leg'[Other(d)].ctrl_link_id)
  BY Zenon DEF NothingBehind, Behind
<1>3. faults \cap {"overtaking", "crash"} = {} /\ "overtaking" \notin faults'
  BY <1>2 DEF Moves
<1>4. \A d \in LegEnds : leg[Other(d)].ctrl_link_id # 0 => Told(d, leg[Other(d)].ctrl_link_id)
  BY <1>3 DEF NothingBehind
<1>5. /\ \/ wire'[e] = wire[e]
         \/ wire[e] # <<>> /\ wire'[e] = Tail(wire[e])
      /\ \/ wire'[o] = wire[o]
         \/ \E m \in Datagram : m.id = leg'[e].ctrl_link_id /\ wire'[o] = Append(wire[o], m)
  BY <1>3, WiresAfter
<1>6. leg'[o] = leg[o] BY DEF Moves
<1> HIDE DEF o
<1>7. ASSUME leg'[o].ctrl_link_id # 0 PROVE TellsNext(e, leg'[o].ctrl_link_id)
  <2> DEFINE c == leg[o].ctrl_link_id
  <2>1. Told(e, c) BY <1>4, <1>6, <1>7 DEF o
  <2> HIDE DEF c
  <2>2. Behind(wire'[e], c) BY <1>1, <1>5, <2>1, BehindTail
  <2>3. ASSUME leg'[e].other_side_ctrl_link_id = c
        PROVE  \A i \in 1..Len(wire'[e]) : wire'[e][i].id \in {0, c}
    <3>1. CASE leg[e].other_side_ctrl_link_id = c
      <4>1. \A i \in 1..Len(wire[e]) : wire[e][i].id \in {0, c} BY <2>1, <3>1
      <4>2. CASE wire'[e] = wire[e] BY <4>1, <4>2
      <4>3. CASE wire[e] # <<>> /\ wire'[e] = Tail(wire[e])
        BY <1>1, <4>1, <4>3, TailItems
      <4>4. QED BY <1>5, <4>2, <4>3
    <3>2. CASE leg[e].other_side_ctrl_link_id # c
      <4>1. c # 0 BY <1>6, <1>7 DEF c
      <4>2. wire[e] # <<>> /\ wire'[e] = Tail(wire[e]) /\ wire[e][1].id = c
        BY <2>3, <3>2, <4>1, KnownAfter
      <4>3. QED BY <1>1, <2>1, <4>2, BehindTail
    <3>3. QED BY <3>1, <3>2
  <2>4. QED BY <1>6, <2>2, <2>3 DEF c
<1>8. ASSUME leg'[e].ctrl_link_id # 0 PROVE TellsNext(o, leg'[e].ctrl_link_id)
  <2> DEFINE c == leg'[e].ctrl_link_id
  <2>1. Told(o, c)
    <3>1. CASE c = leg[e].ctrl_link_id BY <1>1, <1>4, <1>8, <3>1
    <3>2. CASE c # leg[e].ctrl_link_id
      <4>1. c = FreshId(e) BY <1>8, <3>2, KnownAfter
      <4>2. c \notin Ids(o) /\ c # leg[o].other_side_ctrl_link_id
        BY <4>1, FreshIdIsFresh DEF o, LegInv
      <4>3. \A i \in 1..Len(wire[o]) : wire[o][i].id # c BY <1>8, <4>2 DEF Ids
      <4>4. QED BY <4>2, <4>3 DEF Behind
    <3>3. QED BY <3>1, <3>2
  <2> HIDE DEF c
  <2>2. CASE wire'[o] = wire[o] BY <1>6, <2>1, <2>2 DEF c
  <2>3. ASSUME NEW m \in Datagram, m.id = c, wire'[o] = Append(wire[o], m)
        PROVE  TellsNext(o, c)
    BY <1>1, <1>6, <2>1, <2>3, BehindAppend
  <2>4. QED BY <1>5, <2>2, <2>3 DEF c
<1> HIDE DEF TellsNext
<1>9. QED BY <1>1, <1>7, <1>8 DEF o

\* An end that is connected is torn down for cause.
LEMMA SeveredStep ==
    ASSUME LegInv, NothingBehind, NEW e \in LegEnds, Moves(e), NEW d \in LegEnds,
           leg[d].status = "connected", leg'[d].status # "connected"
    PROVE  \/ faults' \cap {"overtaking", "crash"} # {}
           \/ leg[d].hellos_out >= DEAD_LINK_CNT
           \/ leg[d].other_side_ctrl_link_id # leg[Other(d)].ctrl_link_id
<1>1. d = e
  <2>1. leg'[Other(e)] = leg[Other(e)] BY DEF Moves
  <2>2. d = e \/ d = Other(e) BY DEF LegEnds, Other
  <2>3. QED BY <2>1, <2>2
<1>2. ~Stays(e) BY <1>1 DEF Stays
<1>3. CASE Dies(e) BY <1>1, <1>3 DEF Dies
<1>4. ~Counts(e) BY <1>1 DEF Counts
<1>5. CASE IsMade(e)
  <2>1. /\ wire[e] # <<>> /\ wire[e][1].id # 0
        /\ leg[e].other_side_ctrl_link_id \notin {0, wire[e][1].id}
    BY <1>1, <1>5 DEF IsMade
  <2>2. wire[e] \in Seq(Datagram) BY DEF LegInv, LegTypeOK, Datagram
  <2>3. 1 \in 1..Len(wire[e]) BY <2>1, <2>2
  <2>4. SUFFICES ASSUME faults' \cap {"overtaking", "crash"} = {},
                        leg[e].other_side_ctrl_link_id = leg[Other(e)].ctrl_link_id
                 PROVE  FALSE
    BY <1>1
  <2>5. faults \cap {"overtaking", "crash"} = {} BY <2>4 DEF Moves
  <2>6. leg[Other(e)].ctrl_link_id # 0 BY <2>1, <2>4
  <2>7. wire[e][1].id \in {0, leg[Other(e)].ctrl_link_id} BY <2>3, <2>4, <2>5, <2>6 DEF NothingBehind
  <2>8. QED BY <2>1, <2>4, <2>7
<1>6. QED BY <1>2, <1>3, <1>4, <1>5 DEF Moves

\* SeveredForCause: unless datagrams overtake each other or a daemon crashes, an end that
\* is connected is torn down only after DEAD_LINK_CNT unanswered hellos, or when the
\* control link it is connected to is gone.
THEOREM LegsAreSeveredForCause == LegSpec => SeveredForCause
<1>1. LegInit => NothingBehind
  <2>1. SUFFICES ASSUME LegInit PROVE NothingBehind OBVIOUS
  <2>2. \A e \in LegEnds : leg[Other(e)].ctrl_link_id = 0
    BY <2>1, OtherEnd DEF LegInit, NoLink
  <2>3. QED BY <2>2 DEF NothingBehind
<1>2. LegInv /\ NothingBehind /\ [LegNext]_legVars => NothingBehind'
  <2>1. SUFFICES ASSUME LegInv, NothingBehind, [LegNext]_legVars PROVE NothingBehind' OBVIOUS
  <2>2. CASE LegNext
    <3>1. PICK e \in LegEnds : Moves(e) BY <2>1, <2>2, StepMoves
    <3>2. QED BY <2>1, <3>1, NothingBehindStep
  <2>3. CASE UNCHANGED legVars BY <2>1, <2>3 DEF legVars, NothingBehind, Behind
  <2>4. QED BY <2>1, <2>2, <2>3
<1> DEFINE Severed == \A e \in LegEnds :
              leg[e].status = "connected" /\ leg'[e].status # "connected" =>
                  \/ faults' \cap {"overtaking", "crash"} # {}
                  \/ leg[e].hellos_out >= DEAD_LINK_CNT
                  \/ leg[e].other_side_ctrl_link_id # leg[Other(e)].ctrl_link_id
<1>3. LegInv /\ NothingBehind /\ LegNext => Severed
  <2>1. SUFFICES ASSUME LegInv, NothingBehind, LegNext PROVE Severed OBVIOUS
  <2>2. PICK e \in LegEnds : Moves(e) BY <2>1, StepMoves
  <2>3. QED BY <2>1, <2>2, SeveredStep
<1>4. QED BY <1>1, <1>2, <1>3, LegInvariant, PTL DEF LegSpec, SeveredForCause

-----------------------------------------------------------------------------
(* Dead control links *)

\* Where datagrams with id x are on a wire.
Under(w, x) == {i \in 1..Len(w) : w[i].id = x}

\* CONNECT_LINK_CNT hellos are more than the network holds.
EnoughHellos == \A e \in LegEnds : WireCap[e] < CONNECT_LINK_CNT

\* A dead control link is not heard of more often than the network held of it when the
\* control link was made, and that is not enough to connect to it.
Fades(e) ==
    \A x \in stale[e] :
        /\ x # 0 /\ x # leg[Other(e)].ctrl_link_id
        /\ leg[e].other_side_ctrl_link_id = x => leg[e].status # "connected"
        /\ Cardinality(Under(wire[e], x))
              + (IF leg[e].other_side_ctrl_link_id = x THEN leg[e].connect_cnter ELSE 0)
                  <= WireCap[e]

StaleFades == \A e \in LegEnds : Fades(e)

\* No more datagrams have an id than there are.
LEMMA UnderFew ==
    ASSUME NEW w \in Seq(Datagram), NEW x
    PROVE  /\ IsFiniteSet(Under(w, x)) /\ Cardinality(Under(w, x)) \in Nat
           /\ Cardinality(Under(w, x)) <= Len(w) /\ Len(w) \in Nat
<1>1. Len(w) \in Nat OBVIOUS
<1>2. IsFiniteSet(1..Len(w)) /\ Cardinality(1..Len(w)) = Len(w) BY <1>1, FS_Interval
<1>3. Under(w, x) \in SUBSET (1..Len(w)) BY DEF Under
<1>4. QED BY <1>1, <1>2, <1>3, FS_Subset, FS_CardinalityType

\* Reading the first datagram takes one of its id.
LEMMA UnderTail ==
    ASSUME NEW w \in Seq(Datagram), w # <<>>, NEW x
    PROVE  Cardinality(Under(Tail(w), x)) + (IF w[1].id = x THEN 1 ELSE 0)
              <= Cardinality(Under(w, x))
<1> DEFINE t == Tail(w)
           S == Under(t, x)
           T == Under(w, x) \ {1}
           f == [i \in S |-> i + 1]
<1>1. /\ t \in Seq(Datagram) /\ Len(t) = Len(w) - 1 /\ Len(w) \in Nat \ {0}
      /\ \A i \in 1..Len(t) : i + 1 \in 1..Len(w) /\ t[i] = w[i + 1]
  BY TailItems
<1> HIDE DEF t
<1>2. IsFiniteSet(Under(w, x)) /\ Cardinality(Under(w, x)) \in Nat BY UnderFew
<1>3. /\ IsFiniteSet(T) /\ Cardinality(T) \in Nat
      /\ Cardinality(T) + (IF w[1].id = x THEN 1 ELSE 0) <= Cardinality(Under(w, x))
  <2>1. 1 \in Under(w, x) <=> w[1].id = x BY <1>1 DEF Under
  <2>2. /\ IsFiniteSet(T)
        /\ Cardinality(T) = IF 1 \in Under(w, x) THEN Cardinality(Under(w, x)) - 1
                            ELSE Cardinality(Under(w, x))
    BY <1>2, FS_RemoveElement
  <2>3. Cardinality(T) \in Nat BY <2>2, FS_CardinalityType
  <2> HIDE DEF T
  <2>4. QED BY <1>2, <2>1, <2>2, <2>3
<1>4. f \in Injection(S, T)
  <2>1. ASSUME NEW i \in S PROVE i \in 1..Len(t) /\ i + 1 \in T
    BY <1>1, <2>1 DEF Under
  <2>2. f \in [S -> T] BY <2>1
  <2>3. \A i, j \in S : f[i] = f[j] => i = j BY <1>1, <2>1
  <2> HIDE DEF f, S, T
  <2>4. QED BY <2>2, <2>3, Zenon DEF Injection, IsInjective
<1>5. IsFiniteSet(S) /\ Cardinality(S) \in Nat BY <1>1, UnderFew
<1> HIDE DEF f, S, T
<1>6. Cardinality(S) <= Cardinality(T) BY <1>3, <1>4, FS_Injection
<1>7. QED BY <1>2, <1>3, <1>5, <1>6 DEF S, t

\* A datagram of another id adds none.
LEMMA UnderAppend ==
    ASSUME NEW w \in Seq(Datagram), NEW m \in Datagram, NEW x, m.id # x
    PROVE  Under(Append(w, m), x) = Under(w, x)
<1> DEFINE v == Append(w, m)
<1>1. /\ Len(v) = Len(w) + 1 /\ Len(w) \in Nat /\ v[Len(w) + 1] = m
      /\ \A i \in 1..Len(w) : v[i] = w[i]
  BY AppendItems
<1> HIDE DEF v
<1>2. \A i \in 1..Len(v) : i \in 1..Len(w) \/ i = Len(w) + 1 BY <1>1
<1>3. \A i \in 1..Len(w) : i \in 1..Len(v) BY <1>1
<1>4. QED BY <1>1, <1>2, <1>3 DEF Under, v

\* When the last overtakes the others there are as many of an id as before.
LEMMA UnderOvertaken ==
    ASSUME NEW w \in Seq(Datagram), Len(w) > 1, NEW x
    PROVE  Cardinality(Under(<<Last(w)>> \o Front(w), x)) <= Cardinality(Under(w, x))
<1> DEFINE v == <<Last(w)>> \o Front(w)
           S == Under(v, x)
           T == Under(w, x)
           f == [i \in S |-> IF i = 1 THEN Len(w) ELSE i - 1]
<1>1. /\ v \in Seq(Datagram) /\ Len(v) = Len(w) /\ Len(w) \in Nat /\ v[1] = w[Len(w)]
      /\ \A i \in 2..Len(w) : v[i] = w[i - 1]
  BY OvertakenItems
<1> HIDE DEF v
<1>2. IsFiniteSet(T) BY UnderFew
<1>3. ASSUME NEW i \in S PROVE f[i] \in T
  <2>1. i \in 1..Len(w) /\ v[i].id = x BY <1>1 DEF Under
  <2>2. CASE i = 1 BY <1>1, <2>1, <2>2 DEF Under
  <2>3. CASE i # 1
    <3>1. i \in 2..Len(w) /\ i - 1 \in 1..Len(w) BY <2>1, <2>3
    <3>2. QED BY <1>1, <2>1, <2>3, <3>1 DEF Under
  <2>4. QED BY <2>2, <2>3
<1>4. ASSUME NEW i \in S, NEW j \in S, f[i] = f[j] PROVE i = j
  <2>1. i \in 1..Len(w) /\ j \in 1..Len(w) BY <1>1 DEF Under
  <2>2. QED BY <1>1, <1>4, <2>1
<1>5. f \in Injection(S, T)
  <2>1. f \in [S -> T] BY <1>3
  <2> HIDE DEF f, S, T
  <2>2. QED BY <1>4, <2>1, Zenon DEF Injection, IsInjective
<1> HIDE DEF f, S, T
<1>6. QED BY <1>2, <1>5, FS_Injection DEF S, T, v

\* The history of end e after it made a control link, and that of the other end.
LEMMA NotedHistory ==
    ASSUME LegInv, NEW e \in LegEnds, NoteLink(e)
    PROVE  /\ stale'[e] = Ids(e) \ {leg[Other(e)].ctrl_link_id}
           /\ stale'[Other(e)] = stale[Other(e)] \ {FreshId(e)}
<1> DEFINE o == Other(e)
           a == Ids(e) \ {leg[o].ctrl_link_id}
           f == FreshId(e)
<1>1. stale \in [LegEnds -> SUBSET Nat] /\ o \in LegEnds /\ o # e
  BY OtherEnd DEF LegInv, LegTypeOK
<1>2. stale' = [stale EXCEPT ![e] = a, ![o] = @ \ {f}] BY DEF NoteLink
<1> HIDE DEF a, f, o
<1>3. stale'[e] = a /\ stale'[o] = stale[o] \ {f} BY <1>1, <1>2
<1>4. QED BY <1>3 DEF a, f, o

\* A step of end e does not add to the history of the other end, nor make a control link
\* that is in it.
LEMMA HistoryOfOther ==
    ASSUME LegInv, NEW e \in LegEnds, Moves(e)
    PROVE  LET o == Other(e)
           IN  /\ stale'[o] \subseteq stale[o]
               /\ \/ leg'[e].ctrl_link_id \in {0, leg[e].ctrl_link_id}
                  \/ leg'[e].ctrl_link_id \notin stale'[o]
<1> DEFINE o == Other(e)
<1>1. stale \in [LegEnds -> SUBSET Nat] /\ o \in LegEnds /\ o # e
  BY OtherEnd DEF LegInv, LegTypeOK
<1>2. CASE Stays(e) BY <1>2 DEF Stays
<1>3. CASE Dies(e)
  <2>1. stale'[o] = stale[o] BY <1>1, <1>3 DEF Dies
  <2>2. QED BY <1>3, <2>1 DEF Dies
<1>4. CASE NoteLink(e) /\ leg'[e].ctrl_link_id = FreshId(e)
  <2>1. stale'[o] = stale[o] \ {FreshId(e)} BY <1>4, NotedHistory
  <2>2. QED BY <1>4, <2>1
<1>5. CASE IsMade(e) BY <1>4, <1>5 DEF IsMade
<1>6. CASE Counts(e) BY <1>4, <1>6 DEF Counts
<1>7. QED BY <1>2, <1>3, <1>5, <1>6 DEF Moves

\* No step of end e adds to what is under way to it.
LEMMA UnderAfter ==
    ASSUME LegInv, NEW e \in LegEnds, Moves(e), NEW x
    PROVE  Cardinality(Under(wire'[e], x)) <= Cardinality(Under(wire[e], x))
<1>1. wire[e] \in Seq(Datagram) BY DEF LegInv, LegTypeOK, Datagram
<1>2. Cardinality(Under(wire[e], x)) \in Nat BY <1>1, UnderFew
<1>3. CASE wire'[e] = wire[e] BY <1>2, <1>3
<1>4. CASE wire[e] # <<>> /\ wire'[e] = Tail(wire[e])
  <2>1. Tail(wire[e]) \in Seq(Datagram) BY <1>1, <1>4, TailItems
  <2>2. Cardinality(Under(Tail(wire[e]), x)) \in Nat BY <2>1, UnderFew
  <2>3. Cardinality(Under(Tail(wire[e]), x)) + (IF wire[e][1].id = x THEN 1 ELSE 0)
            <= Cardinality(Under(wire[e], x))
    BY <1>1, <1>4, UnderTail
  <2>4. Cardinality(Under(Tail(wire[e]), x)) <= Cardinality(Under(wire[e], x))
    BY <1>2, <2>2, <2>3
  <2>5. QED BY <1>4, <2>4
<1>5. CASE Len(wire[e]) > 1 /\ wire'[e] = <<Last(wire[e])>> \o Front(wire[e])
  BY <1>1, <1>5, UnderOvertaken
<1>6. QED BY <1>3, <1>4, <1>5, WiresAfter

\* What is under way to the other end stays within its bound.
LEMMA FadesAtOther ==
    ASSUME LegInv, NEW e \in LegEnds, Fades(Other(e)), Moves(e)
    PROVE  Fades(Other(e))'
<1> DEFINE o == Other(e)
<1>1. /\ o \in LegEnds /\ Other(o) = e /\ wire[o] \in Seq(Datagram) /\ leg'[o] = leg[o]
  BY OtherEnd DEF LegInv, LegTypeOK, Datagram, Moves
<1>2. stale'[o] \subseteq stale[o] /\ (\/ leg'[e].ctrl_link_id \in {0, leg[e].ctrl_link_id}
                                      \/ leg'[e].ctrl_link_id \notin stale'[o])
  BY HistoryOfOther
<1>3. \/ wire'[o] = wire[o]
      \/ \E m \in Datagram : m.id = leg'[e].ctrl_link_id /\ wire'[o] = Append(wire[o], m)
  BY WiresAfter
<1>4. Fades(o) OBVIOUS
<1> HIDE DEF o
<1>5. ASSUME NEW x \in stale'[o]
      PROVE  /\ x # 0 /\ x # leg'[e].ctrl_link_id
             /\ leg'[o].other_side_ctrl_link_id = x => leg'[o].status # "connected"
             /\ Cardinality(Under(wire'[o], x))
                   + (IF leg'[o].other_side_ctrl_link_id = x THEN leg'[o].connect_cnter ELSE 0)
                       <= WireCap[o]
  <2>1. /\ x # 0 /\ x # leg[e].ctrl_link_id
        /\ leg[o].other_side_ctrl_link_id = x => leg[o].status # "connected"
        /\ Cardinality(Under(wire[o], x))
              + (IF leg[o].other_side_ctrl_link_id = x THEN leg[o].connect_cnter ELSE 0)
                  <= WireCap[o]
    BY <1>1, <1>2, <1>4 DEF Fades
  <2>2. x # leg'[e].ctrl_link_id BY <1>2, <2>1
  <2>3. Under(wire'[o], x) = Under(wire[o], x)
    <3>1. CASE wire'[o] = wire[o] BY <3>1
    <3>2. ASSUME NEW m \in Datagram, m.id = leg'[e].ctrl_link_id, wire'[o] = Append(wire[o], m)
          PROVE  Under(wire'[o], x) = Under(wire[o], x)
      BY <1>1, <2>2, <3>2, UnderAppend
    <3>3. QED BY <1>3, <3>1, <3>2
  <2>4. QED BY <1>1, <2>1, <2>2, <2>3
<1>6. QED BY <1>1, <1>5 DEF Fades, o

\* Adding one to a count and taking one away.
LEMMA CountOn ==
    ASSUME NEW a \in Nat, NEW b \in Nat, NEW c \in Nat, NEW cap \in Nat, a + 1 <= b, b + c <= cap
    PROVE  a + (c + 1) <= cap
OBVIOUS

\* A bound on a sum bounds a smaller sum.
LEMMA SmallerSum ==
    ASSUME NEW a \in Nat, NEW b \in Nat, NEW c \in Nat, NEW cap \in Nat, a <= b, b + c <= cap
    PROVE  a + c <= cap /\ a + 0 <= cap
OBVIOUS

\* What was under way to the end that makes a step stays within its bound as well.
LEMMA FadesAtEnd ==
    ASSUME EnoughHellos, LegInv, LegInv', NEW e \in LegEnds, Fades(e), Moves(e)
    PROVE  Fades(e)'
<1> DEFINE o == Other(e)
           known == leg[e].other_side_ctrl_link_id
           knows == leg'[e].other_side_ctrl_link_id
           cnt == leg[e].connect_cnter
           U(x) == Cardinality(Under(wire[e], x))
           V(x) == Cardinality(Under(wire'[e], x))
           cap == WireCap[e]
           After(x) == /\ x # 0 /\ x # leg[o].ctrl_link_id
                       /\ knows = x => leg'[e].status # "connected"
                       /\ V(x) + (IF knows = x THEN leg'[e].connect_cnter ELSE 0) <= cap
<1>1. o \in LegEnds /\ leg'[o] = leg[o] BY OtherEnd DEF Moves
<1>2. /\ wire[e] \in Seq(Datagram) /\ Len(wire[e]) <= cap /\ Placed(leg[e])
      /\ wire'[e] \in Seq(Datagram) /\ Len(wire'[e]) <= cap /\ cnt \in Nat
      /\ leg'[e].connect_cnter \in Nat
  BY LegConstants DEF LegInv, LegTypeOK, Datagram, WireHolds, EndOK, Network_Leg
<1>3. cap \in Nat /\ cap > 0 /\ cap < CONNECT_LINK_CNT /\ CONNECT_LINK_CNT \in Nat
  BY LegConstants DEF EnoughHellos
<1>4. ASSUME NEW x
      PROVE  /\ U(x) \in Nat /\ V(x) \in Nat /\ U(x) <= cap /\ V(x) <= cap /\ V(x) <= U(x)
             /\ V(x) + 0 <= cap /\ U(x) + 0 <= cap
  <2>1. U(x) \in Nat /\ U(x) <= Len(wire[e]) /\ Len(wire[e]) \in Nat BY <1>2, UnderFew
  <2>2. V(x) \in Nat /\ V(x) <= Len(wire'[e]) /\ Len(wire'[e]) \in Nat BY <1>2, UnderFew
  <2>3. V(x) <= U(x) BY UnderAfter
  <2> HIDE DEF U, V, cap
  <2>4. U(x) <= cap BY <1>2, <1>3, <2>1
  <2>5. V(x) <= cap BY <1>2, <1>3, <2>2
  <2>6. V(x) + 0 <= cap BY <1>3, <2>2, <2>5
  <2>7. U(x) + 0 <= cap BY <1>3, <2>1, <2>4
  <2>8. QED BY <2>1, <2>2, <2>3, <2>4, <2>5, <2>6, <2>7
<1>5. \A x \in stale[e] :
          /\ x # 0 /\ x # leg[o].ctrl_link_id /\ (known = x => leg[e].status # "connected")
          /\ U(x) + (IF known = x THEN cnt ELSE 0) <= cap
  BY DEF Fades
<1> HIDE DEF U, V, cap, o
<1>6. CASE Stays(e)
  <2>1. ASSUME NEW x \in stale'[e] PROVE After(x)
    <3>1. x \in stale[e] /\ knows = known /\ leg'[e].connect_cnter = cnt
          /\ leg'[e].status = leg[e].status
      BY <1>6, <2>1 DEF Stays
    <3>2. CASE known = x
      <4>1. U(x) + cnt <= cap BY <1>5, <3>1, <3>2
      <4>2. V(x) + cnt <= cap BY <1>2, <1>3, <1>4, <4>1, SmallerSum
      <4>3. QED BY <1>5, <3>1, <3>2, <4>2
    <3>3. CASE known # x BY <1>4, <1>5, <3>1, <3>3
    <3>4. QED BY <3>2, <3>3
  <2>2. QED BY <1>1, <2>1 DEF Fades, V, cap, o
<1>7. CASE Dies(e)
  <2>1. ASSUME NEW x \in stale'[e] PROVE After(x)
    <3>1. x \in stale[e]
      <4>1. stale \in [LegEnds -> SUBSET Nat] BY DEF LegInv, LegTypeOK
      <4>2. QED BY <1>7, <2>1, <4>1 DEF Dies
    <3>2. x # 0 /\ x # leg[o].ctrl_link_id /\ knows # x BY <1>5, <1>7, <3>1 DEF Dies
    <3>3. QED BY <1>4, <3>2
  <2>2. QED BY <1>1, <2>1 DEF Fades, V, cap, o
<1>8. CASE IsMade(e)
  <2>1. ASSUME NEW x \in stale'[e] PROVE After(x)
    <3>1. x # 0 /\ x # leg[o].ctrl_link_id
      BY <1>8, <2>1, NotedHistory DEF IsMade, Ids, o
    <3>2. knows # x BY <1>8, <3>1 DEF IsMade
    <3>3. QED BY <1>4, <3>1, <3>2
  <2>2. QED BY <1>1, <2>1 DEF Fades, V, cap, o
<1>9. CASE Counts(e)
  <2>1. wire[e] # <<>> /\ knows = wire[e][1].id /\ wire'[e] = Tail(wire[e]) /\ knows # 0
    <3>1. wire \in [LegEnds -> Seq(Datagram)] BY DEF LegInv, LegTypeOK, Datagram
    <3>2. QED BY <1>9, <3>1 DEF Counts, Rest
  <2>2. V(knows) + 1 <= U(knows) BY <1>2, <2>1, UnderTail DEF U, V
  <2>3. ASSUME NEW x \in stale'[e] PROVE After(x)
    <3>1. CASE leg[e].place = NONE
      <4>1. x # 0 /\ x # leg[o].ctrl_link_id
        BY <1>9, <2>3, <3>1, NotedHistory DEF Counts, Ids, o
      <4>2. CASE knows = x
        <5>1. leg[e].status # "connected" BY <1>2, <3>1 DEF Placed
        <5>2. /\ leg'[e].connect_cnter = 0 + 1
              /\ leg'[e].status = "connected" => 0 + 1 >= CONNECT_LINK_CNT
          BY <1>9, <3>1, <5>1 DEF Counts
        <5>3. V(x) + (0 + 1) <= cap BY <1>3, <1>4, <2>2, <4>2, CountOn
        <5>4. ~(0 + 1 >= CONNECT_LINK_CNT) BY <1>3
        <5>5. QED BY <4>1, <4>2, <5>2, <5>3, <5>4
      <4>3. CASE knows # x BY <1>4, <4>1, <4>3
      <4>4. QED BY <4>2, <4>3
    <3>2. CASE leg[e].place # NONE
      <4>1. x \in stale[e] BY <1>9, <2>3, <3>2 DEF Counts
      <4>2. x # 0 /\ x # leg[o].ctrl_link_id BY <1>5, <4>1
      <4>3. CASE knows = x
        <5>1. known \in {0, x} BY <1>9, <2>1, <4>3 DEF Counts
        <5>2. leg[e].status # "connected"
          <6>1. CASE known = x BY <1>5, <4>1, <6>1
          <6>2. CASE known = 0 BY <1>2, <6>2 DEF Placed
          <6>3. QED BY <5>1, <6>1, <6>2
        <5>3. /\ leg'[e].connect_cnter = cnt + 1
              /\ leg'[e].status = "connected" => cnt + 1 >= CONNECT_LINK_CNT
          BY <1>9, <3>2, <5>2 DEF Counts
        <5>4. U(x) + cnt <= cap
          <6>1. CASE known = x BY <1>5, <4>1, <6>1
          <6>2. CASE known = 0
            <7>1. cnt = 0 BY <1>2, <6>2 DEF Placed
            <7>2. QED BY <1>4, <7>1
          <6>3. QED BY <5>1, <6>1, <6>2
        <5>5. V(x) + (cnt + 1) <= cap BY <1>2, <1>3, <1>4, <2>2, <4>3, <5>4, CountOn
        <5>6. ~(cnt + 1 >= CONNECT_LINK_CNT)
          <6>1. V(x) \in Nat BY <1>4
          <6> HIDE DEF cnt
          <6>2. QED BY <1>2, <1>3, <5>5, <6>1
        <5>7. QED BY <4>2, <4>3, <5>3, <5>5, <5>6
      <4>4. CASE knows # x BY <1>4, <4>2, <4>4
      <4>5. QED BY <4>3, <4>4
    <3>3. QED BY <3>1, <3>2
  <2>4. QED BY <1>1, <2>3 DEF Fades, V, cap, o
<1>10. QED BY <1>6, <1>7, <1>8, <1>9 DEF Moves

\* ConnectedMeansLive: when CONNECT_LINK_CNT hellos are more than the network holds, no end
\* is ever connected to a control link that was dead when it made its own, whatever is
\* lost, overtakes or crashes, and however often the daemons start again.
THEOREM ConnectedToTheLiving ==
    ASSUME EnoughHellos
    PROVE  LegSpec => []ConnectedMeansLive
<1>1. LegInit => StaleFades
  <2>1. LegInit => \A e \in LegEnds : stale[e] = {} BY DEF LegInit
  <2>2. QED BY <2>1 DEF StaleFades, Fades
<1>2. LegInv /\ LegInv' /\ StaleFades /\ [LegNext]_legVars => StaleFades'
  <2>1. SUFFICES ASSUME LegInv, LegInv', StaleFades, [LegNext]_legVars PROVE StaleFades' OBVIOUS
  <2>2. CASE LegNext
    <3>1. PICK e \in LegEnds : Moves(e) BY <2>1, <2>2, StepMoves
    <3>2. Other(e) \in LegEnds /\ \A d \in LegEnds : d = e \/ d = Other(e)
      BY OtherEnd DEF LegEnds, Other
    <3>3. Fades(e) /\ Fades(Other(e)) BY <2>1, <3>2 DEF StaleFades
    <3>4. Fades(e)' BY <2>1, <3>1, <3>3, FadesAtEnd
    <3>5. Fades(Other(e))' BY <2>1, <3>1, <3>3, FadesAtOther
    <3>6. QED BY <3>2, <3>4, <3>5 DEF StaleFades
  <2>3. CASE UNCHANGED legVars BY <2>1, <2>3 DEF legVars, StaleFades, Fades, Under
  <2>4. QED BY <2>1, <2>2, <2>3
<1>3. StaleFades => ConnectedMeansLive BY DEF StaleFades, Fades, ConnectedMeansLive
<1>4. QED BY <1>1, <1>2, <1>3, LegInvariant, PTL DEF LegSpec
=============================================================================
