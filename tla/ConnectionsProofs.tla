-------------------------- MODULE ConnectionsProofs --------------------------
(***************************************************************************)
(* ConnectionsSound for every number of threads, slots, connections and    *)
(* addresses.  The inductive invariant says for whom each node is kept:    *)
(* its reference count covers the service threads that copied it, the      *)
(* openers that are setting it up and, while it is in vNodes and has been  *)
(* marked, its maker.                                                      *)
(***************************************************************************)
EXTENDS Connections, FiniteSetTheorems, WellFoundedInduction, TLAPS

Holders(i) == {t \in Threads : i \in copy[t]}
Setters(i) == {o \in Openers : opener[o].pc \in {"move", "mark"} /\ opener[o].id = i}
Owned(i) == nodes[i].where = "vNodes" /\ (nodes[i].fInbound \/ nodes[i].fNetworkNode)

(* DisconnectNodes releases the reference of an owned node's maker. *)
RefsCounted ==
    \A i \in DOMAIN nodes :
        nodes[i].nRefCount >=
            Cardinality(Holders(i)) + Cardinality(Setters(i)) + (IF Owned(i) THEN 1 ELSE 0)

(* A deleted node has nothing left: no reference and no grant. *)
DeletedIsFreed ==
    \A i \in DOMAIN nodes : nodes[i].where = "deleted" => nodes[i] = Freed

(* A grant is with an opener only from Acquire to MoveTo. *)
OpenersInOrder ==
    \A o \in Openers :
        /\ opener[o].pc \in {"move", "mark"} => opener[o].id \in DOMAIN nodes
        /\ opener[o].grant <=> o \in Granted /\ opener[o].pc \in {"choose", "connect", "move"}

IInv ==
    /\ TypeOK /\ RefsCounted /\ DeletedIsFreed /\ OpenersInOrder
    /\ SlotsConserved /\ InboundBounded

Slots == {i \in DOMAIN nodes : nodes[i].grantOutbound}
Carriers == {o \in Openers : opener[o].grant}
Staying == {i \in Alive : nodes[i].fInbound}

-----------------------------------------------------------------------------
(* Finite sets and their sizes. *)

\* Ids are 1 .. n in the order of creation, so the next id is new.
LEMMA NodeIds ==
    ASSUME TypeOK
    PROVE  /\ Cardinality(DOMAIN nodes) \in 0..MaxNodes
           /\ DOMAIN nodes = 1..Cardinality(DOMAIN nodes)
           /\ nodes \in [DOMAIN nodes -> Node]
           /\ IsFiniteSet(DOMAIN nodes)
           /\ Cardinality(DOMAIN nodes) + 1 \notin DOMAIN nodes
<1>1. PICK n \in 0..MaxNodes : nodes \in [1..n -> Node]
  BY Zenon DEF TypeOK
<1>2. n \in Nat /\ DOMAIN nodes = 1..n
  BY SMTT(30), <1>1, LimitAssumption
<1>3. IsFiniteSet(1..n) /\ Cardinality(1..n) = n
  BY SMTT(30), <1>2, FS_Interval
<1> QED BY SMTT(30), <1>1, <1>2, <1>3

\* Sets of nodes, of openers and of service threads are finite.
LEMMA FiniteParts ==
    ASSUME TypeOK
    PROVE  /\ \A S \in SUBSET DOMAIN nodes : IsFiniteSet(S) /\ Cardinality(S) \in Nat
           /\ \A S \in SUBSET Openers : IsFiniteSet(S) /\ Cardinality(S) \in Nat
           /\ \A S \in SUBSET Threads : IsFiniteSet(S) /\ Cardinality(S) \in Nat
<1>1. IsFiniteSet(DOMAIN nodes) /\ IsFiniteSet(Openers)
  BY Zenon, NodeIds, OpenerAssumption
<1>2. IsFiniteSet(Threads)
  <2>1. Threads = {"net"} \cup {"msghand"}
    BY Zenon DEF Threads
  <2> QED BY Zenon, <2>1, FS_Singleton, FS_Union
<1> QED BY Zenon, <1>1, <1>2, FS_Subset, FS_CardinalityType

\* What a node is held by is counted in natural numbers.
LEMMA Counts ==
    ASSUME TypeOK, NEW i
    PROVE  /\ Cardinality(Holders(i)) \in Nat /\ IsFiniteSet(Holders(i))
           /\ Cardinality(Setters(i)) \in Nat /\ IsFiniteSet(Setters(i))
<1>1. Holders(i) \in SUBSET Threads /\ Setters(i) \in SUBSET Openers
  BY Zenon DEF Holders, Setters
<1> QED BY Zenon, <1>1, FiniteParts

\* A node that some thread or opener holds is not deleted.
LEMMA HeldIsKept ==
    ASSUME TypeOK, RefsCounted, DeletedIsFreed, NEW i \in DOMAIN nodes,
           Holders(i) # {} \/ Setters(i) # {}
    PROVE  nodes[i].where # "deleted"
<1>1. Cardinality(Holders(i)) # 0 \/ Cardinality(Setters(i)) # 0
  BY Zenon, Counts, FS_EmptySet
<1>2. /\ Cardinality(Holders(i)) \in Nat /\ Cardinality(Setters(i)) \in Nat
      /\ nodes[i].nRefCount >= Cardinality(Holders(i)) + Cardinality(Setters(i))
                                  + (IF Owned(i) THEN 1 ELSE 0)
  BY Zenon, Counts DEF RefsCounted
<1>3. nodes[i].nRefCount # 0
  <2>1. (IF Owned(i) THEN 1 ELSE 0) \in {0, 1}
    BY Zenon
  <2> QED BY SMTT(30), <1>1, <1>2, <2>1
<1>4. Freed.nRefCount = 0
  BY Zenon DEF Freed, CNode
<1> QED BY Zenon, <1>3, <1>4 DEF DeletedIsFreed

\* Connections that only close, or that are not inbound, keep within the limit.
LEMMA FewerStay ==
    ASSUME TypeOK, InboundBounded, Staying' \subseteq Staying
    PROVE  InboundBounded'
<1>1. IsFiniteSet(Staying)
  <2>1. Staying \in SUBSET DOMAIN nodes
    BY Zenon DEF Staying, Alive, Listed
  <2> QED BY Zenon, <2>1, FiniteParts
<1>2. Cardinality(Staying') <= Cardinality(Staying) /\ IsFiniteSet(Staying')
  BY Zenon, <1>1, FS_Subset
<1>3. Cardinality(Staying') \in Nat /\ Cardinality(Staying) \in Nat /\ nMaxInbound \in Nat
  BY Zenon, <1>1, <1>2, FS_CardinalityType, LimitAssumption
<1>4. Cardinality(Staying) <= nMaxInbound
  BY Zenon DEF InboundBounded, Staying
<1>5. Cardinality(Staying') <= nMaxInbound
  BY SMTT(30), <1>2, <1>3, <1>4
<1> QED BY Zenon, <1>5 DEF InboundBounded, Staying

\* The slots of the nodes in G are given back and the nodes lose them.
LEMMA SlotsReturned ==
    ASSUME TypeOK, SlotsConserved, NEW G \in SUBSET Slots,
           Slots' = Slots \ G, Carriers' = Carriers, permits' = permits + Cardinality(G)
    PROVE  SlotsConserved' /\ permits' \in 0..nMaxOutbound
<1>1. /\ IsFiniteSet(Slots) /\ Cardinality(Slots) \in Nat
      /\ Cardinality(G) \in Nat /\ Cardinality(Slots \ G) \in Nat
  <2>1. /\ Slots \in SUBSET DOMAIN nodes /\ G \in SUBSET DOMAIN nodes
        /\ Slots \ G \in SUBSET DOMAIN nodes
    BY Zenon DEF Slots
  <2> QED BY Zenon, <2>1, FiniteParts
<1>2. Cardinality(Slots \ G) = Cardinality(Slots) - Cardinality(G)
  <2>1. Cardinality(Slots \ G) = Cardinality(Slots) - Cardinality(Slots \cap G)
    BY Zenon, <1>1, FS_Difference
  <2>2. Slots \cap G = G
    BY Zenon
  <2> QED BY Zenon, <2>1, <2>2
<1>3. Cardinality(Carriers) \in Nat
  BY Zenon, FiniteParts DEF Carriers
<1>4. permits + Cardinality(Carriers) + Cardinality(Slots) = nMaxOutbound
  BY Zenon DEF SlotsConserved, Carriers, Slots
<1>5. permits \in Nat /\ nMaxOutbound \in Nat
  BY SMTT(30), LimitAssumption DEF TypeOK
<1>6. permits' + Cardinality(Carriers') + Cardinality(Slots') = nMaxOutbound
  <2>1. Cardinality(Slots') = Cardinality(Slots) - Cardinality(G)
    BY Zenon, <1>2
  <2>2. Cardinality(Carriers') = Cardinality(Carriers)
    BY Zenon
  <2> QED BY SMTT(30), <1>1, <1>3, <1>4, <1>5, <2>1, <2>2
<1>7. permits' \in 0..nMaxOutbound
  <2>1. Cardinality(Slots') \in Nat /\ Cardinality(Carriers') \in Nat
    BY Zenon, <1>1, <1>3
  <2>2. permits' \in Nat
    BY SMTT(30), <1>1, <1>5
  <2> QED BY SMTT(30), <1>5, <1>6, <2>1, <2>2
<1> QED BY Zenon, <1>6, <1>7 DEF SlotsConserved, Carriers, Slots

\* No slot changes hands.
LEMMA SlotsStay ==
    ASSUME TypeOK, SlotsConserved, Slots' = Slots, Carriers' = Carriers, permits' = permits
    PROVE  SlotsConserved' /\ permits' \in 0..nMaxOutbound
BY Zenon DEF SlotsConserved, Slots, Carriers, TypeOK

-----------------------------------------------------------------------------
(* Types. *)

\* A change of one field of a node gives a node.
LEMMA NodeFields ==
    ASSUME NEW nd \in Node, NEW b \in BOOLEAN, NEW k \in Nat
    PROVE  /\ [nd EXCEPT !.fDisconnect = b] \in Node
           /\ [nd EXCEPT !.fNetworkNode = b] \in Node
           /\ [nd EXCEPT !.grantOutbound = b] \in Node
           /\ [nd EXCEPT !.nRefCount = k] \in Node
BY Zenon DEF Node

\* The constructor and the destructor give nodes.
LEMMA NewNode ==
    ASSUME NEW addr \in Addresses, NEW b \in BOOLEAN, NEW w \in BOOLEAN
    PROVE  CNode(addr, b, w) \in Node /\ Freed \in Node
BY Zenon DEF Node, CNode, Freed, Addresses

\* A step that changes nodes in place.
LEMMA SameIds ==
    ASSUME TypeOK, nodes' \in [DOMAIN nodes -> Node]
    PROVE  DOMAIN nodes' = DOMAIN nodes /\ (\E n \in 0..MaxNodes : nodes' \in [1..n -> Node])
<1>1. PICK n \in 0..MaxNodes : nodes \in [1..n -> Node]
  BY Zenon DEF TypeOK
<1>2. DOMAIN nodes = 1..n
  BY Zenon, <1>1
<1> QED BY Zenon, <1>2

\* A step that makes a node.
LEMMA OneMore ==
    ASSUME TypeOK, CanMake, NEW nd \in Node
    PROVE  /\ \E n \in 0..MaxNodes : WithNode(nd) \in [1..n -> Node]
           /\ DOMAIN WithNode(nd) = DOMAIN nodes \cup {Cardinality(DOMAIN nodes) + 1}
           /\ \A i \in DOMAIN nodes : WithNode(nd)[i] = nodes[i]
           /\ WithNode(nd)[Cardinality(DOMAIN nodes) + 1] = nd
<1> DEFINE n == Cardinality(DOMAIN nodes)
<1>1. /\ n \in 0..MaxNodes /\ DOMAIN nodes = 1..n /\ nodes \in [1..n -> Node]
      /\ n + 1 \notin DOMAIN nodes /\ MaxNodes \in Nat
  BY Zenon, NodeIds, LimitAssumption
<1>2. n + 1 \in 0..MaxNodes
  BY SMTT(30), <1>1 DEF CanMake
<1>3. DOMAIN nodes \cup {n + 1} = 1..(n + 1)
  BY SMTT(30), <1>1
<1>4. WithNode(nd) = [i \in DOMAIN nodes \cup {n + 1} |-> IF i \in DOMAIN nodes THEN nodes[i] ELSE nd]
  BY Zenon DEF WithNode
<1> HIDE DEF n
<1>5. WithNode(nd) \in [1..(n + 1) -> Node]
  BY Zenon, <1>1, <1>3, <1>4
<1>6. /\ DOMAIN WithNode(nd) = DOMAIN nodes \cup {n + 1}
      /\ \A i \in DOMAIN nodes : WithNode(nd)[i] = nodes[i]
      /\ WithNode(nd)[n + 1] = nd
  BY Zenon, <1>1, <1>4
<1> QED BY Zenon, <1>2, <1>5, <1>6 DEF n

-----------------------------------------------------------------------------
(* One lemma for each kind of step. *)

\* Marking a node fDisconnect (Fail, disconnectnode, setban) takes nothing from it.
LEMMA FlagStep ==
    ASSUME IInv, NEW j \in DOMAIN nodes, nodes[j].where # "deleted",
           nodes' = [nodes EXCEPT ![j].fDisconnect = TRUE],
           UNCHANGED <<permits, copy, at, opener>>,
           setBanned' \subseteq Subnets, banning' \in Subnets \cup {None}
    PROVE  IInv'
<1> USE DEF IInv
<1>1. nodes \in [DOMAIN nodes -> Node]
  BY Zenon, NodeIds
<1>2. nodes' \in [DOMAIN nodes -> Node]
  <2>1. [nodes[j] EXCEPT !.fDisconnect = TRUE] \in Node
    BY Zenon, <1>1, NodeFields
  <2> QED BY Zenon, <1>1, <2>1
<1>3. /\ DOMAIN nodes' = DOMAIN nodes
      /\ \E n \in 0..MaxNodes : nodes' \in [1..n -> Node]
  BY Zenon, <1>2, SameIds
<1>4. \A i \in DOMAIN nodes :
          /\ nodes'[i].where = nodes[i].where /\ nodes'[i].nRefCount = nodes[i].nRefCount
          /\ nodes'[i].grantOutbound = nodes[i].grantOutbound
          /\ nodes'[i].fInbound = nodes[i].fInbound /\ nodes'[i].fNetworkNode = nodes[i].fNetworkNode
          /\ nodes[i].fDisconnect => nodes'[i].fDisconnect
          /\ i # j => nodes'[i] = nodes[i]
  BY Zenon, <1>1 DEF Node
<1>5. SlotsConserved' /\ permits' \in 0..nMaxOutbound
  <2>1. Slots' = Slots /\ Carriers' = Carriers
    BY SMTT(30), <1>3, <1>4 DEF Slots, Carriers
  <2> QED BY Zenon, <2>1, SlotsStay
<1>6. TypeOK'
  BY Zenon, <1>3, <1>5 DEF TypeOK
<1>7. RefsCounted'
  <2>1. \A i \in DOMAIN nodes : /\ Holders(i)' = Holders(i) /\ Setters(i)' = Setters(i)
                                /\ Owned(i)' = Owned(i)
    BY ZenonT(60), <1>4 DEF Holders, Setters, Owned
  <2> QED BY ZenonT(60), <1>3, <1>4, <2>1 DEF RefsCounted
<1>8. DeletedIsFreed'
  BY ZenonT(60), <1>3, <1>4 DEF DeletedIsFreed, Freed, CNode
<1>9. OpenersInOrder'
  BY Zenon, <1>3 DEF OpenersInOrder
<1>10. InboundBounded'
  <2>1. Staying' \subseteq Staying
    BY Zenon, <1>3, <1>4 DEF Staying, Alive, Listed
  <2> QED BY Zenon, <2>1, FewerStay
<1> QED BY Zenon, <1>5, <1>6, <1>7, <1>8, <1>9, <1>10

\* DisconnectNodes gives back the slots, and the references, of the nodes it
\* takes off the list.
LEMMA DisconnectNodesStep ==
    ASSUME IInv, DisconnectNodes
    PROVE  IInv'
<1> USE DEF IInv
<1> DEFINE out == {i \in Listed : nodes[i].fDisconnect \/ nodes[i].nRefCount <= 0}
           ref(i) == IF nodes[i].fNetworkNode \/ nodes[i].fInbound
                     THEN nodes[i].nRefCount - 1 ELSE nodes[i].nRefCount
<1>1. /\ nodes' = [i \in DOMAIN nodes |->
                  IF i \notin out THEN nodes[i]
                  ELSE [nodes[i] EXCEPT !.where = "vNodesDisconnected", !.grantOutbound = FALSE,
                                        !.fDisconnect = TRUE, !.nRefCount = ref(i)]]
      /\ permits' = permits + Cardinality({i \in out : nodes[i].grantOutbound})
      /\ at' = "delete" /\ UNCHANGED <<copy, opener, setBanned, banning>>
  BY Zenon DEF DisconnectNodes
<1>2. nodes \in [DOMAIN nodes -> Node] /\ out \subseteq DOMAIN nodes
  BY Zenon, NodeIds DEF Listed
<1>3. \A i \in DOMAIN nodes :
          /\ nodes[i].nRefCount \in Nat
          /\ Cardinality(Holders(i)) \in Nat /\ Cardinality(Setters(i)) \in Nat
          /\ nodes[i].nRefCount >= Cardinality(Holders(i)) + Cardinality(Setters(i))
                                    + (IF Owned(i) THEN 1 ELSE 0)
  BY Zenon, <1>2, Counts DEF RefsCounted, Node
<1>4. \A i \in out : /\ nodes[i].where = "vNodes"
                     /\ ref(i) \in Nat
                     /\ ref(i) >= Cardinality(Holders(i)) + Cardinality(Setters(i))
  <2> SUFFICES ASSUME NEW i \in out
               PROVE  /\ nodes[i].where = "vNodes"
                      /\ ref(i) \in Nat
                      /\ ref(i) >= Cardinality(Holders(i)) + Cardinality(Setters(i))
    BY Zenon
  <2>1. nodes[i].where = "vNodes"
    BY Zenon DEF Listed
  <2>2. Owned(i) <=> (nodes[i].fNetworkNode \/ nodes[i].fInbound)
    BY Zenon, <2>1 DEF Owned
  <2> QED BY SMTT(30), <1>2, <1>3, <2>1, <2>2
<1>5. \A i \in out :
          /\ nodes'[i].where = "vNodesDisconnected" /\ nodes'[i].nRefCount = ref(i)
          /\ nodes'[i].grantOutbound = FALSE /\ nodes'[i] \in Node
  BY ZenonT(60), <1>1, <1>2, <1>4 DEF Node
<1>6. \A i \in DOMAIN nodes \ out : nodes'[i] = nodes[i]
  BY Zenon, <1>1
<1> HIDE DEF out, ref
<1>7. nodes' \in [DOMAIN nodes -> Node]
  <2>1. \A i \in DOMAIN nodes : nodes'[i] \in Node
    BY Zenon, <1>2, <1>5, <1>6
  <2>2. nodes' = [i \in DOMAIN nodes |-> nodes'[i]]
    BY Zenon, <1>1
  <2> QED BY Zenon, <2>1, <2>2
<1>8. /\ DOMAIN nodes' = DOMAIN nodes
      /\ \E n \in 0..MaxNodes : nodes' \in [1..n -> Node]
  BY Zenon, <1>7, SameIds
<1>9. SlotsConserved' /\ permits' \in 0..nMaxOutbound
  <2> DEFINE G == {i \in out : nodes[i].grantOutbound}
  <2>1. G \in SUBSET Slots /\ Slots' = Slots \ G
    BY Zenon, <1>2, <1>5, <1>6, <1>8 DEF Slots
  <2>2. Carriers' = Carriers /\ permits' = permits + Cardinality(G)
    BY Zenon, <1>1 DEF Carriers
  <2> HIDE DEF G
  <2> QED BY Zenon, <2>1, <2>2, SlotsReturned
<1>10. TypeOK'
  BY Zenon, <1>1, <1>8, <1>9 DEF TypeOK
<1>11. RefsCounted'
  <2> SUFFICES ASSUME NEW i \in DOMAIN nodes
               PROVE  nodes'[i].nRefCount >= Cardinality(Holders(i)') + Cardinality(Setters(i)')
                                              + (IF Owned(i)' THEN 1 ELSE 0)
    BY Zenon, <1>8 DEF RefsCounted
  <2>1. Holders(i)' = Holders(i) /\ Setters(i)' = Setters(i)
    BY Zenon, <1>1 DEF Holders, Setters
  <2>2. CASE i \in out
    <3>1. ~Owned(i)'
      BY Zenon, <1>5, <2>2 DEF Owned
    <3> QED BY SMTT(30), <1>3, <1>4, <1>5, <2>1, <2>2, <3>1
  <2>3. CASE i \notin out
    <3>1. Owned(i)' = Owned(i)
      BY Zenon, <1>6, <2>3 DEF Owned
    <3> QED BY Zenon, <1>3, <1>6, <2>1, <2>3, <3>1
  <2> QED BY Zenon, <2>2, <2>3
<1>12. DeletedIsFreed'
  BY Zenon, <1>5, <1>6, <1>8 DEF DeletedIsFreed, Freed, CNode
<1>13. OpenersInOrder'
  BY Zenon, <1>1, <1>8 DEF OpenersInOrder
<1>14. InboundBounded'
  <2>1. Staying' \subseteq Staying
    BY Zenon, <1>5, <1>6, <1>8 DEF Staying, Alive, Listed
  <2> QED BY Zenon, <2>1, FewerStay
<1> QED BY Zenon, <1>9, <1>10, <1>11, <1>12, <1>13, <1>14

\* DeleteNodes frees only nodes that nobody holds.
LEMMA DeleteNodesStep ==
    ASSUME IInv, DeleteNodes
    PROVE  IInv'
<1> USE DEF IInv
<1> DEFINE out == {i \in Leaving : nodes[i].nRefCount <= 0}
<1>1. /\ nodes' = [i \in DOMAIN nodes |-> IF i \in out THEN Freed ELSE nodes[i]]
      /\ permits' = permits + Cardinality({i \in out : nodes[i].grantOutbound})
      /\ at' = "accept" /\ UNCHANGED <<copy, opener, setBanned, banning>>
  BY Zenon DEF DeleteNodes
<1>2. nodes \in [DOMAIN nodes -> Node] /\ out \subseteq DOMAIN nodes
  BY Zenon, NodeIds DEF Leaving
<1>3. \A i \in DOMAIN nodes :
          /\ nodes[i].nRefCount \in Nat
          /\ Cardinality(Holders(i)) \in Nat /\ Cardinality(Setters(i)) \in Nat
          /\ nodes[i].nRefCount >= Cardinality(Holders(i)) + Cardinality(Setters(i))
                                    + (IF Owned(i) THEN 1 ELSE 0)
  BY Zenon, <1>2, Counts DEF RefsCounted, Node
<1>4. \A i \in out : Cardinality(Holders(i)) = 0 /\ Cardinality(Setters(i)) = 0
  <2> SUFFICES ASSUME NEW i \in out
               PROVE  Cardinality(Holders(i)) = 0 /\ Cardinality(Setters(i)) = 0
    BY Zenon
  <2>1. nodes[i].nRefCount <= 0 /\ (IF Owned(i) THEN 1 ELSE 0) \in {0, 1} /\ i \in DOMAIN nodes
    BY Zenon, <1>2
  <2> HIDE DEF out
  <2> QED BY SMTT(30), <1>3, <2>1
<1>5. /\ Freed \in Node /\ Freed.where = "deleted" /\ Freed.nRefCount = 0
      /\ Freed.grantOutbound = FALSE
  BY Zenon DEF Freed, CNode, Node, Addresses
<1>6. /\ \A i \in out : nodes'[i] = Freed
      /\ \A i \in DOMAIN nodes \ out : nodes'[i] = nodes[i]
  BY Zenon, <1>1, <1>2
<1>7. nodes' \in [DOMAIN nodes -> Node]
  BY Zenon, <1>1, <1>2, <1>5
<1> HIDE DEF out
<1>8. /\ DOMAIN nodes' = DOMAIN nodes
      /\ \E n \in 0..MaxNodes : nodes' \in [1..n -> Node]
  BY Zenon, <1>7, SameIds
<1>9. SlotsConserved' /\ permits' \in 0..nMaxOutbound
  <2> DEFINE G == {i \in out : nodes[i].grantOutbound}
  <2>1. G \in SUBSET Slots /\ Slots' = Slots \ G
    BY Zenon, <1>2, <1>5, <1>6, <1>8 DEF Slots
  <2>2. Carriers' = Carriers /\ permits' = permits + Cardinality(G)
    BY Zenon, <1>1 DEF Carriers
  <2> HIDE DEF G
  <2> QED BY Zenon, <2>1, <2>2, SlotsReturned
<1>10. TypeOK'
  BY Zenon, <1>1, <1>8, <1>9 DEF TypeOK
<1>11. RefsCounted'
  <2> SUFFICES ASSUME NEW i \in DOMAIN nodes
               PROVE  nodes'[i].nRefCount >= Cardinality(Holders(i)') + Cardinality(Setters(i)')
                                              + (IF Owned(i)' THEN 1 ELSE 0)
    BY Zenon, <1>8 DEF RefsCounted
  <2>1. Holders(i)' = Holders(i) /\ Setters(i)' = Setters(i)
    BY Zenon, <1>1 DEF Holders, Setters
  <2>2. CASE i \in out
    <3>1. ~Owned(i)'
      BY Zenon, <1>5, <1>6, <2>2 DEF Owned
    <3> QED BY SMTT(30), <1>4, <1>5, <1>6, <2>1, <2>2, <3>1
  <2>3. CASE i \notin out
    <3>1. Owned(i)' = Owned(i)
      BY Zenon, <1>6, <2>3 DEF Owned
    <3> QED BY Zenon, <1>3, <1>6, <2>1, <2>3, <3>1
  <2> QED BY Zenon, <2>2, <2>3
<1>12. DeletedIsFreed'
  <2>1. Freed' = Freed
    BY Zenon DEF Freed, CNode
  <2> QED BY Zenon, <1>6, <1>8, <2>1 DEF DeletedIsFreed
<1>13. OpenersInOrder'
  BY Zenon, <1>1, <1>8 DEF OpenersInOrder
<1>14. InboundBounded'
  <2>1. Staying' \subseteq Staying
    BY Zenon, <1>5, <1>6, <1>8 DEF Staying, Alive, Listed
  <2> QED BY Zenon, <2>1, FewerStay
<1> QED BY Zenon, <1>9, <1>10, <1>11, <1>12, <1>13, <1>14

\* A thread's copies and its references come and go together: what Reference and
\* Release leave alone, for the nodes S whose counts they change.
LEMMA CopyStep ==
    ASSUME IInv, NEW S \in SUBSET DOMAIN nodes, NEW ref \in [S -> Nat],
           nodes' = [i \in DOMAIN nodes |->
                        IF i \in S THEN [nodes[i] EXCEPT !.nRefCount = ref[i]] ELSE nodes[i]],
           \A i \in S : nodes[i].where # "deleted",
           \A i \in DOMAIN nodes :
               nodes'[i].nRefCount >= Cardinality(Holders(i)') + Cardinality(Setters(i))
                                        + (IF Owned(i) THEN 1 ELSE 0),
           copy' \in [Threads -> SUBSET DOMAIN nodes],
           at' \in {"disconnect", "delete", "accept", "service"},
           UNCHANGED <<permits, opener, setBanned, banning>>
    PROVE  IInv'
<1> USE DEF IInv
<1>1. nodes \in [DOMAIN nodes -> Node]
  BY Zenon, NodeIds
<1>2. nodes' \in [DOMAIN nodes -> Node]
  BY Zenon, <1>1, NodeFields
<1>3. /\ DOMAIN nodes' = DOMAIN nodes
      /\ \E n \in 0..MaxNodes : nodes' \in [1..n -> Node]
  BY Zenon, <1>2, SameIds
<1>4. \A i \in DOMAIN nodes :
          /\ nodes'[i].where = nodes[i].where
          /\ nodes'[i].grantOutbound = nodes[i].grantOutbound
          /\ nodes'[i].fInbound = nodes[i].fInbound /\ nodes'[i].fNetworkNode = nodes[i].fNetworkNode
          /\ nodes'[i].fDisconnect = nodes[i].fDisconnect
          /\ nodes[i].where = "deleted" => nodes'[i] = nodes[i]
  BY ZenonT(60), <1>1 DEF Node
<1>5. SlotsConserved' /\ permits' \in 0..nMaxOutbound
  <2>1. Slots' = Slots /\ Carriers' = Carriers
    BY SMTT(30), <1>3, <1>4 DEF Slots, Carriers
  <2> QED BY Zenon, <2>1, SlotsStay
<1>6. TypeOK'
  BY Zenon, <1>3, <1>5 DEF TypeOK
<1>7. RefsCounted'
  <2>1. \A i \in DOMAIN nodes : Setters(i)' = Setters(i) /\ Owned(i)' = Owned(i)
    BY ZenonT(60), <1>4 DEF Setters, Owned
  <2> QED BY Zenon, <1>3, <2>1 DEF RefsCounted
<1>8. DeletedIsFreed'
  <2>1. Freed' = Freed
    BY Zenon DEF Freed, CNode
  <2> QED BY SMTT(30), <1>3, <1>4, <2>1 DEF DeletedIsFreed
<1>9. OpenersInOrder'
  BY Zenon, <1>3 DEF OpenersInOrder
<1>10. InboundBounded'
  <2>1. Staying' \subseteq Staying
    BY SMTT(30), <1>3, <1>4 DEF Staying, Alive, Listed
  <2> QED BY Zenon, <2>1, FewerStay
<1> QED BY Zenon, <1>5, <1>6, <1>7, <1>8, <1>9, <1>10

\* Reference: every node of the list is held by one thread more.
LEMMA ReferenceStep ==
    ASSUME IInv, NEW t \in Threads, Reference(t)
    PROVE  IInv'
<1> USE DEF IInv
<1> DEFINE ref == [i \in Listed |-> nodes[i].nRefCount + 1]
<1>1. nodes \in [DOMAIN nodes -> Node] /\ Listed \in SUBSET DOMAIN nodes
  BY Zenon, NodeIds DEF Listed
<1>2. ref \in [Listed -> Nat]
  BY SMTT(30), <1>1 DEF Node
<1>3. nodes' = [i \in DOMAIN nodes |->
                   IF i \in Listed THEN [nodes[i] EXCEPT !.nRefCount = ref[i]] ELSE nodes[i]]
  BY Zenon DEF Reference
<1>4. \A i \in Listed : nodes[i].where # "deleted"
  BY Zenon DEF Listed
<1>5. copy \in [Threads -> SUBSET DOMAIN nodes] /\ copy' = [copy EXCEPT ![t] = Listed] /\ copy[t] = {}
  BY Zenon DEF Reference, TypeOK
<1>6. ASSUME NEW i \in DOMAIN nodes
      PROVE  nodes'[i].nRefCount >= Cardinality(Holders(i)') + Cardinality(Setters(i))
                                     + (IF Owned(i) THEN 1 ELSE 0)
  <2>1. /\ nodes[i].nRefCount \in Nat
        /\ Cardinality(Holders(i)) \in Nat /\ Cardinality(Setters(i)) \in Nat /\ IsFiniteSet(Holders(i))
        /\ nodes[i].nRefCount >= Cardinality(Holders(i)) + Cardinality(Setters(i))
                                  + (IF Owned(i) THEN 1 ELSE 0)
    BY Zenon, <1>1, Counts DEF RefsCounted, Node
  <2>2. CASE i \in Listed
    <3>1. Holders(i)' = Holders(i) \cup {t} /\ t \notin Holders(i)
      BY Zenon, <1>5, <2>2 DEF Holders
    <3>2. Cardinality(Holders(i)') = Cardinality(Holders(i)) + 1
      BY Zenon, <2>1, <3>1, FS_AddElement
    <3>3. nodes'[i].nRefCount = nodes[i].nRefCount + 1
      BY Zenon, <1>1, <1>3, <2>2 DEF Node
    <3> QED BY SMTT(30), <2>1, <3>2, <3>3
  <2>3. CASE i \notin Listed
    <3>1. Holders(i)' = Holders(i)
      BY Zenon, <1>5, <2>3 DEF Holders
    <3>2. nodes'[i] = nodes[i]
      BY Zenon, <1>3, <2>3
    <3> QED BY Zenon, <2>1, <3>1, <3>2
  <2> QED BY Zenon, <2>2, <2>3
<1>7. copy' \in [Threads -> SUBSET DOMAIN nodes]
  BY Zenon, <1>1, <1>5
<1>8. /\ at' \in {"disconnect", "delete", "accept", "service"}
      /\ UNCHANGED <<permits, opener, setBanned, banning>>
  BY Zenon DEF Reference, TypeOK
<1> HIDE DEF ref, IInv
<1> QED BY Zenon, <1>1, <1>2, <1>3, <1>4, <1>6, <1>7, <1>8, CopyStep

\* Release: every node the thread had copied is held by one thread less.
LEMMA ReleaseStep ==
    ASSUME IInv, NEW t \in Threads, Release(t)
    PROVE  IInv'
<1> USE DEF IInv
<1> DEFINE ref == [i \in copy[t] |-> nodes[i].nRefCount - 1]
<1>1. nodes \in [DOMAIN nodes -> Node] /\ copy[t] \in SUBSET DOMAIN nodes
  BY Zenon, NodeIds DEF TypeOK
<1>2. \A i \in DOMAIN nodes :
        /\ nodes[i].nRefCount \in Nat
        /\ Cardinality(Holders(i)) \in Nat /\ Cardinality(Setters(i)) \in Nat /\ IsFiniteSet(Holders(i))
        /\ nodes[i].nRefCount >= Cardinality(Holders(i)) + Cardinality(Setters(i))
                                  + (IF Owned(i) THEN 1 ELSE 0)
  BY Zenon, <1>1, Counts DEF RefsCounted, Node
<1>3. /\ copy \in [Threads -> SUBSET DOMAIN nodes] /\ copy' = [copy EXCEPT ![t] = {}]
      /\ nodes' = [i \in DOMAIN nodes |->
                   IF i \in copy[t] THEN [nodes[i] EXCEPT !.nRefCount = ref[i]] ELSE nodes[i]]
  BY Zenon DEF Release, TypeOK
<1>4. \A i \in copy[t] : /\ t \in Holders(i) /\ Holders(i)' = Holders(i) \ {t}
                         /\ nodes[i].where # "deleted"
  <2>1. \A i \in copy[t] : t \in Holders(i) /\ Holders(i)' = Holders(i) \ {t}
    BY Zenon, <1>3 DEF Holders
  <2> QED BY Zenon, <1>1, <2>1, HeldIsKept
<1>5. \A i \in copy[t] : /\ Cardinality(Holders(i)') = Cardinality(Holders(i)) - 1
                         /\ Cardinality(Holders(i)') \in Nat
  <2> SUFFICES ASSUME NEW i \in copy[t]
               PROVE  /\ Cardinality(Holders(i)') = Cardinality(Holders(i)) - 1
                      /\ Cardinality(Holders(i)') \in Nat
    BY Zenon
  <2>1. IsFiniteSet(Holders(i)) /\ t \in Holders(i) /\ Holders(i)' = Holders(i) \ {t}
    BY Zenon, <1>1, <1>2, <1>4
  <2>2. Cardinality(Holders(i) \ {t}) = Cardinality(Holders(i)) - 1 /\ IsFiniteSet(Holders(i) \ {t})
    BY Zenon, <2>1, FS_RemoveElement
  <2> QED BY Zenon, <2>1, <2>2, FS_CardinalityType
<1>6. ref \in [copy[t] -> Nat]
  <2>1. \A i \in copy[t] : nodes[i].nRefCount - 1 \in Nat
    BY SMTT(30), <1>1, <1>2, <1>5
  <2> QED BY Zenon, <2>1
<1>7. ASSUME NEW i \in DOMAIN nodes
      PROVE  nodes'[i].nRefCount >= Cardinality(Holders(i)') + Cardinality(Setters(i))
                                     + (IF Owned(i) THEN 1 ELSE 0)
  <2>1. CASE i \in copy[t]
    <3>1. nodes'[i].nRefCount = nodes[i].nRefCount - 1
      BY Zenon, <1>1, <1>3, <2>1 DEF Node
    <3> QED BY SMTT(30), <1>2, <1>5, <2>1, <3>1
  <2>2. CASE i \notin copy[t]
    <3>1. Holders(i)' = Holders(i)
      BY Zenon, <1>3, <2>2 DEF Holders
    <3>2. nodes'[i] = nodes[i]
      BY Zenon, <1>3, <2>2
    <3> QED BY Zenon, <1>2, <3>1, <3>2
  <2> QED BY Zenon, <2>1, <2>2
<1>8. copy' \in [Threads -> SUBSET DOMAIN nodes]
  BY Zenon, <1>3
<1>9. /\ at' \in {"disconnect", "delete", "accept", "service"}
      /\ UNCHANGED <<permits, opener, setBanned, banning>>
  BY Zenon DEF Release, TypeOK
<1> HIDE DEF ref, IInv
<1> QED BY Zenon, <1>1, <1>3, <1>4, <1>6, <1>7, <1>8, <1>9, CopyStep

\* A slot goes from the semaphore to an opener.
LEMMA SlotTaken ==
    ASSUME TypeOK, SlotsConserved, NEW o \in Openers, o \notin Carriers, permits > 0,
           Slots' = Slots, Carriers' = Carriers \cup {o}, permits' = permits - 1
    PROVE  SlotsConserved' /\ permits' \in 0..nMaxOutbound
<1>1. IsFiniteSet(Carriers) /\ Cardinality(Carriers) \in Nat
  BY Zenon, FiniteParts DEF Carriers
<1>2. Cardinality(Carriers') = Cardinality(Carriers) + 1
  BY Zenon, <1>1, FS_AddElement
<1>3. Cardinality(Slots) \in Nat /\ Cardinality(Slots') = Cardinality(Slots)
  BY Zenon, FiniteParts DEF Slots
<1>4. permits + Cardinality(Carriers) + Cardinality(Slots) = nMaxOutbound
  BY Zenon DEF SlotsConserved, Carriers, Slots
<1>5. permits \in 0..nMaxOutbound /\ nMaxOutbound \in Nat
  BY Zenon, LimitAssumption DEF TypeOK
<1>6. permits' + Cardinality(Carriers') + Cardinality(Slots') = nMaxOutbound
  BY SMTT(30), <1>1, <1>2, <1>3, <1>4, <1>5
<1>7. permits' \in 0..nMaxOutbound
  BY SMTT(30), <1>5
<1> QED BY Zenon, <1>6, <1>7 DEF SlotsConserved, Carriers, Slots

\* A slot goes from an opener back to the semaphore, or to a node; the node gives
\* back the one it had.
LEMMA SlotPassedOn ==
    ASSUME TypeOK, SlotsConserved, NEW o \in Carriers, Carriers' = Carriers \ {o},
           \/ Slots' = Slots /\ permits' = permits + 1
           \/ \E i \in DOMAIN nodes \ Slots : Slots' = Slots \cup {i} /\ permits' = permits
    PROVE  SlotsConserved' /\ permits' \in 0..nMaxOutbound
<1>1. IsFiniteSet(Carriers) /\ Cardinality(Carriers) \in Nat
  BY Zenon, FiniteParts DEF Carriers
<1>2. Cardinality(Carriers') = Cardinality(Carriers) - 1 /\ Cardinality(Carriers') \in Nat
  <2>1. Cardinality(Carriers \ {o}) = Cardinality(Carriers) - 1 /\ IsFiniteSet(Carriers \ {o})
    BY Zenon, <1>1, FS_RemoveElement
  <2> QED BY Zenon, <2>1, FS_CardinalityType
<1>3. IsFiniteSet(Slots) /\ Cardinality(Slots) \in Nat
  BY Zenon, FiniteParts DEF Slots
<1>4. permits + Cardinality(Carriers) + Cardinality(Slots) = nMaxOutbound
  BY Zenon DEF SlotsConserved, Carriers, Slots
<1>5. permits \in Nat /\ nMaxOutbound \in Nat
  BY SMTT(30), LimitAssumption DEF TypeOK
<1>6. \/ Cardinality(Slots') = Cardinality(Slots) /\ permits' = permits + 1
      \/ Cardinality(Slots') = Cardinality(Slots) + 1 /\ permits' = permits
  <2>1. CASE Slots' = Slots /\ permits' = permits + 1
    BY Zenon, <2>1
  <2>2. ASSUME NEW i \in DOMAIN nodes \ Slots, Slots' = Slots \cup {i}, permits' = permits
        PROVE  Cardinality(Slots') = Cardinality(Slots) + 1
    BY Zenon, <1>3, <2>2, FS_AddElement
  <2> QED BY Zenon, <2>1, <2>2
<1>7. permits' + Cardinality(Carriers') + Cardinality(Slots') = nMaxOutbound
  BY SMTT(30), <1>1, <1>2, <1>3, <1>4, <1>5, <1>6
<1>8. permits' \in 0..nMaxOutbound
  BY SMTT(30), <1>2, <1>3, <1>5, <1>6, <1>7
<1> QED BY Zenon, <1>7, <1>8 DEF SlotsConserved, Carriers, Slots

\* An opener that is not at work on a node before the step nor after it.
LEMMA OpenerStep ==
    ASSUME IInv, NEW o \in Openers, NEW what \in Opening,
           opener' = [opener EXCEPT ![o] = what],
           opener[o].pc \notin {"move", "mark"}, what.pc \notin {"move", "mark"},
           what.grant <=> o \in Granted /\ what.pc \in {"choose", "connect"},
           UNCHANGED <<nodes, copy, at, setBanned, banning>>,
           SlotsConserved', permits' \in 0..nMaxOutbound
    PROVE  IInv'
<1> USE DEF IInv
<1>1. opener \in [Openers -> Opening]
  BY Zenon DEF TypeOK
<1>2. TypeOK'
  BY Zenon, <1>1 DEF TypeOK
<1>3. RefsCounted'
  <2>1. \A i \in DOMAIN nodes : /\ Holders(i)' = Holders(i) /\ Setters(i)' = Setters(i)
                                /\ Owned(i)' = Owned(i)
    BY Zenon, <1>1 DEF Holders, Setters, Owned
  <2> QED BY Zenon, <2>1 DEF RefsCounted
<1>4. DeletedIsFreed'
  BY Zenon DEF DeletedIsFreed, Freed, CNode
<1>5. OpenersInOrder'
  BY Zenon, <1>1 DEF OpenersInOrder
<1>6. InboundBounded'
  <2>1. Staying' = Staying
    BY Zenon DEF Staying, Alive, Listed
  <2> QED BY Zenon, <2>1, FewerStay
<1> QED BY Zenon, <1>2, <1>3, <1>4, <1>5, <1>6

\* Acquire: semOutbound hands a slot to the opener that waited.
LEMMA AcquireStep ==
    ASSUME IInv, NEW o \in Openers, Acquire(o)
    PROVE  IInv'
<1> DEFINE what == [Idle EXCEPT !.pc = "choose", !.grant = TRUE]
<1>1. /\ o \in Granted /\ opener[o] = Idle /\ permits > 0 /\ permits' = permits - 1
      /\ opener' = [opener EXCEPT ![o] = what] /\ UNCHANGED <<nodes, copy, at, setBanned, banning>>
  BY Zenon DEF Acquire, Becomes
<1>2. /\ what \in Opening /\ what.pc = "choose" /\ what.grant = TRUE
      /\ Idle.pc = "idle" /\ Idle.grant = FALSE
  BY Zenon DEF Idle, Opening, Addresses
<1> HIDE DEF what
<1>3. opener \in [Openers -> Opening]
  BY Zenon DEF IInv, TypeOK
<1>4. Slots' = Slots /\ o \notin Carriers /\ Carriers' = Carriers \cup {o}
  BY Zenon, <1>1, <1>2, <1>3 DEF Slots, Carriers
<1>5. SlotsConserved' /\ permits' \in 0..nMaxOutbound
  BY Zenon, <1>1, <1>4, SlotTaken DEF IInv
<1> QED BY Zenon, <1>1, <1>2, <1>5, OpenerStep

\* Choose_: an address is chosen, nothing else changes.
LEMMA ChooseStep ==
    ASSUME IInv, NEW o \in Openers, NEW addr \in Dialed, Choose_(o, addr)
    PROVE  IInv'
<1> DEFINE what == [opener[o] EXCEPT !.pc = "connect", !.addr = addr]
<1>1. /\ opener[o].pc = "choose" \/ (o \notin Granted /\ opener[o] = Idle)
      /\ opener' = [opener EXCEPT ![o] = what]
      /\ UNCHANGED <<nodes, permits, copy, at, setBanned, banning>>
  BY Zenon DEF Choose_, Becomes
<1>2. opener \in [Openers -> Opening] /\ addr \in Addresses
  BY Zenon DEF IInv, TypeOK, Addresses
<1>3. what \in Opening /\ what.pc = "connect" /\ what.grant = opener[o].grant
  BY Zenon, <1>2 DEF Opening
<1>4. opener[o].grant <=> o \in Granted /\ opener[o].pc \in {"choose", "connect", "move"}
  BY Zenon DEF IInv, OpenersInOrder
<1>5. opener[o].pc \in {"choose", "idle"}
  BY SMTT(30), <1>1 DEF Idle
<1> HIDE DEF what
<1>6. what.grant <=> o \in Granted
  BY Zenon, <1>1, <1>3, <1>4 DEF Idle
<1>7. Slots' = Slots /\ Carriers' = Carriers
  BY Zenon, <1>1, <1>2, <1>3 DEF Slots, Carriers
<1>8. SlotsConserved' /\ permits' \in 0..nMaxOutbound
  BY Zenon, <1>1, <1>7, SlotsStay DEF IInv
<1> QED BY Zenon, <1>1, <1>3, <1>5, <1>6, <1>8, OpenerStep

\* GiveUp: the grant's destructor returns the slot.
LEMMA GiveUpStep ==
    ASSUME IInv, NEW o \in Openers, GiveUp(o)
    PROVE  IInv'
<1>1. /\ opener[o].pc \in {"choose", "connect"} /\ opener' = [opener EXCEPT ![o] = Idle]
      /\ permits' = permits + (IF opener[o].grant THEN 1 ELSE 0)
      /\ UNCHANGED <<nodes, copy, at, setBanned, banning>>
  BY Zenon DEF GiveUp, Becomes
<1>2. Idle \in Opening /\ Idle.pc = "idle" /\ Idle.grant = FALSE
  BY Zenon DEF Idle, Opening, Addresses
<1>3. opener \in [Openers -> Opening] /\ permits \in Nat
  BY SMTT(30), LimitAssumption DEF IInv, TypeOK
<1>4. Slots' = Slots /\ Carriers' = Carriers \ {o}
  BY Zenon, <1>1, <1>2, <1>3 DEF Slots, Carriers
<1>5. SlotsConserved' /\ permits' \in 0..nMaxOutbound
  <2>1. CASE opener[o].grant
    <3>1. o \in Carriers /\ permits' = permits + 1
      BY Zenon, <1>1, <2>1 DEF Carriers
    <3> QED BY Zenon, <1>4, <3>1, SlotPassedOn DEF IInv
  <2>2. CASE ~opener[o].grant
    <3>1. Carriers' = Carriers /\ permits' = permits
      BY SMTT(30), <1>1, <1>3, <1>4, <2>2 DEF Carriers
    <3> QED BY Zenon, <1>4, <3>1, SlotsStay DEF IInv
  <2> QED BY Zenon, <2>1, <2>2
<1> QED BY Zenon, <1>1, <1>2, <1>5, OpenerStep

\* ConnectNode when a connection has come up meanwhile: the opener holds it too.
LEMMA ConnectExistingStep ==
    ASSUME IInv, NEW o \in Openers, opener[o].pc = "connect", NEW j \in Listed,
           nodes' = [nodes EXCEPT ![j].nRefCount = @ + 1],
           opener' = [opener EXCEPT ![o] = [opener[o] EXCEPT !.pc = "move", !.id = j]],
           UNCHANGED <<permits, copy, at, setBanned, banning>>
    PROVE  IInv'
<1> USE DEF IInv
<1>1. /\ nodes \in [DOMAIN nodes -> Node] /\ j \in DOMAIN nodes /\ j \in Nat
      /\ nodes[j].where = "vNodes" /\ nodes[j].nRefCount + 1 \in Nat
      /\ opener \in [Openers -> Opening]
  BY SMTT(30), NodeIds DEF Listed, Node, TypeOK
<1>2. nodes' \in [DOMAIN nodes -> Node]
  <2>1. [nodes[j] EXCEPT !.nRefCount = nodes[j].nRefCount + 1] \in Node
    BY Zenon, <1>1, NodeFields
  <2> QED BY Zenon, <1>1, <2>1
<1>3. /\ DOMAIN nodes' = DOMAIN nodes
      /\ \E n \in 0..MaxNodes : nodes' \in [1..n -> Node]
  BY Zenon, <1>2, SameIds
<1>4. /\ \A i \in DOMAIN nodes :
          /\ nodes'[i].where = nodes[i].where
          /\ nodes'[i].grantOutbound = nodes[i].grantOutbound
          /\ nodes'[i].fInbound = nodes[i].fInbound /\ nodes'[i].fNetworkNode = nodes[i].fNetworkNode
          /\ nodes'[i].fDisconnect = nodes[i].fDisconnect
          /\ i # j => nodes'[i] = nodes[i]
      /\ nodes'[j].nRefCount = nodes[j].nRefCount + 1
  BY Zenon, <1>1 DEF Node
<1>5. /\ opener' \in [Openers -> Opening] /\ opener'[o].pc = "move" /\ opener'[o].id = j
      /\ opener'[o].grant = opener[o].grant /\ \A p \in Openers \ {o} : opener'[p] = opener[p]
  BY ZenonT(60), <1>1 DEF Opening
<1>6. SlotsConserved' /\ permits' \in 0..nMaxOutbound
  <2>1. Slots' = Slots /\ Carriers' = Carriers
    BY SMTT(30), <1>3, <1>4, <1>5 DEF Slots, Carriers
  <2> QED BY Zenon, <2>1, SlotsStay
<1>7. TypeOK'
  BY Zenon, <1>3, <1>5, <1>6 DEF TypeOK
<1>8. RefsCounted'
  <2> SUFFICES ASSUME NEW i \in DOMAIN nodes
               PROVE  nodes'[i].nRefCount >= Cardinality(Holders(i)') + Cardinality(Setters(i)')
                                              + (IF Owned(i)' THEN 1 ELSE 0)
    BY Zenon, <1>3 DEF RefsCounted
  <2>1. /\ nodes[i].nRefCount \in Nat
        /\ Cardinality(Holders(i)) \in Nat /\ Cardinality(Setters(i)) \in Nat /\ IsFiniteSet(Setters(i))
        /\ nodes[i].nRefCount >= Cardinality(Holders(i)) + Cardinality(Setters(i))
                                  + (IF Owned(i) THEN 1 ELSE 0)
    BY Zenon, <1>1, Counts DEF RefsCounted, Node
  <2>2. Holders(i)' = Holders(i) /\ Owned(i)' = Owned(i)
    BY ZenonT(60), <1>4 DEF Holders, Owned
  <2>3. CASE i = j
    <3>1. Setters(i)' = Setters(i) \cup {o} /\ o \notin Setters(i)
      BY Zenon, <1>5, <2>3 DEF Setters
    <3>2. Cardinality(Setters(i)') = Cardinality(Setters(i)) + 1
      BY Zenon, <2>1, <3>1, FS_AddElement
    <3> QED BY SMTT(30), <1>4, <2>1, <2>2, <2>3, <3>2
  <2>4. CASE i # j
    <3>1. Setters(i)' = Setters(i)
      BY Zenon, <1>5, <2>4 DEF Setters
    <3> QED BY Zenon, <1>4, <2>1, <2>2, <2>4, <3>1
  <2> QED BY Zenon, <2>3, <2>4
<1>9. DeletedIsFreed'
  <2>1. Freed' = Freed
    BY Zenon DEF Freed, CNode
  <2> QED BY ZenonT(60), <1>1, <1>3, <1>4, <2>1 DEF DeletedIsFreed
<1>10. OpenersInOrder'
  BY ZenonT(60), <1>1, <1>3, <1>5 DEF OpenersInOrder
<1>11. InboundBounded'
  <2>1. Staying' \subseteq Staying
    BY SMTT(30), <1>3, <1>4 DEF Staying, Alive, Listed
  <2> QED BY Zenon, <2>1, FewerStay
<1> QED BY Zenon, <1>6, <1>7, <1>8, <1>9, <1>10, <1>11

\* ConnectNode when there is none: the first reference of the new node is the opener's.
LEMMA ConnectNewStep ==
    ASSUME IInv, NEW o \in Openers, opener[o].pc = "connect", CanMake,
           nodes' = WithNode(CNode(opener[o].addr, FALSE, FALSE)),
           opener' = [opener EXCEPT ![o] =
                         [opener[o] EXCEPT !.pc = "move", !.id = Cardinality(DOMAIN nodes) + 1]],
           UNCHANGED <<permits, copy, at, setBanned, banning>>
    PROVE  IInv'
<1> USE DEF IInv
<1> DEFINE j == Cardinality(DOMAIN nodes) + 1
           nd == CNode(opener[o].addr, FALSE, FALSE)
<1>1. /\ nodes \in [DOMAIN nodes -> Node] /\ j \notin DOMAIN nodes /\ j \in Nat
      /\ opener \in [Openers -> Opening]
  BY SMTT(30), NodeIds, LimitAssumption DEF TypeOK
<1>2. /\ nd \in Node /\ nd.where = "vNodes" /\ nd.nRefCount = 1 /\ nd.fInbound = FALSE
      /\ nd.fNetworkNode = FALSE /\ nd.grantOutbound = FALSE
  <2>1. opener[o].addr \in Addresses
    BY Zenon, <1>1 DEF Opening
  <2> QED BY Zenon, <2>1, NewNode DEF CNode
<1>3. /\ \E n \in 0..MaxNodes : nodes' \in [1..n -> Node]
      /\ DOMAIN nodes' = DOMAIN nodes \cup {j}
      /\ \A i \in DOMAIN nodes : nodes'[i] = nodes[i]
      /\ nodes'[j] = nd
  BY Zenon, <1>2, OneMore
<1>4. /\ opener' \in [Openers -> Opening] /\ opener'[o].pc = "move" /\ opener'[o].id = j
      /\ opener'[o].grant = opener[o].grant /\ \A p \in Openers \ {o} : opener'[p] = opener[p]
  BY ZenonT(60), <1>1 DEF Opening
<1> HIDE DEF j, nd
<1>5. SlotsConserved' /\ permits' \in 0..nMaxOutbound
  <2>1. Slots' = Slots
    BY Zenon, <1>2, <1>3 DEF Slots
  <2>2. Carriers' = Carriers
    BY Zenon, <1>4 DEF Carriers
  <2> QED BY Zenon, <2>1, <2>2, SlotsStay
<1>6. TypeOK'
  <2>1. copy' \in [Threads -> SUBSET DOMAIN nodes']
    BY Zenon, <1>3 DEF TypeOK
  <2> QED BY ZenonT(60), <1>3, <1>4, <1>5, <2>1 DEF TypeOK
<1>7. RefsCounted'
  <2> SUFFICES ASSUME NEW i \in DOMAIN nodes'
               PROVE  nodes'[i].nRefCount >= Cardinality(Holders(i)') + Cardinality(Setters(i)')
                                              + (IF Owned(i)' THEN 1 ELSE 0)
    BY Zenon DEF RefsCounted
  <2>1. CASE i = j
    <3>1. Holders(i)' = {}
      BY Zenon, <1>1, <2>1 DEF Holders, TypeOK
    <3>2. Setters(i)' = {o}
      BY ZenonT(60), <1>1, <1>4, <2>1 DEF Setters, OpenersInOrder
    <3>3. Cardinality(Holders(i)') = 0 /\ Cardinality(Setters(i)') = 1
      BY Zenon, <3>1, <3>2, FS_EmptySet, FS_Singleton
    <3>4. (IF Owned(i)' THEN 1 ELSE 0) = 0 /\ nodes'[i].nRefCount = 1
      BY Zenon, <1>2, <1>3, <2>1 DEF Owned
    <3>5. 1 >= 0 + 1 + 0
      BY SMTT(30)
    <3> QED BY Zenon, <3>3, <3>4, <3>5
  <2>2. CASE i # j
    <3>1. i \in DOMAIN nodes /\ nodes'[i] = nodes[i]
      BY Zenon, <1>3, <2>2
    <3>2. Holders(i)' = Holders(i) /\ Owned(i)' = Owned(i) /\ Setters(i)' = Setters(i)
      BY Zenon, <1>4, <2>2, <3>1 DEF Holders, Owned, Setters
    <3> QED BY Zenon, <3>1, <3>2 DEF RefsCounted
  <2> QED BY Zenon, <2>1, <2>2
<1>8. DeletedIsFreed'
  <2>1. Freed' = Freed
    BY Zenon DEF Freed, CNode
  <2> QED BY Zenon, <1>2, <1>3, <2>1 DEF DeletedIsFreed
<1>9. OpenersInOrder'
  BY ZenonT(60), <1>1, <1>3, <1>4 DEF OpenersInOrder
<1>10. InboundBounded'
  <2>1. Staying' \subseteq Staying
    BY Zenon, <1>2, <1>3 DEF Staying, Alive, Listed
  <2> QED BY Zenon, <2>1, FewerStay
<1> QED BY Zenon, <1>5, <1>6, <1>7, <1>8, <1>9, <1>10

\* ConnectNode is one or the other.
LEMMA ConnectNodeStep ==
    ASSUME IInv, NEW o \in Openers, ConnectNode(o)
    PROVE  IInv'
<1> DEFINE existing == IF o \in Granted THEN FindNode(opener[o].addr) ELSE {}
<1>1. opener[o].pc = "connect" /\ UNCHANGED <<permits, copy, at, setBanned, banning>>
  BY Zenon DEF ConnectNode
<1>2. existing \subseteq Listed
  BY Zenon DEF FindNode
<1>3. CASE \E i \in existing : /\ nodes' = [nodes EXCEPT ![i].nRefCount = @ + 1]
                               /\ opener' = [opener EXCEPT ![o] = [opener[o] EXCEPT !.pc = "move", !.id = i]]
  BY Zenon, <1>1, <1>2, <1>3, ConnectExistingStep
<1>4. CASE /\ CanMake
           /\ nodes' = WithNode(CNode(opener[o].addr, FALSE, FALSE))
           /\ opener' = [opener EXCEPT ![o] =
                            [opener[o] EXCEPT !.pc = "move", !.id = Cardinality(DOMAIN nodes) + 1]]
  BY Zenon, <1>1, <1>4, ConnectNewStep
<1> QED BY Zenon, <1>3, <1>4 DEF ConnectNode, Becomes

\* MoveTo: the node gives back the slot it had and has the opener's.
LEMMA MoveToStep ==
    ASSUME IInv, NEW o \in Openers, MoveTo(o)
    PROVE  IInv'
<1> USE DEF IInv
<1> DEFINE j == opener[o].id
<1>1. /\ opener[o].pc = "move" /\ UNCHANGED <<copy, at, setBanned, banning>>
      /\ opener' = [opener EXCEPT ![o] = [opener[o] EXCEPT !.pc = "mark", !.grant = FALSE]]
  BY Zenon DEF MoveTo, Becomes
<1>2. /\ opener \in [Openers -> Opening] /\ permits \in Nat
      /\ nodes \in [DOMAIN nodes -> Node] /\ j \in DOMAIN nodes
  BY SMTT(30), <1>1, NodeIds, LimitAssumption DEF TypeOK, OpenersInOrder
<1>3. opener[o].grant <=> o \in Granted
  BY Zenon, <1>1 DEF OpenersInOrder
<1>4. /\ opener' \in [Openers -> Opening] /\ opener'[o].pc = "mark" /\ opener'[o].id = j
      /\ opener'[o].grant = FALSE /\ \A p \in Openers \ {o} : opener'[p] = opener[p]
  BY Zenon, <1>1, <1>2 DEF Opening
<1>5. nodes[j].where # "deleted"
  <2>1. o \in Setters(j)
    BY Zenon, <1>1 DEF Setters
  <2> QED BY Zenon, <1>2, <2>1, HeldIsKept
<1>6. nodes' = IF o \in Granted THEN [nodes EXCEPT ![j].grantOutbound = TRUE] ELSE nodes
  <2>1. CASE o \in Granted
    <3>1. opener[o].grant = TRUE
      BY Zenon, <1>2, <1>3, <2>1 DEF Opening
    <3> QED BY Zenon, <2>1, <3>1 DEF MoveTo
  <2> QED BY Zenon, <2>1 DEF MoveTo
<1>7. permits' = IF o \in Granted /\ nodes[j].grantOutbound THEN permits + 1 ELSE permits
  BY SMTT(30), <1>2 DEF MoveTo
<1> HIDE DEF j
<1>8. nodes' \in [DOMAIN nodes -> Node]
  <2>1. [nodes[j] EXCEPT !.grantOutbound = TRUE] \in Node
    BY Zenon, <1>2, NodeFields
  <2> QED BY Zenon, <1>2, <1>6, <2>1
<1>9. /\ DOMAIN nodes' = DOMAIN nodes
      /\ \E n \in 0..MaxNodes : nodes' \in [1..n -> Node]
  BY Zenon, <1>8, SameIds
<1>10. \A i \in DOMAIN nodes :
          /\ nodes'[i].where = nodes[i].where /\ nodes'[i].nRefCount = nodes[i].nRefCount
          /\ nodes'[i].fInbound = nodes[i].fInbound /\ nodes'[i].fNetworkNode = nodes[i].fNetworkNode
          /\ nodes'[i].fDisconnect = nodes[i].fDisconnect
          /\ i # j => nodes'[i] = nodes[i]
  BY Zenon, <1>2, <1>6 DEF Node
<1>11. SlotsConserved' /\ permits' \in 0..nMaxOutbound
  <2>1. CASE o \in Granted
    <3>1. o \in Carriers /\ Carriers' = Carriers \ {o}
      BY Zenon, <1>3, <1>4, <2>1 DEF Carriers
    <3>2. Slots' = Slots \cup {j}
      BY SMTT(30), <1>2, <1>6, <1>9, <1>10, <2>1 DEF Slots, Node
    <3>3. CASE nodes[j].grantOutbound
      <4>1. Slots' = Slots /\ permits' = permits + 1
        BY Zenon, <1>2, <1>7, <2>1, <3>2, <3>3 DEF Slots
      <4> QED BY Zenon, <3>1, <4>1, SlotPassedOn
    <3>4. CASE ~nodes[j].grantOutbound
      <4>1. j \in DOMAIN nodes \ Slots /\ permits' = permits
        BY Zenon, <1>2, <1>7, <3>4 DEF Slots
      <4> QED BY Zenon, <3>1, <3>2, <4>1, SlotPassedOn
    <3> QED BY Zenon, <3>3, <3>4
  <2>2. CASE o \notin Granted
    <3>1. Carriers' = Carriers /\ Slots' = Slots /\ permits' = permits
      BY Zenon, <1>3, <1>4, <1>6, <1>7, <2>2 DEF Carriers, Slots
    <3> QED BY Zenon, <3>1, SlotsStay
  <2> QED BY Zenon, <2>1, <2>2
<1>12. TypeOK'
  BY Zenon, <1>1, <1>4, <1>9, <1>11 DEF TypeOK
<1>13. RefsCounted'
  <2>1. \A i \in DOMAIN nodes : /\ Holders(i)' = Holders(i) /\ Setters(i)' = Setters(i)
                                /\ Owned(i)' = Owned(i)
    BY SMTT(30), <1>1, <1>4, <1>10 DEF Holders, Setters, Owned, j
  <2> QED BY Zenon, <1>9, <1>10, <2>1 DEF RefsCounted
<1>14. DeletedIsFreed'
  <2>1. Freed' = Freed
    BY Zenon DEF Freed, CNode
  <2> QED BY ZenonT(60), <1>5, <1>9, <1>10, <2>1 DEF DeletedIsFreed
<1>15. OpenersInOrder'
  BY Zenon, <1>2, <1>4, <1>9 DEF OpenersInOrder
<1>16. InboundBounded'
  <2>1. Staying' \subseteq Staying
    BY Zenon, <1>9, <1>10 DEF Staying, Alive, Listed
  <2> QED BY Zenon, <2>1, FewerStay
<1> QED BY Zenon, <1>11, <1>12, <1>13, <1>14, <1>15, <1>16

\* Mark: the opener's reference becomes the one that DisconnectNodes releases.
LEMMA MarkStep ==
    ASSUME IInv, NEW o \in Openers, Mark(o)
    PROVE  IInv'
<1> USE DEF IInv
<1> DEFINE j == opener[o].id
<1>1. /\ opener[o].pc = "mark" /\ UNCHANGED <<permits, copy, at, setBanned, banning>>
      /\ opener' = [opener EXCEPT ![o] = Idle]
      /\ nodes' = [nodes EXCEPT ![j].fNetworkNode = TRUE]
  BY Zenon DEF Mark, Becomes
<1>2. /\ opener \in [Openers -> Opening] /\ nodes \in [DOMAIN nodes -> Node] /\ j \in DOMAIN nodes
      /\ opener[o].grant = FALSE
  <2>1. /\ opener \in [Openers -> Opening] /\ nodes \in [DOMAIN nodes -> Node] /\ j \in DOMAIN nodes
        /\ ~opener[o].grant
    BY Zenon, <1>1, NodeIds DEF TypeOK, OpenersInOrder
  <2> QED BY Zenon, <2>1 DEF Opening
<1>3. /\ opener' \in [Openers -> Opening] /\ opener'[o].pc = "idle" /\ opener'[o].grant = FALSE
      /\ \A p \in Openers \ {o} : opener'[p] = opener[p]
  <2>1. Idle \in Opening /\ Idle.pc = "idle" /\ Idle.grant = FALSE
    BY Zenon DEF Idle, Opening, Addresses
  <2> QED BY Zenon, <1>1, <1>2, <2>1
<1>4. o \in Setters(j) /\ nodes[j].where # "deleted"
  <2>1. o \in Setters(j)
    BY Zenon, <1>1 DEF Setters
  <2> QED BY Zenon, <1>2, <2>1, HeldIsKept
<1>5. \A i \in DOMAIN nodes : Setters(i)' = IF i = j THEN Setters(i) \ {o} ELSE Setters(i)
  BY Zenon, <1>3 DEF Setters
<1> HIDE DEF j
<1>6. nodes' \in [DOMAIN nodes -> Node]
  <2>1. [nodes[j] EXCEPT !.fNetworkNode = TRUE] \in Node
    BY Zenon, <1>2, NodeFields
  <2> QED BY Zenon, <1>1, <1>2, <2>1
<1>7. /\ DOMAIN nodes' = DOMAIN nodes
      /\ \E n \in 0..MaxNodes : nodes' \in [1..n -> Node]
  BY Zenon, <1>6, SameIds
<1>8. \A i \in DOMAIN nodes :
          /\ nodes'[i].where = nodes[i].where /\ nodes'[i].nRefCount = nodes[i].nRefCount
          /\ nodes'[i].grantOutbound = nodes[i].grantOutbound
          /\ nodes'[i].fInbound = nodes[i].fInbound
          /\ nodes'[i].fDisconnect = nodes[i].fDisconnect
          /\ i # j => nodes'[i] = nodes[i]
  BY ZenonT(60), <1>1, <1>2 DEF Node
<1>9. SlotsConserved' /\ permits' \in 0..nMaxOutbound
  <2>1. Slots' = Slots /\ Carriers' = Carriers
    BY Zenon, <1>2, <1>3, <1>7, <1>8 DEF Slots, Carriers
  <2> QED BY Zenon, <1>1, <2>1, SlotsStay
<1>10. TypeOK'
  BY Zenon, <1>1, <1>3, <1>7, <1>9 DEF TypeOK
<1>11. RefsCounted'
  <2> SUFFICES ASSUME NEW i \in DOMAIN nodes
               PROVE  nodes'[i].nRefCount >= Cardinality(Holders(i)') + Cardinality(Setters(i)')
                                              + (IF Owned(i)' THEN 1 ELSE 0)
    BY Zenon, <1>7 DEF RefsCounted
  <2>1. /\ nodes[i].nRefCount \in Nat
        /\ Cardinality(Holders(i)) \in Nat /\ Cardinality(Setters(i)) \in Nat /\ IsFiniteSet(Setters(i))
        /\ nodes[i].nRefCount >= Cardinality(Holders(i)) + Cardinality(Setters(i))
                                  + (IF Owned(i) THEN 1 ELSE 0)
    BY Zenon, <1>2, Counts DEF RefsCounted, Node
  <2>2. Holders(i)' = Holders(i)
    BY Zenon, <1>1 DEF Holders
  <2>3. CASE i = j
    <3>1. Setters(i)' = Setters(i) \ {o} /\ o \in Setters(i)
      BY Zenon, <1>4, <1>5, <2>3
    <3>2. Cardinality(Setters(i) \ {o}) = Cardinality(Setters(i)) - 1
      BY Zenon, <2>1, <3>1, FS_RemoveElement
    <3>3. Cardinality(Setters(i)') = Cardinality(Setters(i)) - 1
      BY Zenon, <3>1, <3>2
    <3>4. /\ (IF Owned(i) THEN 1 ELSE 0) \in {0, 1}
          /\ (IF Owned(i)' THEN 1 ELSE 0) \in {0, 1}
      BY Zenon
    <3> QED BY SMTT(30), <1>8, <2>1, <2>2, <3>3, <3>4
  <2>4. CASE i # j
    <3>1. Owned(i)' = Owned(i) /\ Setters(i)' = Setters(i)
      BY Zenon, <1>5, <1>8, <2>4 DEF Owned
    <3> QED BY Zenon, <1>8, <2>1, <2>2, <3>1
  <2> QED BY Zenon, <2>3, <2>4
<1>12. DeletedIsFreed'
  <2>1. Freed' = Freed
    BY Zenon DEF Freed, CNode
  <2> QED BY ZenonT(60), <1>4, <1>7, <1>8, <2>1 DEF DeletedIsFreed
<1>13. OpenersInOrder'
  BY Zenon, <1>3, <1>7 DEF OpenersInOrder
<1>14. InboundBounded'
  <2>1. Staying' \subseteq Staying
    BY Zenon, <1>7, <1>8 DEF Staying, Alive, Listed
  <2> QED BY Zenon, <2>1, FewerStay
<1> QED BY Zenon, <1>9, <1>10, <1>11, <1>12, <1>13, <1>14

-----------------------------------------------------------------------------
(* Eviction: the choices of AttemptToEvictConnection can be made. *)

\* A set of naturals has a least element.
LEMMA LeastExists ==
    ASSUME NEW T \in SUBSET Nat, T # {}
    PROVE  \E x \in T : \A y \in T : x <= y
<1> DEFINE R == OpToRel(<, Nat)
<1>1. IsWellFoundedOn(R, Nat)
  BY Zenon, NatLessThanWellFounded
<1>2. \A x, y \in Nat : y < x => <<y, x>> \in R
  BY Zenon DEF OpToRel
<1> HIDE DEF R
<1>3. PICK x \in T : \A y \in T : ~(<<y, x>> \in R)
  BY Zenon, <1>1, WFMin
<1>4. \A y \in T : x <= y
  <2> SUFFICES ASSUME NEW y \in T PROVE x <= y
    BY Zenon
  <2>1. x \in Nat /\ y \in Nat /\ ~(y < x)
    BY Zenon, <1>2, <1>3
  <2> QED BY SMTT(30), <2>1
<1> QED BY Zenon, <1>4

\* A set of ids has a largest one, the youngest of its nodes.
LEMMA MaxOfIds ==
    ASSUME NEW n \in Nat, NEW S \in SUBSET (0..n), S # {}
    PROVE  Max(S) \in S /\ \A y \in S : Max(S) >= y
<1> DEFINE T == {n - x : x \in S}
<1>1. T \in SUBSET Nat /\ T # {}
  <2>1. PICK x \in S : TRUE
    BY Zenon
  <2>2. n - x \in T
    BY Zenon
  <2>3. \A y \in S : n - y \in Nat
    BY SMTT(30)
  <2> QED BY Zenon, <2>2, <2>3
<1>2. PICK z \in T : \A y \in T : z <= y
  BY Zenon, <1>1, LeastExists
<1>3. PICK x \in S : z = n - x
  BY Zenon
<1>4. \A y \in S : x >= y
  <2> SUFFICES ASSUME NEW y \in S PROVE x >= y
    BY Zenon
  <2>1. n - x <= n - y
    BY Zenon, <1>2, <1>3
  <2> QED BY SMTT(30), <2>1
<1> QED BY Zenon, <1>4 DEF Max

\* There is a largest group, of most connections and among those the youngest.
LEMMA LargestIsGroup ==
    ASSUME TypeOK, NEW S \in SUBSET DOMAIN nodes, S # {}
    PROVE  Largest(S) \in {Group(nodes[i].addr) : i \in S}
<1> DEFINE G == {Group(nodes[i].addr) : i \in S}
           n == Cardinality(DOMAIN nodes)
           size(g) == Cardinality(InGroup(S, g))
           young(g) == Max(InGroup(S, g))
<1>1. n \in Nat /\ DOMAIN nodes = 1..n /\ IsFiniteSet(DOMAIN nodes)
  BY SMTT(30), NodeIds, LimitAssumption
<1>2. \A g : InGroup(S, g) \in SUBSET DOMAIN nodes
  BY Zenon DEF InGroup
<1>3. \A g : size(g) \in 0..n
  <2> SUFFICES ASSUME NEW g PROVE size(g) \in 0..n
    BY Zenon
  <2>1. IsFiniteSet(InGroup(S, g)) /\ size(g) \in Nat
    BY Zenon, <1>2, FiniteParts
  <2>2. size(g) <= n
    BY Zenon, <1>1, <1>2, FS_Subset
  <2> QED BY SMTT(30), <1>1, <2>1, <2>2
<1>4. \A g \in G : young(g) \in InGroup(S, g)
  <2> SUFFICES ASSUME NEW g \in G PROVE young(g) \in InGroup(S, g)
    BY Zenon
  <2>1. InGroup(S, g) # {}
    BY Zenon DEF InGroup
  <2>2. InGroup(S, g) \in SUBSET (0..n)
    BY SMTT(30), <1>1, <1>2
  <2> QED BY Zenon, <1>1, <2>1, <2>2, MaxOfIds
<1>5. \A g \in G : young(g) \in 0..n /\ Group(nodes[young(g)].addr) = g
  <2> SUFFICES ASSUME NEW g \in G PROVE young(g) \in 0..n /\ Group(nodes[young(g)].addr) = g
    BY Zenon
  <2>1. young(g) \in {i \in S : Group(nodes[i].addr) = g}
    BY Zenon, <1>4 DEF InGroup
  <2> HIDE DEF young, n
  <2> QED BY SMTT(30), <1>1, <2>1
<1>6. G # {}
  BY Zenon
<1> HIDE DEF G, size, young, n
<1> DEFINE sizes == {size(g) : g \in G}
<1>7. sizes \in SUBSET (0..n) /\ sizes # {}
  BY Zenon, <1>3, <1>6
<1>8. PICK m \in sizes : \A k \in sizes : m >= k
  BY Zenon, <1>1, <1>7, MaxOfIds
<1> DEFINE G2 == {g \in G : size(g) = m}
           youngs == {young(g) : g \in G2}
<1>9. youngs \in SUBSET (0..n) /\ youngs # {}
  BY ZenonT(60), <1>5, <1>8
<1>10. PICK y \in youngs : \A k \in youngs : y >= k
  BY Zenon, <1>1, <1>9, MaxOfIds
<1>11. PICK g \in G2 : young(g) = y
  BY Zenon
<1>12. ASSUME NEW h \in G \ {g}
       PROVE  size(g) > size(h) \/ (size(g) = size(h) /\ young(g) > young(h))
  <2>1. size(g) \in Nat /\ size(h) \in Nat /\ young(g) \in Nat /\ young(h) \in Nat
    BY SMTT(30), <1>1, <1>3, <1>5
  <2>2. size(g) >= size(h)
    BY Zenon, <1>8
  <2>3. CASE size(h) = m
    <3>1. young(g) >= young(h)
      BY Zenon, <1>10, <1>11, <2>3
    <3>2. young(g) # young(h)
      BY Zenon, <1>5
    <3> QED BY SMTT(30), <2>1, <2>3, <3>1, <3>2
  <2>4. CASE size(h) # m
    BY SMTT(30), <2>1, <2>2, <2>4
  <2> QED BY Zenon, <2>3, <2>4
<1>13. \E c \in G : \A h \in G \ {c} : size(c) > size(h) \/ (size(c) = size(h) /\ young(c) > young(h))
  BY Zenon, <1>12
<1>14. Largest(S) = CHOOSE c \in G :
          \A h \in G \ {c} : size(c) > size(h) \/ (size(c) = size(h) /\ young(c) > young(h))
  BY Zenon DEF Largest, G, size, young
<1>15. Largest(S) \in G
  BY Zenon, <1>13, <1>14
<1> QED BY Zenon, <1>15 DEF G

\* The connection that is evicted is one of those that were to stay.
LEMMA EvictsStaying ==
    ASSUME TypeOK, NEW b \in BOOLEAN, NEW v \in AttemptToEvictConnection(b)
    PROVE  v \in Staying
<1>1. \A S \in Unprotected : S \subseteq Staying
  BY SMTT(30) DEF Unprotected, Staying
<1>2. PICK S \in Unprotected \ {{}} : v = Max(InGroup(S, Largest(S)))
  BY Zenon DEF AttemptToEvictConnection
<1>3. S \subseteq Staying /\ S \in SUBSET DOMAIN nodes
  BY Zenon, <1>1, <1>2 DEF Staying, Alive, Listed
<1>4. InGroup(S, Largest(S)) # {} /\ InGroup(S, Largest(S)) \subseteq S
  BY Zenon, <1>2, <1>3, LargestIsGroup DEF InGroup
<1>5. Max(InGroup(S, Largest(S))) \in InGroup(S, Largest(S))
  <2>1. Cardinality(DOMAIN nodes) \in Nat /\ DOMAIN nodes = 1..Cardinality(DOMAIN nodes)
    BY SMTT(30), NodeIds, LimitAssumption
  <2>2. InGroup(S, Largest(S)) \in SUBSET (0..Cardinality(DOMAIN nodes))
    BY SMTT(30), <1>3, <1>4, <2>1
  <2> QED BY Zenon, <1>4, <2>1, <2>2, MaxOfIds
<1> QED BY Zenon, <1>2, <1>3, <1>4, <1>5

\* A new inbound node, whose first reference is its maker's, and perhaps one that
\* is marked to make room.
LEMMA AcceptedStep ==
    ASSUME IInv, CanMake, NEW addr \in Callers, NEW w \in BOOLEAN,
           NEW v \in Listed \cup {Cardinality(DOMAIN nodes) + 1},
           LET new == WithNode(CNode(addr, TRUE, w))
           IN  nodes' = new \/ (v \in Listed /\ nodes' = [new EXCEPT ![v].fDisconnect = TRUE]),
           InboundBounded', UNCHANGED <<permits, copy, at, opener, setBanned, banning>>
    PROVE  IInv'
<1> USE DEF IInv
<1> DEFINE j == Cardinality(DOMAIN nodes) + 1
           nd == CNode(addr, TRUE, w)
           new == WithNode(nd)
<1>1. nodes' = new \/ (v \in Listed /\ nodes' = [new EXCEPT ![v].fDisconnect = TRUE])
  BY Zenon
<1>2. nodes \in [DOMAIN nodes -> Node] /\ j \notin DOMAIN nodes /\ Listed \subseteq DOMAIN nodes
  BY Zenon, NodeIds DEF Listed
<1>3. /\ nd \in Node /\ nd.where = "vNodes" /\ nd.nRefCount = 1 /\ nd.grantOutbound = FALSE
  <2>1. addr \in Addresses
    BY Zenon DEF Addresses
  <2> QED BY Zenon, <2>1, NewNode DEF CNode
<1>4. PICK n \in 0..MaxNodes : new \in [1..n -> Node]
  BY Zenon, <1>3, OneMore
<1>5. /\ DOMAIN new = DOMAIN nodes \cup {j} /\ new[j] = nd
      /\ \A i \in DOMAIN nodes : new[i] = nodes[i]
  BY Zenon, <1>3, OneMore
<1> HIDE DEF new, nd, j
<1>6. nodes' \in [1..n -> Node]
  <2>1. CASE v \in Listed /\ nodes' = [new EXCEPT ![v].fDisconnect = TRUE]
    <3>1. v \in 1..n /\ [new[v] EXCEPT !.fDisconnect = TRUE] \in Node
      BY ZenonT(60), <1>2, <1>4, <1>5, <2>1, NodeFields
    <3> QED BY Zenon, <1>4, <2>1, <3>1
  <2> QED BY Zenon, <1>1, <1>4, <2>1
<1>7. /\ DOMAIN nodes' = DOMAIN nodes \cup {j} /\ nodes'[j] = nd
      /\ \A i \in DOMAIN nodes \ Listed : nodes'[i] = nodes[i]
      /\ \A i \in DOMAIN nodes :
          /\ nodes'[i].where = nodes[i].where /\ nodes'[i].nRefCount = nodes[i].nRefCount
          /\ nodes'[i].grantOutbound = nodes[i].grantOutbound
          /\ nodes'[i].fInbound = nodes[i].fInbound /\ nodes'[i].fNetworkNode = nodes[i].fNetworkNode
  <2>1. CASE nodes' = new
    BY Zenon, <1>2, <1>5, <2>1
  <2>2. CASE v \in Listed /\ nodes' = [new EXCEPT ![v].fDisconnect = TRUE]
    <3>1. v \in DOMAIN nodes /\ v # j /\ new[v] = nodes[v]
      BY Zenon, <1>2, <1>5, <2>2
    <3>2. /\ DOMAIN nodes' = DOMAIN new /\ nodes'[v] = [nodes[v] EXCEPT !.fDisconnect = TRUE]
          /\ \A i \in DOMAIN new \ {v} : nodes'[i] = new[i]
      BY Zenon, <1>5, <2>2, <3>1
    <3>3. /\ nodes'[v].where = nodes[v].where /\ nodes'[v].nRefCount = nodes[v].nRefCount
          /\ nodes'[v].grantOutbound = nodes[v].grantOutbound
          /\ nodes'[v].fInbound = nodes[v].fInbound /\ nodes'[v].fNetworkNode = nodes[v].fNetworkNode
      BY SMTT(30), <1>2, <3>1, <3>2 DEF Node
    <3>4. \A i \in DOMAIN nodes \ {v} : nodes'[i] = nodes[i]
      BY Zenon, <1>5, <3>2
    <3> QED BY ZenonT(60), <1>2, <1>5, <2>2, <3>1, <3>2, <3>3, <3>4
  <2> QED BY ZenonT(60), <1>1, <2>1, <2>2
<1>8. SlotsConserved' /\ permits' \in 0..nMaxOutbound
  <2>1. Slots' = Slots
    BY Zenon, <1>3, <1>7 DEF Slots
  <2>2. Carriers' = Carriers
    BY Zenon DEF Carriers
  <2> QED BY Zenon, <2>1, <2>2, SlotsStay
<1>9. TypeOK'
  <2>1. copy' \in [Threads -> SUBSET DOMAIN nodes']
    BY Zenon, <1>7 DEF TypeOK
  <2> QED BY Zenon, <1>6, <1>8, <2>1 DEF TypeOK
<1>10. RefsCounted'
  <2> SUFFICES ASSUME NEW i \in DOMAIN nodes'
               PROVE  nodes'[i].nRefCount >= Cardinality(Holders(i)') + Cardinality(Setters(i)')
                                              + (IF Owned(i)' THEN 1 ELSE 0)
    BY Zenon DEF RefsCounted
  <2>1. CASE i = j
    <3>1. Holders(i)' = {}
      BY Zenon, <1>2, <2>1 DEF Holders, TypeOK
    <3>2. Setters(i)' = {}
      BY Zenon, <1>2, <2>1 DEF Setters, OpenersInOrder
    <3>3. Cardinality(Holders(i)') = 0 /\ Cardinality(Setters(i)') = 0
      BY Zenon, <3>1, <3>2, FS_EmptySet
    <3>4. nodes'[i].nRefCount = 1 /\ (IF Owned(i)' THEN 1 ELSE 0) \in {0, 1}
      BY Zenon, <1>3, <1>7, <2>1
    <3>5. \A k \in {0, 1} : 1 >= 0 + 0 + k
      BY SMTT(30)
    <3> QED BY Zenon, <3>3, <3>4, <3>5
  <2>2. CASE i # j
    <3>1. i \in DOMAIN nodes
      BY Zenon, <1>7, <2>2
    <3>2. Holders(i)' = Holders(i) /\ Owned(i)' = Owned(i) /\ Setters(i)' = Setters(i)
      BY Zenon, <1>7, <3>1 DEF Holders, Owned, Setters
    <3> QED BY Zenon, <1>7, <3>1, <3>2 DEF RefsCounted
  <2> QED BY Zenon, <2>1, <2>2
<1>11. DeletedIsFreed'
  <2>1. Freed' = Freed
    BY Zenon DEF Freed, CNode
  <2> QED BY ZenonT(60), <1>3, <1>7, <2>1 DEF DeletedIsFreed, Listed
<1>12. OpenersInOrder'
  BY Zenon, <1>7 DEF OpenersInOrder
<1> QED BY ZenonT(60), <1>8, <1>9, <1>10, <1>11, <1>12

\* AcceptConnection: the room the new node needs was there or is made.
LEMMA AcceptStep ==
    ASSUME IInv, NEW addr \in Callers, AcceptConnection(addr)
    PROVE  IInv'
<1> DEFINE w == addr \in Whitelisted
           j == Cardinality(DOMAIN nodes) + 1
           nd == CNode(addr, TRUE, w)
           inbound == {i \in Listed : nodes[i].fInbound}
<1>1. /\ CanMake /\ UNCHANGED <<permits, copy, at, opener, setBanned, banning>>
      /\ \/ Cardinality(inbound) < nMaxInbound /\ nodes' = WithNode(nd)
         \/ \E v \in AttemptToEvictConnection(w) : nodes' = [WithNode(nd) EXCEPT ![v].fDisconnect = TRUE]
  BY Zenon DEF AcceptConnection
<1>2. TypeOK /\ nodes \in [DOMAIN nodes -> Node] /\ j \notin DOMAIN nodes /\ w \in BOOLEAN
  BY SMTT(30), NodeIds DEF IInv
<1>3. nd \in Node /\ nd.where = "vNodes" /\ nd.fInbound = TRUE /\ nd.fDisconnect = FALSE
  <2>1. addr \in Addresses
    BY Zenon DEF Addresses
  <2> QED BY Zenon, <1>2, <2>1, NewNode DEF CNode
<1>4. /\ DOMAIN WithNode(nd) = DOMAIN nodes \cup {j} /\ WithNode(nd)[j] = nd
      /\ \A i \in DOMAIN nodes : WithNode(nd)[i] = nodes[i]
  BY Zenon, <1>1, <1>2, <1>3, OneMore
<1>5. Staying \in SUBSET DOMAIN nodes /\ inbound \in SUBSET DOMAIN nodes /\ Staying \subseteq inbound
  BY Zenon DEF Staying, Alive, Listed
<1>6. /\ IsFiniteSet(Staying) /\ Cardinality(Staying) \in Nat
      /\ Cardinality(inbound) \in Nat /\ nMaxInbound \in Nat
      /\ Cardinality(Staying) <= Cardinality(inbound) /\ Cardinality(Staying) <= nMaxInbound
  <2>1. IsFiniteSet(inbound) /\ Cardinality(inbound) \in Nat
    BY Zenon, <1>2, <1>5, FiniteParts
  <2>2. IsFiniteSet(Staying) /\ Cardinality(Staying) \in Nat /\ Cardinality(Staying) <= Cardinality(inbound)
    BY Zenon, <1>5, <2>1, FS_Subset, FS_CardinalityType
  <2> QED BY Zenon, <2>1, <2>2, LimitAssumption DEF IInv, InboundBounded, Staying
<1> HIDE DEF inbound, w
<1>7. CASE Cardinality(inbound) < nMaxInbound /\ nodes' = WithNode(nd)
  <2>1. Staying' = Staying \cup {j} /\ j \notin Staying
    <3> HIDE DEF nd, j
    <3> QED BY ZenonT(60), <1>2, <1>3, <1>4, <1>5, <1>7 DEF Staying, Alive, Listed
  <2>2. Cardinality(Staying') = Cardinality(Staying) + 1
    BY Zenon, <1>6, <2>1, FS_AddElement
  <2>3. Cardinality(Staying') <= nMaxInbound
    BY SMTT(30), <1>6, <1>7, <2>2
  <2>4. InboundBounded'
    BY Zenon, <2>3 DEF InboundBounded, Staying
  <2> QED BY Zenon, <1>1, <1>2, <1>7, <2>4, AcceptedStep
<1>8. ASSUME NEW v \in AttemptToEvictConnection(w),
             nodes' = [WithNode(nd) EXCEPT ![v].fDisconnect = TRUE]
      PROVE  IInv'
  <2>1. v \in Staying
    BY Zenon, <1>2, EvictsStaying
  <2>2. v \in DOMAIN nodes /\ v # j /\ v \in Listed
    BY Zenon, <1>2, <1>5, <2>1 DEF Staying, Alive
  <2>3. Staying' = (Staying \ {v}) \cup {j} /\ j \notin Staying \ {v}
    <3> HIDE DEF nd, j
    <3>1. /\ DOMAIN nodes' = DOMAIN nodes \cup {j} /\ nodes'[j] = nd
          /\ nodes'[v] = [nodes[v] EXCEPT !.fDisconnect = TRUE]
          /\ \A i \in DOMAIN nodes \ {v} : nodes'[i] = nodes[i]
      BY Zenon, <1>2, <1>4, <1>8, <2>2
    <3>2. nodes'[v].fDisconnect = TRUE
      BY SMTT(30), <1>2, <2>2, <3>1 DEF Node
    <3> QED BY ZenonT(60), <1>2, <1>3, <1>5, <2>1, <2>2, <3>1, <3>2 DEF Staying, Alive, Listed
  <2>4. Cardinality(Staying \ {v}) = Cardinality(Staying) - 1 /\ IsFiniteSet(Staying \ {v})
    BY Zenon, <1>6, <2>1, FS_RemoveElement
  <2>5. Cardinality(Staying') = Cardinality(Staying \ {v}) + 1
    BY Zenon, <2>3, <2>4, FS_AddElement
  <2>6. Cardinality(Staying') <= nMaxInbound
    BY SMTT(30), <1>6, <2>4, <2>5
  <2>7. InboundBounded'
    BY Zenon, <2>6 DEF InboundBounded, Staying
  <2> QED BY Zenon, <1>1, <1>2, <1>8, <2>2, <2>7, AcceptedStep
<1> QED BY Zenon, <1>1, <1>7, <1>8

\* Steps that change no node, no slot and no opener (NoNodes, setban, Unban).
LEMMA ListsUntouched ==
    ASSUME IInv, UNCHANGED <<nodes, permits, copy, opener>>,
           at' \in {"disconnect", "delete", "accept", "service"},
           setBanned' \subseteq Subnets, banning' \in Subnets \cup {None}
    PROVE  IInv'
BY ZenonT(60) DEF IInv, TypeOK, RefsCounted, DeletedIsFreed, OpenersInOrder, SlotsConserved, InboundBounded,
       Holders, Setters, Owned, Freed, CNode, Alive, Listed

\* Fail: a node that a thread has copied is not deleted, so it may be marked.
LEMMA FailStep ==
    ASSUME IInv, NEW t \in Threads, NEW i \in DOMAIN nodes, Fail(t, i)
    PROVE  IInv'
<1>1. nodes[i].where # "deleted"
  <2>1. Holders(i) # {}
    BY Zenon DEF Fail, Holders
  <2> QED BY Zenon, <2>1, HeldIsKept DEF IInv
<1>2. setBanned' \subseteq Subnets /\ banning' \in Subnets \cup {None}
  BY Zenon DEF Fail, IInv, TypeOK
<1> QED BY Zenon, <1>1, <1>2, FlagStep DEF Fail

\* setban marks the first node of the address that it finds.
LEMMA SetbanRoundStep ==
    ASSUME IInv, setban_round
    PROVE  IInv'
<1>1. CASE FindNode(banning) = {}
  <2>1. /\ UNCHANGED <<nodes, permits, copy, opener>> /\ at' = at /\ setBanned' = setBanned
        /\ banning' = None
    BY Zenon, <1>1 DEF setban_round
  <2> QED BY Zenon, <2>1, ListsUntouched DEF IInv, TypeOK
<1>2. CASE FindNode(banning) # {}
  <2> DEFINE j == Min(FindNode(banning))
  <2>1. FindNode(banning) \in SUBSET Nat
    <3>1. DOMAIN nodes \in SUBSET Nat
      BY SMTT(30), NodeIds DEF IInv
    <3> QED BY Zenon, <3>1 DEF FindNode, Listed
  <2>2. j \in FindNode(banning)
    BY Zenon, <1>2, <2>1, LeastExists DEF Min
  <2>3. nodes' = [nodes EXCEPT ![j].fDisconnect = TRUE] /\ UNCHANGED <<permits, copy, at, opener, setBanned, banning>>
    BY Zenon, <1>2 DEF setban_round
  <2> HIDE DEF j
  <2>4. j \in DOMAIN nodes /\ nodes[j].where # "deleted"
    BY Zenon, <2>2 DEF FindNode, Listed
  <2>5. setBanned' \subseteq Subnets /\ banning' \in Subnets \cup {None}
    BY Zenon, <2>3 DEF IInv, TypeOK
  <2> QED BY Zenon, <2>3, <2>4, <2>5, FlagStep
<1> QED BY Zenon, <1>1, <1>2

-----------------------------------------------------------------------------
\* StartNode: no nodes, and all slots with the semaphore.
LEMMA InitIInv == Init => IInv
<1> SUFFICES ASSUME Init PROVE IInv
  BY Zenon
<1> USE DEF Init
<1>1. nodes = <<>> /\ DOMAIN nodes = {}
  BY SMTT(30)
<1>2. /\ Cardinality({o \in Openers : opener[o].grant}) = 0
      /\ Cardinality({i \in DOMAIN nodes : nodes[i].grantOutbound}) = 0
      /\ Cardinality({i \in Alive : nodes[i].fInbound}) = 0
  <2>1. /\ {o \in Openers : opener[o].grant} = {}
        /\ {i \in DOMAIN nodes : nodes[i].grantOutbound} = {}
        /\ {i \in Alive : nodes[i].fInbound} = {}
    BY Zenon, <1>1 DEF Idle, Alive, Listed
  <2> QED BY Zenon, <2>1, FS_EmptySet
<1>3. nMaxOutbound \in Nat /\ nMaxInbound \in Nat /\ MaxNodes \in Nat
  BY Zenon, LimitAssumption
<1>4. SlotsConserved /\ InboundBounded
  BY SMTT(30), <1>2, <1>3 DEF SlotsConserved, InboundBounded
<1>5. TypeOK
  <2>1. 0 \in 0..MaxNodes /\ nodes \in [1..0 -> Node]
    BY SMTT(30), <1>1, <1>3
  <2>2. opener \in [Openers -> Opening]
    BY Zenon DEF Idle, Opening, Addresses
  <2> QED BY SMTT(30), <1>1, <1>3, <2>1, <2>2 DEF TypeOK
<1>6. RefsCounted /\ DeletedIsFreed /\ OpenersInOrder
  BY Zenon, <1>1 DEF RefsCounted, DeletedIsFreed, OpenersInOrder, Idle
<1> QED BY Zenon, <1>4, <1>5, <1>6 DEF IInv

\* Every step keeps the inductive invariant.
LEMMA NextStep == IInv /\ [Next]_vars => IInv'
<1> SUFFICES ASSUME IInv, [Next]_vars PROVE IInv'
  BY Zenon
<1>1. CASE DisconnectNodes BY Zenon, <1>1, DisconnectNodesStep
<1>2. CASE DeleteNodes BY Zenon, <1>2, DeleteNodesStep
<1>3. CASE NoNodes
  BY Zenon, <1>3, ListsUntouched DEF NoNodes, IInv, TypeOK
<1>4. ASSUME NEW t \in Threads, Reference(t) \/ Release(t) PROVE IInv'
  BY Zenon, <1>4, ReferenceStep, ReleaseStep
<1>5. ASSUME NEW addr \in Callers, AcceptConnection(addr) PROVE IInv'
  BY Zenon, <1>5, AcceptStep
<1>6. ASSUME NEW t \in Threads, NEW i \in DOMAIN nodes, Fail(t, i) PROVE IInv'
  BY Zenon, <1>6, FailStep
<1>7. ASSUME NEW o \in Openers, Acquire(o) \/ GiveUp(o) \/ ConnectNode(o) \/ MoveTo(o) \/ Mark(o)
      PROVE  IInv'
  BY Zenon, <1>7, AcquireStep, GiveUpStep, ConnectNodeStep, MoveToStep, MarkStep
<1>8. ASSUME NEW o \in Openers, NEW addr \in Dialed, Choose_(o, addr) PROVE IInv'
  BY Zenon, <1>8, ChooseStep
<1>9. ASSUME NEW i \in DOMAIN nodes, disconnectnode(i) PROVE IInv'
  <2>1. nodes[i].where # "deleted"
    BY Zenon, <1>9 DEF disconnectnode, Alive, Listed
  <2>2. setBanned' \subseteq Subnets /\ banning' \in Subnets \cup {None}
    BY Zenon, <1>9 DEF disconnectnode, IInv, TypeOK
  <2> QED BY Zenon, <1>9, <2>1, <2>2, FlagStep DEF disconnectnode
<1>10. ASSUME NEW addr \in Subnets, setban(addr) \/ Unban(addr) PROVE IInv'
  <2>1. /\ UNCHANGED <<nodes, permits, copy, opener>> /\ at' = at
        /\ setBanned' \subseteq Subnets /\ banning' \in Subnets \cup {None}
    BY Zenon, <1>10 DEF setban, Unban, IInv, TypeOK
  <2> QED BY Zenon, <2>1, ListsUntouched DEF IInv, TypeOK
<1>11. CASE setban_round BY Zenon, <1>11, SetbanRoundStep
<1>12. CASE UNCHANGED vars
  BY Zenon, <1>12, ListsUntouched DEF vars, IInv, TypeOK
<1>13. "net" \in Threads /\ "msghand" \in Threads
  BY Zenon DEF Threads
<1> QED BY Zenon, <1>1, <1>2, <1>3, <1>4, <1>5, <1>6, <1>7, <1>8, <1>9, <1>10, <1>11, <1>12, <1>13
        DEF Next, SocketLoop

\* The inductive invariant implies what the reference counts are for.
LEMMA CountsProtect == IInv => UsedAlive
<1> SUFFICES ASSUME IInv PROVE UsedAlive
  BY Zenon
<1>1. ASSUME NEW i \in DOMAIN nodes
      PROVE  nodes[i].nRefCount >= Cardinality({t \in Threads : i \in copy[t]})
  <2>1. /\ nodes[i].nRefCount \in Nat
        /\ Cardinality(Holders(i)) \in Nat /\ Cardinality(Setters(i)) \in Nat
        /\ nodes[i].nRefCount >= Cardinality(Holders(i)) + Cardinality(Setters(i))
                                  + (IF Owned(i) THEN 1 ELSE 0)
    BY Zenon, NodeIds, Counts DEF IInv, RefsCounted, Node
  <2>2. (IF Owned(i) THEN 1 ELSE 0) \in {0, 1}
    BY Zenon
  <2>3. nodes[i].nRefCount >= Cardinality(Holders(i))
    BY SMTT(30), <2>1, <2>2
  <2> QED BY Zenon, <2>3 DEF Holders
<1>2. ASSUME NEW t \in Threads, NEW i \in copy[t]
      PROVE  nodes[i].where # "deleted"
  <2>1. i \in DOMAIN nodes /\ Holders(i) # {}
    BY Zenon DEF IInv, TypeOK, Holders
  <2> QED BY Zenon, <2>1, HeldIsKept DEF IInv
<1>3. ASSUME NEW o \in Openers, opener[o].pc \in {"move", "mark"}
      PROVE  nodes[opener[o].id].where # "deleted"
  <2>1. opener[o].id \in DOMAIN nodes /\ Setters(opener[o].id) # {}
    BY Zenon, <1>3 DEF IInv, OpenersInOrder, Setters
  <2> QED BY Zenon, <2>1, HeldIsKept DEF IInv
<1> QED BY Zenon, <1>1, <1>2, <1>3 DEF UsedAlive

\* For any number of openers, slots, callers and inbound places: a node that a
\* thread has copied or an opener is setting up is never deleted, every slot of
\* semOutbound is free, with one opener or with one node, and the inbound
\* connections that are to stay are within nMaxInbound (ThreadSocketHandler,
\* OpenNetworkConnection, AcceptConnection).
THEOREM Soundness == Spec => []ConnectionsSound
<1>1. IInv => ConnectionsSound
  BY Zenon, CountsProtect DEF IInv, ConnectionsSound
<1> QED BY <1>1, InitIInv, NextStep, PTL DEF Spec
=============================================================================
