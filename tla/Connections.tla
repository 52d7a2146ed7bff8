----------------------------- MODULE Connections -----------------------------
(***************************************************************************)
(* The connection manager of net.cpp: the list of nodes vNodes, the list of *)
(* nodes that wait to be deleted, the reference counts that keep a node     *)
(* alive while a thread uses it, the semaphore of outbound slots whose      *)
(* grants travel with the nodes, the limit on inbound connections with the  *)
(* choice of a connection to evict, and the bans.  The socket thread, the   *)
(* message thread, the threads that open connections and the RPC calls      *)
(* interleave at the points where the code takes and gives up cs_vNodes.    *)
(***************************************************************************)
EXTENDS Integers, FiniteSets, FiniteSetsExt

CONSTANTS
    MaxNodes,           \* nodes made in a behaviour
    Dialed,             \* addresses the openers know
    Callers,            \* addresses that connect to us
    Subnets,            \* addresses setban is called for
    Whitelisted,        \* those among them of a whitelisted range
    Group(_),           \* the network group of an address
    Openers,            \* the threads that open connections
    Granted,            \* those that need a grant of semOutbound
    nMaxOutbound,
    nMaxInbound,
    KeptByGroup,        \* inbound nodes protected by network group (4)
    KeptByPing          \* and by ping time (8)

ASSUME OpenerAssumption == IsFiniteSet(Openers) /\ Granted \subseteq Openers
ASSUME LimitAssumption == {MaxNodes, nMaxOutbound, nMaxInbound} \subseteq Nat
ASSUME ProtectionAssumption == {KeptByGroup, KeptByPing} \subseteq Nat

VARIABLES
    nodes,              \* id -> CNode; ids are in the order of nTimeConnected
    permits,            \* the value of semOutbound
    copy,               \* the nodes each of the two service threads has referenced
    at,                 \* where the socket thread is in its loop
    opener,             \* what each opener is doing
    setBanned,
    banning             \* the address setban is disconnecting, or None

vars == <<nodes, permits, copy, at, opener, setBanned, banning>>

None == "none"
Threads == {"net", "msghand"}

Listed == {i \in DOMAIN nodes : nodes[i].where = "vNodes"}
Leaving == {i \in DOMAIN nodes : nodes[i].where = "vNodesDisconnected"}
Alive == {i \in Listed : ~nodes[i].fDisconnect}

\* A node as its constructor and the AddRef after it leave it.
CNode(addr, fInbound, fWhitelisted) ==
    [addr |-> addr, fInbound |-> fInbound, fWhitelisted |-> fWhitelisted, where |-> "vNodes",
     nRefCount |-> 1, grantOutbound |-> FALSE, fNetworkNode |-> FALSE, fDisconnect |-> FALSE]

\* What is left of a node after ~CNode: its id is not used again.
Freed == [CNode(None, FALSE, FALSE) EXCEPT !.where = "deleted", !.nRefCount = 0]

WithNode(nd) == [i \in DOMAIN nodes \cup {Cardinality(DOMAIN nodes) + 1} |->
                    IF i \in DOMAIN nodes THEN nodes[i] ELSE nd]
CanMake == Cardinality(DOMAIN nodes) < MaxNodes

FindNode(addr) == {i \in Listed : nodes[i].addr = addr}
IsBanned(addr) == addr \in setBanned

-----------------------------------------------------------------------------
(* The socket thread: ThreadSocketHandler. *)

\* The first part of the loop, under cs_vNodes: nodes marked fDisconnect leave
\* the list, their slot is free again, and the reference of their maker is
\* released, if the node is inbound or was marked as opened by us.
DisconnectNodes ==
    /\ at = "disconnect"
    /\ LET out == {i \in Listed : nodes[i].fDisconnect \/ nodes[i].nRefCount <= 0}
       IN  /\ nodes' = [i \in DOMAIN nodes |->
                  IF i \notin out THEN nodes[i]
                  ELSE [nodes[i] EXCEPT
                           !.where = "vNodesDisconnected",
                           !.grantOutbound = FALSE,
                           !.fDisconnect = TRUE,
                           !.nRefCount = IF nodes[i].fNetworkNode \/ nodes[i].fInbound THEN @ - 1 ELSE @]]
           /\ permits' = permits + Cardinality({i \in out : nodes[i].grantOutbound})
    /\ at' = "delete"
    /\ UNCHANGED <<copy, opener, setBanned, banning>>

\* The second part: those nobody refers to are deleted; the destructor of the
\* node gives back a grant that came to it after it left the list.
DeleteNodes ==
    /\ at = "delete"
    /\ LET out == {i \in Leaving : nodes[i].nRefCount <= 0}
       IN  /\ nodes' = [i \in DOMAIN nodes |->
                  IF i \in out THEN Freed ELSE nodes[i]]
           /\ permits' = permits + Cardinality({i \in out : nodes[i].grantOutbound})
    /\ at' = "accept"
    /\ UNCHANGED <<copy, opener, setBanned, banning>>

\* The sets of k of S that a sort by network group, with a secret key, can put
\* last: whole groups and a part of one.
LastByGroup(S, k) ==
    {T \in kSubset(k, S) :
        Cardinality({Group(nodes[i].addr) : i \in T} \cap {Group(nodes[i].addr) : i \in S \ T}) <= 1}

\* The half of S connected longest.
Oldest(S) == {i \in S : Cardinality({j \in S : j <= i}) <= Cardinality(S) \div 2}

InGroup(S, g) == {i \in S : Group(nodes[i].addr) = g}

\* The group with the most connections and, among those, the youngest member.
Largest(S) ==
    CHOOSE g \in {Group(nodes[i].addr) : i \in S} :
        \A h \in {Group(nodes[i].addr) : i \in S} \ {g} :
            \/ Cardinality(InGroup(S, g)) > Cardinality(InGroup(S, h))
            \/ /\ Cardinality(InGroup(S, g)) = Cardinality(InGroup(S, h))
               /\ Max(InGroup(S, g)) > Max(InGroup(S, h))

AtMost(k, S) == IF Cardinality(S) < k THEN Cardinality(S) ELSE k

\* The connections that are not protected, for some network groups and ping
\* times: of the candidates (or, before a network upgrade, of those among them
\* that do not support it) some are protected by group, some by ping time, and
\* then the half connected longest.
Unprotected ==
    LET candidates == {i \in Alive : nodes[i].fInbound /\ ~nodes[i].fWhitelisted}
        left(first) == {first \ P : P \in kSubset(AtMost(KeptByPing, first), first)}
        kept(all) == {all \ P : P \in LastByGroup(all, AtMost(KeptByGroup, all))}
    IN  {second \ Oldest(second) :
            second \in UNION {left(first) : first \in UNION {kept(all) : all \in SUBSET candidates}}}

\* AttemptToEvictConnection: the nodes it may mark.  The youngest of the largest
\* group goes; a group of one stays unless the new connection is preferred.
AttemptToEvictConnection(fPreferNewConnection) ==
    {Max(InGroup(rest, Largest(rest))) :
        rest \in {S \in Unprotected \ {{}} :
                     Cardinality(InGroup(S, Largest(S))) > 1 \/ fPreferNewConnection}}

\* AcceptConnection, for a connection from addr: dropped if it is banned, or if
\* the inbound connections are at their limit and none can be evicted.
AcceptConnection(addr) ==
    LET whitelisted == addr \in Whitelisted
        nInbound == Cardinality({i \in Listed : nodes[i].fInbound})
        new == CNode(addr, TRUE, whitelisted)
    IN  /\ at = "accept" /\ CanMake
        /\ ~(IsBanned(addr) /\ ~whitelisted)
        /\ IF nInbound < nMaxInbound
           THEN nodes' = WithNode(new)
           ELSE \E victim \in AttemptToEvictConnection(whitelisted) :
                    nodes' = [WithNode(new) EXCEPT ![victim].fDisconnect = TRUE]
        /\ UNCHANGED <<permits, copy, at, opener, setBanned, banning>>

\* The loops of both threads: reference all nodes, serve them, release them.
Reference(t) ==
    /\ copy[t] = {}
    /\ Listed # {}
    /\ t = "net" => at = "accept"
    /\ copy' = [copy EXCEPT ![t] = Listed]
    /\ nodes' = [i \in DOMAIN nodes |-> IF i \in Listed THEN [nodes[i] EXCEPT !.nRefCount = @ + 1] ELSE nodes[i]]
    /\ at' = IF t = "net" THEN "service" ELSE at
    /\ UNCHANGED <<permits, opener, setBanned, banning>>

\* While a node is served: its socket fails, times out, or its peer misbehaves.
Fail(t, i) ==
    /\ i \in copy[t]
    /\ ~nodes[i].fDisconnect
    /\ nodes' = [nodes EXCEPT ![i].fDisconnect = TRUE]
    /\ UNCHANGED <<permits, copy, at, opener, setBanned, banning>>

Release(t) ==
    /\ copy[t] # {}
    /\ nodes' = [i \in DOMAIN nodes |-> IF i \in copy[t] THEN [nodes[i] EXCEPT !.nRefCount = @ - 1] ELSE nodes[i]]
    /\ copy' = [copy EXCEPT ![t] = {}]
    /\ at' = IF t = "net" THEN "disconnect" ELSE at
    /\ UNCHANGED <<permits, opener, setBanned, banning>>

\* The socket thread finds no node to serve.
NoNodes ==
    /\ at = "accept" /\ Listed = {}
    /\ at' = "disconnect"
    /\ UNCHANGED <<nodes, permits, copy, opener, setBanned, banning>>

-----------------------------------------------------------------------------
(* The openers: ThreadOpenConnections, ThreadOpenAddedConnections and the     *)
(* addnode RPC, each in OpenNetworkConnection.                                *)

Idle == [pc |-> "idle", addr |-> None, id |-> 0, grant |-> FALSE]
Becomes(o, what) == opener' = [opener EXCEPT ![o] = what]

\* CSemaphoreGrant grant(*semOutbound): wait for a slot.
Acquire(o) ==
    /\ o \in Granted /\ opener[o] = Idle /\ permits > 0
    /\ permits' = permits - 1
    /\ Becomes(o, [Idle EXCEPT !.pc = "choose", !.grant = TRUE])
    /\ UNCHANGED <<nodes, copy, at, setBanned, banning>>

\* The checks of OpenNetworkConnection, and of the loop that chooses an address
\* outside the groups we are connected to (opencon).
Choose_(o, addr) ==
    /\ opener[o].pc = "choose" \/ (o \notin Granted /\ opener[o] = Idle)
    /\ o = "opencon" => Group(addr) \notin {Group(nodes[i].addr) : i \in {j \in Listed : ~nodes[j].fInbound}}
    /\ FindNode(addr) = {}
    /\ o \in Granted => ~IsBanned(addr)
    /\ Becomes(o, [opener[o] EXCEPT !.pc = "connect", !.addr = addr])
    /\ UNCHANGED <<nodes, permits, copy, at, setBanned, banning>>

\* The opener goes on without a connection: the grant's destructor returns it.
GiveUp(o) ==
    /\ opener[o].pc \in {"choose", "connect"}
    /\ permits' = permits + (IF opener[o].grant THEN 1 ELSE 0)
    /\ Becomes(o, Idle)
    /\ UNCHANGED <<nodes, copy, at, setBanned, banning>>

\* ConnectNode: a connection to that address that has come up meanwhile is
\* referenced and used; else a new node joins the list.
ConnectNode(o) ==
    /\ opener[o].pc = "connect"
    /\ LET existing == IF o \in Granted THEN FindNode(opener[o].addr) ELSE {}
       IN  \/ \E i \in existing :
                 /\ nodes' = [nodes EXCEPT ![i].nRefCount = @ + 1]
                 /\ Becomes(o, [opener[o] EXCEPT !.pc = "move", !.id = i])
           \/ /\ existing = {} /\ CanMake
              /\ nodes' = WithNode(CNode(opener[o].addr, FALSE, FALSE))
              /\ Becomes(o, [opener[o] EXCEPT !.pc = "move", !.id = Cardinality(DOMAIN nodes) + 1])
    /\ UNCHANGED <<permits, copy, at, setBanned, banning>>

\* A mutant: the grant the node already has is not given back first.
MoveOver(o) ==
    /\ opener[o].pc = "move"
    /\ nodes' = [nodes EXCEPT ![opener[o].id].grantOutbound = opener[o].grant \/ @]
    /\ permits' = permits
    /\ Becomes(o, [opener[o] EXCEPT !.pc = "mark", !.grant = FALSE])
    /\ UNCHANGED <<copy, at, setBanned, banning>>

\* grantOutbound->MoveTo(pnode->grantOutbound): the grant the node had is given
\* back, then it has the opener's.  Without a grant nothing moves.
MoveTo(o) ==
    /\ opener[o].pc = "move"
    /\ IF o \in Granted
       THEN /\ nodes' = [nodes EXCEPT ![opener[o].id].grantOutbound = opener[o].grant]
            /\ permits' = permits + (IF nodes[opener[o].id].grantOutbound THEN 1 ELSE 0)
       ELSE UNCHANGED <<nodes, permits>>
    /\ Becomes(o, [opener[o] EXCEPT !.pc = "mark", !.grant = FALSE])
    /\ UNCHANGED <<copy, at, setBanned, banning>>

\* pnode->fNetworkNode = true, and the opener is done with the node.
Mark(o) ==
    /\ opener[o].pc = "mark"
    /\ nodes' = [nodes EXCEPT ![opener[o].id].fNetworkNode = TRUE]
    /\ Becomes(o, Idle)
    /\ UNCHANGED <<permits, copy, at, setBanned, banning>>

-----------------------------------------------------------------------------
(* The RPC calls disconnectnode and setban. *)

disconnectnode(i) ==
    /\ i \in Alive
    /\ nodes' = [nodes EXCEPT ![i].fDisconnect = TRUE]
    /\ UNCHANGED <<permits, copy, at, opener, setBanned, banning>>

setban(addr) ==
    /\ banning = None /\ ~IsBanned(addr)
    /\ setBanned' = setBanned \cup {addr}
    /\ banning' = addr
    /\ UNCHANGED <<nodes, permits, copy, at, opener>>

\* One round of "disconnect possible nodes": the first node found is marked,
\* again and again until the socket thread has taken it off the list.
setban_round ==
    /\ banning # None
    /\ IF FindNode(banning) = {}
       THEN banning' = None /\ UNCHANGED nodes
       ELSE /\ nodes' = [nodes EXCEPT ![Min(FindNode(banning))].fDisconnect = TRUE]
            /\ UNCHANGED banning
    /\ UNCHANGED <<permits, copy, at, opener, setBanned>>

\* setban remove, clearbanned, and a ban that runs out.
Unban(addr) ==
    /\ banning # addr /\ IsBanned(addr)
    /\ setBanned' = setBanned \ {addr}
    /\ UNCHANGED <<nodes, permits, copy, at, opener, banning>>

-----------------------------------------------------------------------------

Init ==
    /\ nodes = <<>>
    /\ permits = nMaxOutbound
    /\ copy = [t \in Threads |-> {}]
    /\ at = "disconnect"
    /\ opener = [o \in Openers |-> Idle]
    /\ setBanned = {}
    /\ banning = None

SocketLoop == DisconnectNodes \/ DeleteNodes \/ NoNodes \/ Reference("net") \/ Release("net")

Next ==
    \/ SocketLoop
    \/ Reference("msghand") \/ Release("msghand")
    \/ \E addr \in Callers : AcceptConnection(addr)
    \/ \E t \in Threads, i \in DOMAIN nodes : Fail(t, i)
    \/ \E o \in Openers : Acquire(o) \/ GiveUp(o) \/ ConnectNode(o) \/ MoveTo(o) \/ Mark(o)
    \/ \E o \in Openers, addr \in Dialed : Choose_(o, addr)
    \/ \E i \in DOMAIN nodes : disconnectnode(i)
    \/ \E addr \in Subnets : setban(addr) \/ Unban(addr)
    \/ setban_round

Spec == Init /\ [][Next]_vars

-----------------------------------------------------------------------------
(* Properties. *)

Addresses == Dialed \cup Callers \cup {None}

Node ==
    [addr : Addresses, fInbound : BOOLEAN, fWhitelisted : BOOLEAN,
     where : {"vNodes", "vNodesDisconnected", "deleted"}, nRefCount : Nat,
     grantOutbound : BOOLEAN, fNetworkNode : BOOLEAN, fDisconnect : BOOLEAN]

Opening ==
    [pc : {"idle", "choose", "connect", "move", "mark"}, addr : Addresses, id : Nat, grant : BOOLEAN]

TypeOK ==
    /\ \E n \in 0..MaxNodes : nodes \in [1..n -> Node]
    /\ permits \in 0..nMaxOutbound
    /\ copy \in [Threads -> SUBSET DOMAIN nodes]
    /\ at \in {"disconnect", "delete", "accept", "service"}
    /\ opener \in [Openers -> Opening]
    /\ setBanned \subseteq Subnets
    /\ banning \in Subnets \cup {None}

\* A node that a thread uses is never deleted: not one the socket or the message
\* thread has copied, nor the one an opener is setting up (the reference counts
\* of ThreadSocketHandler).  The count is never below what the threads hold.
UsedAlive ==
    /\ \A i \in DOMAIN nodes :
           nodes[i].nRefCount >= Cardinality({t \in Threads : i \in copy[t]})
    /\ \A i \in (UNION {copy[t] : t \in Threads}) \cup {opener[o].id : o \in {p \in Openers : opener[p].pc \in {"move", "mark"}}} :
           nodes[i].where # "deleted"

\* An outbound slot is always in one place: free, with an opener, or with one
\* node (CSemaphoreGrant).  So there are never more connections opened for a
\* slot than slots.
SlotsConserved ==
    permits + Cardinality({o \in Openers : opener[o].grant})
            + Cardinality({i \in DOMAIN nodes : nodes[i].grantOutbound}) = nMaxOutbound

\* The inbound connections that are to stay are within the limit, whatever is
\* accepted, evicted and closed (AcceptConnection counts the connections that
\* are about to go, and evicts only among the others).
InboundBounded == Cardinality({i \in Alive : nodes[i].fInbound}) <= nMaxInbound

\* The three together, with the types.
ConnectionsSound == TypeOK /\ UsedAlive /\ SlotsConserved /\ InboundBounded
=============================================================================
