------------------------------ MODULE MCPeers ------------------------------
(***************************************************************************)
(* The node and its peers, an instance for each part: two nodes at the ends *)
(* of a connection (PeerLink), the connections of one node (Connections:    *)
(* two openers that race for one address, and inbound connections that are  *)
(* evicted and banned), and the addresses it knows (AddrMan).  `part' says  *)
(* which one a behaviour is about.                                          *)
(***************************************************************************)
EXTENDS Connections, TLC

VARIABLES part, setup, node, open, wire, asks, sent, done, nonces, man

linkvars == <<setup, node, open, wire, asks, sent, done, nonces>>

-----------------------------------------------------------------------------
(* Messages of 2 to 4 bytes through a window of 3: send() and recv() cut    *)
(* them anywhere.  One side asks for a block, a transaction and something   *)
(* unknown and pings; both ask for blocks; two pings cross; a node that     *)
(* speaks too early, to one with a newer protocol.                          *)
MCPayload(c) == CASE c \in {"verack", "getaddr", "pong", "ping"} -> 0 [] c = "block" -> 2 [] OTHER -> 1

Two(o, i) == [n \in {"out", "in"} |-> IF n = "out" THEN o ELSE i]
Pair(asked, pinged, protocols, height, hasty) ==
    [asks |-> asked, pings |-> pinged, protocol |-> protocols, epochs |-> Two(1, 1),
     last |-> height, hasty |-> hasty]
MCSetups ==
    {Pair(Two(<< <<"block", "tx", "missing">> >>, <<>>), Two(1, 0), Two(1, 1), 1, FALSE),
     Pair(Two(<< <<"block", "block">> >>, << <<"block">> >>), Two(0, 0), Two(1, 1), 1, FALSE),
     Pair(Two(<<>>, <<>>), Two(2, 0), Two(1, 1), 1, FALSE),
     Pair(Two(<< <<"tx">> >>, <<>>), Two(0, 0), Two(1, 2), 2, TRUE)}

Link == INSTANCE PeerLink WITH
    HEADER_SIZE <- 2, Payload <- MCPayload, Window <- 3, SendBufferSize <- 4, ReceiveFloodSize <- 3,
    Setups <- MCSetups

-----------------------------------------------------------------------------
(* Two openers that race with an RPC call for one address, and connections  *)
(* from three addresses, of two groups, of which one is whitelisted and one *)
(* gets banned.                                                             *)
MCGroup(addr) == CASE addr \in {"i1", "i2"} -> 1 [] addr = "i3" -> 2 [] OTHER -> 3

Race ==
    /\ Next /\ UNCHANGED <<setBanned, banning>>
    /\ Cardinality(DOMAIN nodes') < MaxNodes /\ \A i \in DOMAIN nodes' : ~nodes'[i].fInbound
Evict == Next /\ UNCHANGED opener

-----------------------------------------------------------------------------
(* Four services, two of one address, in two new buckets and a tried one of *)
(* one place each.                                                          *)
Tables == INSTANCE AddrMan WITH
    Services <- {<<1, 1>>, <<1, 2>>, <<2, 1>>, <<3, 1>>}, IpOf <- LAMBDA s : s[1],
    Sources <- {1, 2}, Keys <- {0}, NewBuckets <- {0, 1}, TriedBuckets <- {0}, Positions <- {0},
    GetNewBucket <- LAMBDA k, s, src : (s[1] + src + k) % 2, GetTriedBucket <- LAMBDA k, s : 0,
    GetBucketPosition <- LAMBDA k, s, new, b : 0,
    ADDRMAN_NEW_BUCKETS_PER_ADDRESS <- 2, ADDRMAN_RETRIES <- 1, ADDRMAN_MAX_FAILURES <- 1,
    MaxIds <- 3

-----------------------------------------------------------------------------
Quiet == Link!Init /\ setup = CHOOSE s \in MCSetups : TRUE

MCInit ==
    /\ Init
    /\ \/ part = "link" /\ Link!Init /\ man = <<>>
       \/ part \in {"race", "evict"} /\ Quiet /\ man = <<>>
       \/ part = "tables" /\ Tables!Init /\ Quiet

MCNext ==
    \/ part = "link" /\ Link!Next /\ UNCHANGED <<part, vars, man>>
    \/ part = "race" /\ Race /\ UNCHANGED <<part, linkvars, man>>
    \/ part = "evict" /\ Evict /\ UNCHANGED <<part, linkvars, man>>
    \/ part = "tables" /\ Tables!Next /\ UNCHANGED <<part, vars, linkvars>>

MCSpec ==
    /\ MCInit /\ [][MCNext]_<<part, vars, linkvars, man>>
    /\ \A n \in {"out", "in"} :
        /\ \/ []<>(part # "link" \/ ~Link!Transfers(n))
           \/ []<><<Link!SocketSend(n) \/ Link!SocketRecv(n)>>_linkvars
        /\ \/ []<>(part # "link" \/ ~Link!ToClose(n))
           \/ []<><<Link!SocketClosed(n) \/ Link!Disconnect(n) \/ Link!Inactive(n)>>_linkvars
        /\ \/ []<>(part # "link" \/ ~Link!Processes(n))
           \/ []<><<Link!ProcessMessages(n)>>_linkvars
        /\ \/ []<>(part # "link" \/ ~Link!Asks(n))
           \/ []<><<Link!SendMessages(n) /\ asks' # asks>>_linkvars

-----------------------------------------------------------------------------
\* StreamExact and AnswersInOrder of PeerLink: what a node processes is what its
\* peer sent, in order, and the answers go out in the order of the requests.
LinkExact == part = "link" => Link!TypeOK /\ Link!StreamExact /\ Link!AnswersInOrder

\* Settles of PeerLink: what is asked is answered, or the connection is closed.
LinkSettles == []<>(part # "link" \/ Link!Settled)

\* TablesConsistent and RestartKeeps of AddrMan: the tables and the indexes agree,
\* and a restart rebuilds them from the file.
TablesExact == part = "tables" => Tables!TypeOK /\ Tables!TablesConsistent /\ Tables!RestartKeeps

\* TriedNotForgotten of AddrMan: a collision puts a tried address back among the new.
TriedNotForgotten == [][part = "tables" => Tables!Content(man).trieds \subseteq Tables!Content(man').services]_man
=============================================================================
