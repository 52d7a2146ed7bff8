------------------------- MODULE BlockDownloadProofs -------------------------
(***************************************************************************)
(* The actions of BlockDownload keep its inductive invariant; the theorems *)
(* that follow: the books of the blocks in flight are exact, and no block  *)
(* below pindexLastCommonBlock is missing.                                 *)
(***************************************************************************)
EXTENDS BlockDownloadLemmas

-----------------------------------------------------------------------------
(* The inductive invariant.                                                *)

Requests == [type : {"getheaders", "getdata"}, from : Blocks, stop : Blocks \cup {None}, age : Nat]

NetTypes ==
    /\ conn \in [Peers -> {"closed", "new", "open"}]
    /\ requests \in [Peers -> Seq(Requests)]
    /\ history \in [Peers -> Seq(Blocks) \ {<<>>}]

ChainTypes ==
    /\ mapBlockIndex \subseteq Blocks /\ haveData \subseteq Blocks /\ tip \in Blocks /\ pindexBestHeader \in Blocks
    /\ Ancestors[tip] \subseteq haveData

\* No peer has more blocks in flight than it may have.
Bounded(states) == \A p \in Peers : states[p].nBlocksInFlight <= MAX_BLOCKS_IN_TRANSIT_PER_PEER

Started(states) == {p \in Peers : states[p].fSyncStarted}
PreferredPeers(states) == {p \in Peers : states[p].fPreferredDownload}

\* The counters of peers.
PeersCounted ==
    /\ nSyncStarted = Cardinality(Started(node))
    /\ nPreferredDownload = Cardinality(PreferredPeers(node))

IInv ==
    /\ NetTypes
    /\ ChainTypes
    /\ Books \in GoodBooks
    /\ Bounded(node)
    /\ PeersCounted

\* The books as the invariant describes them.
LEMMA BooksNow ==
    ASSUME IInv
    PROVE  /\ Books \in GoodBooks
           /\ Books.node = node /\ Books.inFlight = mapBlocksInFlight /\ Books.queued = nQueuedValidatedHeaders
           /\ node \in [Peers -> NodeStates] /\ mapBlocksInFlight \in [Blocks -> Peers \cup {None}]
           /\ nQueuedValidatedHeaders \in Int
           /\ Exact(Books) /\ BlocksOnTheWay
           /\ \A p \in Peers : node[p] \in NodeStates /\ Counted(node[p]) /\ Linked(node[p])
<1>1. Books \in GoodBooks
  BY Zenon DEF IInv
<1>2. Books.node = node /\ Books.inFlight = mapBlocksInFlight /\ Books.queued = nQueuedValidatedHeaders
  BY SMTT(30) DEF Books
<1>3. /\ node \in [Peers -> NodeStates] /\ mapBlocksInFlight \in [Blocks -> Peers \cup {None}]
      /\ nQueuedValidatedHeaders \in Int /\ Exact(Books)
  BY Zenon, <1>1, <1>2, GoodFields
<1>4. \A p \in Peers : node[p] \in NodeStates /\ Counted(node[p]) /\ Linked(node[p])
  BY Zenon, <1>2, <1>3 DEF Exact
<1>5. ASSUME NEW b \in Blocks, mapBlocksInFlight[b] # None
      PROVE  Connected(mapBlocksInFlight[b])
  <2> DEFINE q == mapBlocksInFlight[b]
  <2>1. q \in Peers
    BY Zenon, <1>3, <1>5
  <2>2. b \in Hashes(node[q].vBlocksInFlight)
    BY Zenon, <1>2, <1>3, <2>1 DEF Exact
  <2>3. node[q].vBlocksInFlight # <<>>
    <3>1. Hashes(<<>>) = {}
      BY SMTT(30) DEF Hashes
    <3> QED BY Zenon, <2>2, <3>1
  <2>4. node[q] # CNodeState
    <3>1. CNodeState.vBlocksInFlight = <<>>
      BY SMTT(30) DEF CNodeState
    <3> QED BY Zenon, <2>3, <3>1
  <2>5. conn[q] # "closed"
    BY Zenon, <1>2, <1>3, <2>1, <2>4 DEF Exact
  <2> QED BY Zenon, <2>1, <2>5 DEF Connected
<1> QED BY Zenon, <1>1, <1>2, <1>3, <1>4, <1>5 DEF BlocksOnTheWay

\* The books with the state of one connected peer changed.
LEMMA ChangedNow ==
    ASSUME IInv, NEW p \in Peers, conn[p] # "closed",
           NEW t \in NodeStates, SameInFlight(node[p], t), Linked(t)
    PROVE  /\ [Books EXCEPT !.node[p] = t] \in GoodBooks
           /\ [Books EXCEPT !.node[p] = t].node = [node EXCEPT ![p] = t]
           /\ [Books EXCEPT !.node[p] = t].inFlight = mapBlocksInFlight
           /\ [Books EXCEPT !.node[p] = t].queued = nQueuedValidatedHeaders
<1>1. /\ Books \in GoodBooks /\ Books.node = node /\ Books.inFlight = mapBlocksInFlight
      /\ Books.queued = nQueuedValidatedHeaders
  BY Zenon, BooksNow
<1>2. SameInFlight(Books.node[p], t)
  BY Zenon, <1>1
<1>3. /\ [Books EXCEPT !.node[p] = t] \in GoodBooks
      /\ [Books EXCEPT !.node[p] = t].node = [Books.node EXCEPT ![p] = t]
      /\ [Books EXCEPT !.node[p] = t].inFlight = Books.inFlight
      /\ [Books EXCEPT !.node[p] = t].queued = Books.queued
  BY Zenon, <1>1, <1>2, Changed
<1> QED BY Zenon, <1>1, <1>3

\* New books that are good in the old state are good in the new one.
LEMMA StaysGood ==
    ASSUME NEW b \in GoodBooks, SetBooks(b), haveData \subseteq haveData',
           \A p \in Peers : conn'[p] = "closed" => b.node[p] = CNodeState
    PROVE  (Books \in GoodBooks)' /\ node' = b.node
<1>1. /\ b.node \in [Peers -> NodeStates] /\ b.inFlight \in [Blocks -> Peers \cup {None}]
      /\ b.queued \in Int /\ Exact(b)
      /\ b = [node |-> b.node, inFlight |-> b.inFlight, queued |-> b.queued]
  BY Zenon, GoodFields
<1>2. Books' = b
  BY Zenon, <1>1 DEF SetBooks, Books
<1>3. \A p \in Peers : Counted(b.node[p]) /\ Linked(b.node[p])'
  BY Zenon, <1>1 DEF Exact, Linked
<1>4. Exact(b)'
  BY Zenon, <1>1, <1>3 DEF Exact
<1>5. b \in [node : [Peers -> NodeStates], inFlight : [Blocks -> Peers \cup {None}], queued : Int]
  BY Zenon DEF GoodBooks
<1>6. (b \in GoodBooks)'
  BY Zenon, <1>4, <1>5 DEF GoodBooks
<1> QED BY Zenon, <1>2, <1>6 DEF SetBooks

LEMMA Stays ==
    ASSUME NEW b \in GoodBooks, SetBooks(b), conn' = conn, haveData \subseteq haveData'
    PROVE  (Books \in GoodBooks)' /\ node' = b.node
<1>1. \A p \in Peers : conn'[p] = "closed" => b.node[p] = CNodeState
  BY Zenon, GoodFields DEF Exact
<1> QED BY Zenon, <1>1, StaysGood

\* The counters of peers, when the flags stay as they are.
LEMMA FlagsStay ==
    ASSUME PeersCounted, NEW states,
           \A p \in Peers : /\ states[p].fSyncStarted = node[p].fSyncStarted
                            /\ states[p].fPreferredDownload = node[p].fPreferredDownload
    PROVE  nSyncStarted = Cardinality(Started(states)) /\ nPreferredDownload = Cardinality(PreferredPeers(states))
<1>1. Started(states) = Started(node) /\ PreferredPeers(states) = PreferredPeers(node)
  BY Zenon DEF Started, PreferredPeers
<1> QED BY Zenon, <1>1 DEF PeersCounted

\* Sets of peers are finite.
LEMMA PeerSetFinite ==
    ASSUME NEW S \in SUBSET Peers
    PROVE  IsFiniteSet(S) /\ Cardinality(S) \in Nat
BY Zenon, PeerAssumption, FS_Subset, FS_CardinalityType

\* A connected peer's state changes, with its blocks in flight and its flags as they were.
LEMMA KeptStep ==
    ASSUME IInv, NEW p \in Peers, conn[p] # "closed", NEW t, Kept(node[p], t),
           node' = [node EXCEPT ![p] = t], UNCHANGED <<conn, haveData, books>>
    PROVE  (Books \in GoodBooks)' /\ Bounded(node)' /\ PeersCounted'
<1> DEFINE b == [Books EXCEPT !.node[p] = t]
<1>1. t \in NodeStates /\ SameInFlight(node[p], t) /\ Linked(t)
  BY Zenon, BooksNow DEF Kept, Linked
<1>2. b \in GoodBooks /\ b.node = [node EXCEPT ![p] = t] /\ b.inFlight = mapBlocksInFlight
      /\ b.queued = nQueuedValidatedHeaders
  BY Zenon, <1>1, ChangedNow
<1> HIDE DEF b
<1>3. SetBooks(b)
  BY Zenon, <1>2 DEF SetBooks, books
<1>4. (Books \in GoodBooks)'
  BY Zenon, <1>2, <1>3, Stays
<1>5. ASSUME NEW q \in Peers
      PROVE  /\ node'[q].nBlocksInFlight = node[q].nBlocksInFlight
             /\ node'[q].fSyncStarted = node[q].fSyncStarted
             /\ node'[q].fPreferredDownload = node[q].fPreferredDownload
  <2>1. node'[p] = t /\ (q # p => node'[q] = node[q])
    BY Zenon, BooksNow
  <2> QED BY Zenon, <2>1 DEF Kept, SameInFlight
<1>6. Bounded(node)'
  BY Zenon, <1>5 DEF IInv, Bounded
<1>7. PeersCounted'
  <2>1. PeersCounted /\ nSyncStarted' = nSyncStarted /\ nPreferredDownload' = nPreferredDownload
    BY Zenon DEF IInv, books
  <2>2. nSyncStarted = Cardinality(Started(node')) /\ nPreferredDownload = Cardinality(PreferredPeers(node'))
    BY Zenon, <1>5, <2>1, FlagsStay
  <2> QED BY Zenon, <2>1, <2>2 DEF PeersCounted, Started, PreferredPeers
<1> QED BY Zenon, <1>4, <1>6, <1>7

\* The state of a new connection.
LEMMA NewState ==
    /\ CNodeState \in NodeStates /\ CNodeState.vBlocksInFlight = <<>>
    /\ CNodeState.fSyncStarted = FALSE /\ CNodeState.fPreferredDownload = FALSE
    /\ CNodeState.nBlocksInFlight = 0
    /\ Hashes(<<>>) = {} /\ Validated(<<>>) = {}
    /\ Counted(CNodeState) /\ Linked(CNodeState)
<1>1. <<>> \in Seq(Entries) /\ 0 \in Nat /\ 0 \in Int /\ Len(<<>>) = 0 /\ DOMAIN <<>> = {}
  BY SMTT(30)
<1>2. CNodeState \in NodeStates
  BY Zenon, <1>1 DEF CNodeState, NodeStates
<1>3. /\ CNodeState.vBlocksInFlight = <<>>
      /\ CNodeState.fSyncStarted = FALSE /\ CNodeState.fPreferredDownload = FALSE
      /\ CNodeState.nBlocksInFlight = 0 /\ CNodeState.nBlocksInFlightValidHeaders = 0
      /\ CNodeState.pindexLastCommonBlock = None
  BY Zenon DEF CNodeState
<1>4. Hashes(<<>>) = {} /\ Validated(<<>>) = {} /\ Distinct(<<>>)
  BY Zenon, <1>1 DEF Hashes, Validated, Distinct
<1>5. Cardinality({}) = 0
  BY Zenon, FS_EmptySet
<1> QED BY Zenon, <1>1, <1>2, <1>3, <1>4, <1>5 DEF Counted, Linked

LEMMA InitIInv == Init => IInv
<1> SUFFICES ASSUME Init PROVE IInv
  BY Zenon
<1>1. NetTypes
  <2>1. <<>> \in Seq(Requests)
    BY SMTT(30)
  <2> QED BY Zenon, <2>1, HistoryAssumption DEF Init, NetTypes
<1>2. ChainTypes
  BY Zenon, Tree DEF Init, ChainTypes
<1>3. /\ node \in [Peers -> NodeStates] /\ mapBlocksInFlight \in [Blocks -> Peers \cup {None}]
      /\ nQueuedValidatedHeaders \in Int
      /\ \A p \in Peers : node[p] = CNodeState
      /\ \A b \in Blocks : mapBlocksInFlight[b] = None
  <2>1. nQueuedValidatedHeaders \in Int
    BY SMTT(30) DEF Init
  <2> QED BY Zenon, <2>1, NewState DEF Init
<1>4. Books.node = node /\ Books.inFlight = mapBlocksInFlight /\ Books.queued = nQueuedValidatedHeaders
  BY SMTT(30) DEF Books
<1>5. Exact(Books)
  <2>1. Queued(Books) = {}
    BY Zenon, <1>3, <1>4, NewState DEF Queued
  <2>2. Books.queued >= Cardinality(Queued(Books))
    <3>1. Cardinality(Queued(Books)) = 0
      BY Zenon, <2>1, FS_EmptySet
    <3> QED BY SMTT(30), <1>4, <3>1 DEF Init
  <2>3. ASSUME NEW p \in Peers, NEW h \in Blocks
        PROVE  Books.inFlight[h] = p <=> h \in Hashes(Books.node[p].vBlocksInFlight)
    <3>1. Books.inFlight[h] # p
      BY Zenon, <1>3, <1>4, PeerAssumption
    <3>2. Hashes(Books.node[p].vBlocksInFlight) = {}
      BY Zenon, <1>3, <1>4, NewState
    <3> QED BY Zenon, <3>1, <3>2
  <2>4. \A p \in Peers : Books.node[p] = CNodeState
    BY Zenon, <1>3, <1>4
  <2> QED BY Zenon, <2>2, <2>3, <2>4, NewState DEF Exact
<1>6. Books \in GoodBooks
  <2>1. Books \in [node : [Peers -> NodeStates], inFlight : [Blocks -> Peers \cup {None}], queued : Int]
    BY Zenon, <1>3 DEF Books
  <2> QED BY Zenon, <1>5, <2>1 DEF GoodBooks
<1>7. Bounded(node)
  <2>1. 0 <= MAX_BLOCKS_IN_TRANSIT_PER_PEER
    BY SMTT(30), LimitAssumption
  <2> QED BY Zenon, <1>3, <2>1, NewState DEF Bounded
<1>8. PeersCounted
  <2>1. Started(node) = {} /\ PreferredPeers(node) = {}
    BY Zenon, <1>3, NewState DEF Started, PreferredPeers
  <2> QED BY Zenon, <2>1, FS_EmptySet DEF Init, PeersCounted
<1> QED BY Zenon, <1>1, <1>2, <1>6, <1>7, <1>8 DEF IInv

\* Messages are requests.
LEMMA Pushed ==
    ASSUME NetTypes, NEW p \in Peers, NEW rest \in Seq(Requests), NEW messages \in Seq(Requests),
           PushMessages(p, rest, messages)
    PROVE  requests' \in [Peers -> Seq(Requests)]
<1>1. rest \o messages \in Seq(Requests) /\ <<>> \in Seq(Requests)
  BY SMTT(30)
<1> QED BY Zenon, <1>1 DEF NetTypes, PushMessages

LEMMA GetHeadersType ==
    ASSUME NEW from \in Blocks, NEW stop \in Blocks \cup {None}
    PROVE  GetHeaders(from, stop) \in Requests /\ GetData(from) \in Requests
<1>1. 0 \in Nat
  BY SMTT(30)
<1> QED BY Zenon, <1>1 DEF GetHeaders, GetData, Requests

\* One lemma per action.
LEMMA InitializeNodeStep ==
    ASSUME IInv, NEW p \in Peers, InitializeNode(p)
    PROVE  IInv'
<1>1. NetTypes'
  BY Zenon DEF IInv, NetTypes, InitializeNode
<1>2. ChainTypes' /\ Bounded(node)' /\ PeersCounted'
  BY Zenon DEF IInv, ChainTypes, Bounded, PeersCounted, Started, PreferredPeers, InitializeNode, chain, books
<1>3. (Books \in GoodBooks)'
  <2>1. Books \in GoodBooks /\ Books.node = node /\ Exact(Books)
    BY Zenon, BooksNow
  <2>2. SetBooks(Books) /\ haveData \subseteq haveData'
    BY Zenon, BooksNow DEF InitializeNode, books, chain, SetBooks
  <2>3. \A q \in Peers : conn'[q] = "closed" => conn[q] = "closed"
    BY Zenon DEF IInv, NetTypes, InitializeNode
  <2>4. \A q \in Peers : conn'[q] = "closed" => Books.node[q] = CNodeState
    BY Zenon, <2>1, <2>3 DEF Exact
  <2> QED BY Zenon, <2>1, <2>2, <2>4, StaysGood
<1> QED BY Zenon, <1>1, <1>2, <1>3 DEF IInv

LEMMA VersionStep ==
    ASSUME IInv, NEW p \in Peers, Version(p)
    PROVE  IInv'
<1> DEFINE t == [node[p] EXCEPT !.fPreferredDownload = (p \in Preferred)]
           b == [Books EXCEPT !.node[p] = t]
<1>1. NetTypes' /\ ChainTypes'
  BY Zenon DEF IInv, NetTypes, ChainTypes, Version, chain
<1>2. node \in [Peers -> NodeStates] /\ node[p] \in NodeStates /\ Linked(node[p])
  BY Zenon, BooksNow
<1>3. node' = [node EXCEPT ![p] = t]
  BY Zenon, <1>2 DEF Version
<1>4. /\ t \in NodeStates
      /\ t.vBlocksInFlight = node[p].vBlocksInFlight /\ t.nBlocksInFlight = node[p].nBlocksInFlight
      /\ t.nBlocksInFlightValidHeaders = node[p].nBlocksInFlightValidHeaders
      /\ t.pindexLastCommonBlock = node[p].pindexLastCommonBlock
      /\ t.fSyncStarted = node[p].fSyncStarted /\ t.fPreferredDownload = (p \in Preferred)
  <2>1. (p \in Preferred) \in BOOLEAN
    BY SMTT(30)
  <2> QED BY Zenon, <1>2, <2>1 DEF NodeStates
<1> HIDE DEF t
<1>5. node'[p] = t /\ \A q \in Peers : q # p => node'[q] = node[q]
  BY Zenon, <1>2, <1>3
<1>6. SameInFlight(node[p], t) /\ Linked(t)
  BY Zenon, <1>2, <1>4 DEF SameInFlight, Linked
<1>7. conn[p] # "closed"
  BY SMTT(30) DEF Version
<1>8. b \in GoodBooks /\ b.node = [node EXCEPT ![p] = t] /\ b.inFlight = mapBlocksInFlight
      /\ b.queued = nQueuedValidatedHeaders
  BY Zenon, <1>4, <1>6, <1>7, ChangedNow
<1> HIDE DEF b
<1>9. (Books \in GoodBooks)'
  <2>1. SetBooks(b) /\ haveData \subseteq haveData'
    BY Zenon, <1>3, <1>8 DEF Version, SetBooks, chain
  <2>2. "open" # "closed"
    BY SMTT(30)
  <2>3. \A q \in Peers : conn'[q] = "closed" => conn[q] = "closed"
    BY Zenon, <2>2 DEF IInv, NetTypes, Version
  <2>4. \A q \in Peers : conn'[q] = "closed" => b.node[q] = CNodeState
    BY Zenon, <1>8, <2>3, GoodFields DEF Exact
  <2> QED BY Zenon, <1>8, <2>1, <2>4, StaysGood
<1>10. Bounded(node)'
  BY Zenon, <1>4, <1>5 DEF IInv, Bounded
<1>11. PeersCounted'
  <2>1. Started(node)' = Started(node)
    BY Zenon, <1>4, <1>5 DEF Started
  <2>2. nSyncStarted' = Cardinality(Started(node)')
    BY Zenon, <2>1 DEF IInv, PeersCounted, Version
  <2> DEFINE S == PreferredPeers(node)
             T == PreferredPeers(node)'
  <2>3. IsFiniteSet(S) /\ IsFiniteSet(T) /\ Cardinality(S) \in Nat /\ nPreferredDownload = Cardinality(S)
    BY Zenon, PeerSetFinite DEF IInv, PeersCounted, PreferredPeers
  <2>4. /\ p \in T <=> p \in Preferred
        /\ p \in S <=> node[p].fPreferredDownload
        /\ \A q \in Peers : q # p => (q \in T <=> q \in S)
    BY Zenon, <1>4, <1>5 DEF PreferredPeers
  <2>5. S \subseteq Peers /\ T \subseteq Peers
    BY Zenon DEF PreferredPeers
  <2>6. nPreferredDownload' = nPreferredDownload - (IF p \in S THEN 1 ELSE 0) + (IF p \in T THEN 1 ELSE 0)
    BY Zenon, <2>4 DEF Version, Bit
  <2> HIDE DEF S, T
  <2>7. nPreferredDownload' = Cardinality(T)
    <3>1. CASE p \in S /\ p \in T
      <4>1. S = T
        BY SMTT(30), <2>4, <2>5, <3>1
      <4> QED BY SMTT(30), <2>3, <2>6, <3>1, <4>1
    <3>2. CASE p \notin S /\ p \notin T
      <4>1. S = T
        BY SMTT(30), <2>4, <2>5, <3>2
      <4> QED BY SMTT(30), <2>3, <2>6, <3>2, <4>1
    <3>3. CASE p \in S /\ p \notin T
      <4>1. T = S \ {p}
        BY Zenon, <2>4, <2>5, <3>3
      <4>2. Cardinality(T) = Cardinality(S) - 1
        BY Zenon, <2>3, <3>3, <4>1, OneLess
      <4> QED BY SMTT(30), <2>3, <2>6, <3>3, <4>2
    <3>4. CASE p \notin S /\ p \in T
      <4>1. T = S \cup {p}
        BY Zenon, <2>4, <2>5, <3>4
      <4>2. Cardinality(T) = Cardinality(S) + 1
        BY Zenon, <2>3, <3>4, <4>1, OneMore
      <4> QED BY SMTT(30), <2>3, <2>6, <3>4, <4>2
    <3> QED BY Zenon, <3>1, <3>2, <3>3, <3>4
  <2> QED BY Zenon, <2>2, <2>7 DEF PeersCounted, T
<1> QED BY Zenon, <1>1, <1>9, <1>10, <1>11 DEF IInv

LEMMA HangupStep ==
    ASSUME IInv, NEW p \in Peers, Hangup(p)
    PROVE  IInv'
<1>1. NetTypes' /\ ChainTypes'
  BY Zenon DEF IInv, NetTypes, ChainTypes, Hangup, chain
<1> DEFINE t == [node[p] EXCEPT !.fDisconnect = TRUE]
<1>2. Kept(node[p], t)
  BY Zenon, BooksNow, DisconnectKept
<1>3. node' = [node EXCEPT ![p] = t] /\ UNCHANGED <<conn, haveData, books>> /\ conn[p] # "closed"
  BY Zenon, BooksNow DEF Hangup, chain
<1> HIDE DEF t
<1>4. (Books \in GoodBooks)' /\ Bounded(node)' /\ PeersCounted'
  BY Zenon, <1>2, <1>3, KeptStep
<1> QED BY Zenon, <1>1, <1>4 DEF IInv

LEMMA TailLonger ==
    ASSUME NEW S, NEW q \in Seq(S), Len(q) > 1
    PROVE  Tail(q) \in Seq(S) /\ Len(Tail(q)) # 0
<1> DEFINE n == Len(q)
<1>1. n \in Nat /\ n > 1
  BY SMTT(30)
<1> HIDE DEF n
<1>2. n # 0 /\ n - 1 # 0
  BY SMTT(30), <1>1
<1>3. Len(<<>>) = 0
  OBVIOUS
<1>4. q # <<>>
  BY Zenon, <1>2, <1>3 DEF n
<1>5. Tail(q) \in Seq(S) /\ Len(Tail(q)) = n - 1
  BY SMTT(30), <1>4 DEF n
<1> QED BY Zenon, <1>2, <1>5

LEMMA AdoptStep ==
    ASSUME IInv, NEW p \in Peers, Adopt(p)
    PROVE  IInv'
<1>1. NetTypes'
  <2>1. history[p] \in Seq(Blocks) /\ Len(history[p]) > 1
    BY Zenon DEF IInv, NetTypes, Adopt
  <2>2. Tail(history[p]) \in Seq(Blocks) \ {<<>>}
    <3>1. Tail(history[p]) \in Seq(Blocks) /\ Len(Tail(history[p])) # 0
      BY Zenon, <2>1, TailLonger
    <3>2. Len(<<>>) = 0
      BY SMTT(30)
    <3> QED BY Zenon, <3>1, <3>2
  <2> QED BY Zenon, <2>2 DEF IInv, NetTypes, Adopt
<1>2. ChainTypes' /\ Bounded(node)' /\ PeersCounted'
  BY Zenon DEF IInv, ChainTypes, Bounded, PeersCounted, Started, PreferredPeers, Adopt, chain, books
<1>3. (Books \in GoodBooks)'
  <2>1. Books \in GoodBooks /\ SetBooks(Books) /\ conn' = conn /\ haveData \subseteq haveData'
    BY Zenon, BooksNow DEF Adopt, books, chain, SetBooks
  <2> QED BY Zenon, <2>1, Stays
<1> QED BY Zenon, <1>1, <1>2, <1>3 DEF IInv

LEMMA FinalizeNodeStep ==
    ASSUME IInv, NEW p \in Peers, FinalizeNode(p)
    PROVE  IInv'
<1> DEFINE new == [node EXCEPT ![p] = CNodeState]
           map == [h \in Blocks |-> IF \E i \in DOMAIN node[p].vBlocksInFlight : node[p].vBlocksInFlight[i].hash = h
                                    THEN None ELSE mapBlocksInFlight[h]]
           b == [node |-> new, inFlight |-> map, queued |-> nQueuedValidatedHeaders]
<1>1. NetTypes' /\ ChainTypes'
  <2>1. <<>> \in Seq(Requests)
    BY SMTT(30)
  <2>2. NetTypes'
    BY Zenon, <2>1 DEF IInv, NetTypes, FinalizeNode
  <2>3. ChainTypes'
    BY Zenon DEF IInv, ChainTypes, FinalizeNode, chain
  <2> QED BY Zenon, <2>2, <2>3
<1>2. /\ node \in [Peers -> NodeStates] /\ mapBlocksInFlight \in [Blocks -> Peers \cup {None}]
      /\ nQueuedValidatedHeaders \in Int /\ Exact(Books)
      /\ Books.node = node /\ Books.inFlight = mapBlocksInFlight /\ Books.queued = nQueuedValidatedHeaders
  BY Zenon, BooksNow
<1>3. /\ node' = new /\ mapBlocksInFlight' = map /\ nQueuedValidatedHeaders' = nQueuedValidatedHeaders
      /\ conn' = [conn EXCEPT ![p] = "closed"] /\ haveData' = haveData /\ conn[p] # "closed"
      /\ nSyncStarted' = nSyncStarted - Bit(node[p].fSyncStarted)
      /\ nPreferredDownload' = nPreferredDownload - Bit(node[p].fPreferredDownload)
  BY Zenon DEF FinalizeNode, chain
<1>4. new \in [Peers -> NodeStates] /\ new[p] = CNodeState /\ \A q \in Peers : q # p => new[q] = node[q]
  BY Zenon, <1>2, NewState
<1>5. /\ map \in [Blocks -> Peers \cup {None}]
      /\ \A h \in Hashes(node[p].vBlocksInFlight) \cap Blocks : map[h] = None
      /\ \A h \in Blocks : h \notin Hashes(node[p].vBlocksInFlight) => map[h] = mapBlocksInFlight[h]
  <2>1. map \in [Blocks -> Peers \cup {None}]
    BY Zenon, <1>2
  <2>2. \A h \in Hashes(node[p].vBlocksInFlight) \cap Blocks : map[h] = None
    BY Zenon DEF Hashes
  <2>3. \A h \in Blocks : h \notin Hashes(node[p].vBlocksInFlight) => map[h] = mapBlocksInFlight[h]
    BY Zenon DEF Hashes
  <2> QED BY Zenon, <2>1, <2>2, <2>3
<1> HIDE DEF new, map
<1>6. b.node = new /\ b.inFlight = map /\ b.queued = nQueuedValidatedHeaders
      /\ b \in [node : [Peers -> NodeStates], inFlight : [Blocks -> Peers \cup {None}], queued : Int]
  BY Zenon, <1>2, <1>4, <1>5
<1> HIDE DEF b
<1>7. Exact(b)
  <2>1. \A q \in Peers : Counted(b.node[q]) /\ Linked(b.node[q])
    BY Zenon, <1>4, <1>6, BooksNow, NewState
  <2>2. ASSUME NEW q \in Peers, NEW h \in Blocks
        PROVE  b.inFlight[h] = q <=> h \in Hashes(b.node[q].vBlocksInFlight)
    <3>1. \A x \in Peers : mapBlocksInFlight[h] = x <=> h \in Hashes(node[x].vBlocksInFlight)
      BY Zenon, <1>2 DEF Exact
    <3>2. q # None
      BY Zenon, PeerAssumption
    <3>3. CASE q = p
      <4>1. h \notin Hashes(b.node[q].vBlocksInFlight)
        BY Zenon, <1>4, <1>6, <3>3, NewState
      <4>2. map[h] # p
        BY Zenon, <1>5, <3>1, <3>2, <3>3
      <4> QED BY Zenon, <1>6, <3>3, <4>1, <4>2
    <3>4. CASE q # p
      <4>1. b.node[q] = node[q]
        BY Zenon, <1>4, <1>6, <3>4
      <4>2. map[h] = q <=> mapBlocksInFlight[h] = q
        BY Zenon, <1>5, <3>1, <3>2, <3>4
      <4> QED BY Zenon, <1>6, <3>1, <4>1, <4>2
    <3> QED BY Zenon, <3>3, <3>4
  <2>3. b.queued >= Cardinality(Queued(b))
    <3>1. Queued(b) \subseteq Queued(Books)
      <4>1. \A q \in Peers : Validated(b.node[q].vBlocksInFlight) \subseteq Validated(node[q].vBlocksInFlight)
        BY Zenon, <1>4, <1>6, NewState
      <4> QED BY Zenon, <1>2, <4>1 DEF Queued
    <3>2. Cardinality(Queued(b)) <= Cardinality(Queued(Books)) /\ Cardinality(Queued(b)) \in Nat
          /\ Cardinality(Queued(Books)) \in Nat
      BY Zenon, <3>1, QueuedFinite, FS_Subset
    <3>3. nQueuedValidatedHeaders >= Cardinality(Queued(Books))
      BY Zenon, <1>2 DEF Exact
    <3> QED BY SMTT(30), <1>2, <1>6, <3>2, <3>3
  <2>4. \A q \in Peers : conn[q] = "closed" => b.node[q] = CNodeState
    BY Zenon, <1>2, <1>4, <1>6 DEF Exact
  <2> QED BY Zenon, <2>1, <2>2, <2>3, <2>4 DEF Exact
<1>8. (Books \in GoodBooks)'
  <2>1. b \in GoodBooks
    BY Zenon, <1>6, <1>7 DEF GoodBooks
  <2>2. SetBooks(b) /\ haveData \subseteq haveData'
    BY Zenon, <1>3, <1>6 DEF SetBooks
  <2>3. ASSUME NEW q \in Peers, conn'[q] = "closed"
        PROVE  b.node[q] = CNodeState
    <3>1. q = p \/ conn[q] = "closed"
      BY Zenon, <1>3, <2>3 DEF IInv, NetTypes
    <3> QED BY Zenon, <1>4, <1>6, <1>7, <3>1 DEF Exact
  <2> QED BY Zenon, <2>1, <2>2, <2>3, StaysGood
<1>9. Bounded(node)'
  <2>1. 0 <= MAX_BLOCKS_IN_TRANSIT_PER_PEER
    BY SMTT(30), LimitAssumption
  <2> QED BY Zenon, <1>3, <1>4, <2>1, NewState DEF IInv, Bounded
<1>10. PeersCounted'
  <2>1. nSyncStarted' = Cardinality(Started(node)')
    <3> DEFINE S == Started(node)
               T == Started(node)'
    <3>1. IsFiniteSet(S) /\ Cardinality(S) \in Nat /\ nSyncStarted = Cardinality(S)
      BY Zenon, PeerSetFinite DEF IInv, PeersCounted, Started
    <3>2. T = S \ {p} /\ (p \in S <=> node[p].fSyncStarted)
      BY Zenon, <1>3, <1>4, NewState DEF Started
    <3>3. nSyncStarted' = nSyncStarted - (IF p \in S THEN 1 ELSE 0)
      BY Zenon, <1>3, <3>2 DEF Bit
    <3> HIDE DEF S, T
    <3>4. CASE p \in S
      <4>1. Cardinality(S \ {p}) = Cardinality(S) - 1
        BY Zenon, <3>1, <3>4, OneLess
      <4> QED BY Zenon, <3>1, <3>2, <3>3, <3>4, <4>1 DEF T
    <3>5. CASE p \notin S
      <4>1. T = S
        BY Zenon, <3>2, <3>5
      <4>2. nSyncStarted' = nSyncStarted
        BY SMTT(30), <3>1, <3>3, <3>5
      <4> QED BY Zenon, <3>1, <4>1, <4>2 DEF T
    <3> QED BY Zenon, <3>4, <3>5
  <2>2. nPreferredDownload' = Cardinality(PreferredPeers(node)')
    <3> DEFINE S == PreferredPeers(node)
               T == PreferredPeers(node)'
    <3>1. IsFiniteSet(S) /\ Cardinality(S) \in Nat /\ nPreferredDownload = Cardinality(S)
      BY Zenon, PeerSetFinite DEF IInv, PeersCounted, PreferredPeers
    <3>2. T = S \ {p} /\ (p \in S <=> node[p].fPreferredDownload)
      BY Zenon, <1>3, <1>4, NewState DEF PreferredPeers
    <3>3. nPreferredDownload' = nPreferredDownload - (IF p \in S THEN 1 ELSE 0)
      BY Zenon, <1>3, <3>2 DEF Bit
    <3> HIDE DEF S, T
    <3>4. CASE p \in S
      <4>1. Cardinality(S \ {p}) = Cardinality(S) - 1
        BY Zenon, <3>1, <3>4, OneLess
      <4> QED BY Zenon, <3>1, <3>2, <3>3, <3>4, <4>1 DEF T
    <3>5. CASE p \notin S
      <4>1. T = S
        BY Zenon, <3>2, <3>5
      <4>2. nPreferredDownload' = nPreferredDownload
        BY SMTT(30), <3>1, <3>3, <3>5
      <4> QED BY Zenon, <3>1, <4>1, <4>2 DEF T
    <3> QED BY Zenon, <3>4, <3>5
  <2> QED BY Zenon, <2>1, <2>2 DEF PeersCounted
<1> QED BY Zenon, <1>1, <1>8, <1>9, <1>10 DEF IInv

\* Time does not pass for a connection that is closed.
LEMMA NewStateLater == Later(CNodeState) = CNodeState
<1> DEFINE s == CNodeState
           t == [s EXCEPT !.nStallingSince = None, !.vBlocksInFlight = <<>>]
<1>1. s.nStallingSince = None /\ s.vBlocksInFlight = <<>>
  BY Zenon DEF CNodeState
<1>2. [i \in DOMAIN s.vBlocksInFlight |-> Aged(s.vBlocksInFlight[i])] = <<>>
  <2>1. DOMAIN <<>> = {}
    BY SMTT(30)
  <2>2. [i \in {} |-> Aged(s.vBlocksInFlight[i])] = <<>>
    BY SMTT(30)
  <2> QED BY Zenon, <1>1, <2>1, <2>2
<1>3. Later(s) = t
  BY Zenon, <1>1, <1>2 DEF Later
<1>4. t = s
  BY Zenon, <1>1 DEF CNodeState
<1> QED BY Zenon, <1>3, <1>4

LEMMA TickStep ==
    ASSUME IInv, Tick
    PROVE  IInv'
<1> DEFINE new == [p \in Peers |-> Later(node[p])]
           b == [node |-> new, inFlight |-> mapBlocksInFlight, queued |-> nQueuedValidatedHeaders]
<1>1. NetTypes' /\ ChainTypes'
  <2>1. \A r \in Requests : [r EXCEPT !.age = @ + 1] \in Requests
    <3> SUFFICES ASSUME NEW r \in Requests PROVE [r EXCEPT !.age = r.age + 1] \in Requests
      BY Zenon
    <3>1. r.age + 1 \in Nat
      BY SMTT(30) DEF Requests
    <3> QED BY Zenon, <3>1 DEF Requests
  <2>2. ASSUME NEW q \in Seq(Requests)
        PROVE  [i \in DOMAIN q |-> [q[i] EXCEPT !.age = @ + 1]] \in Seq(Requests)
    <3> DEFINE older == [r \in Requests |-> [r EXCEPT !.age = @ + 1]]
    <3>1. older \in [Requests -> Requests]
      BY Zenon, <2>1
    <3>2. \A i \in DOMAIN q : q[i] \in Requests /\ [q[i] EXCEPT !.age = @ + 1] = older[q[i]]
      <4>1. \A i \in DOMAIN q : q[i] \in Requests
        BY SMTT(30)
      <4> QED BY Zenon, <4>1
    <3>3. [i \in DOMAIN q |-> [q[i] EXCEPT !.age = @ + 1]] = [i \in DOMAIN q |-> older[q[i]]]
      BY Zenon, <3>2
    <3> HIDE DEF older
    <3>4. [i \in DOMAIN q |-> older[q[i]]] \in Seq(Requests)
      BY SMTT(30), <3>1
    <3> QED BY Zenon, <3>3, <3>4
  <2>3. NetTypes'
    <3>1. \A p \in Peers : requests[p] \in Seq(Requests)
      BY Zenon DEF IInv, NetTypes
    <3>2. requests' \in [Peers -> Seq(Requests)]
      BY Zenon, <2>2, <3>1 DEF Tick
    <3> QED BY Zenon, <3>2 DEF IInv, NetTypes, Tick
  <2>4. ChainTypes'
    BY Zenon DEF IInv, ChainTypes, Tick, chain
  <2> QED BY Zenon, <2>3, <2>4
<1>2. /\ node \in [Peers -> NodeStates] /\ mapBlocksInFlight \in [Blocks -> Peers \cup {None}]
      /\ nQueuedValidatedHeaders \in Int /\ Exact(Books)
      /\ Books.node = node /\ Books.inFlight = mapBlocksInFlight /\ Books.queued = nQueuedValidatedHeaders
  BY Zenon, BooksNow
<1>3. node' = new /\ conn' = conn /\ haveData' = haveData
      /\ mapBlocksInFlight' = mapBlocksInFlight /\ nQueuedValidatedHeaders' = nQueuedValidatedHeaders
      /\ nSyncStarted' = nSyncStarted /\ nPreferredDownload' = nPreferredDownload
  BY Zenon DEF Tick, chain, books
<1>4. \A p \in Peers : new[p] = Later(node[p]) /\ Kept(node[p], new[p])
  BY Zenon, <1>2, LaterKept
<1>5. new \in [Peers -> NodeStates]
  BY Zenon, <1>2, LaterKept DEF Kept
<1> HIDE DEF new
<1>6. b.node = new /\ b.inFlight = mapBlocksInFlight /\ b.queued = nQueuedValidatedHeaders
      /\ b \in [node : [Peers -> NodeStates], inFlight : [Blocks -> Peers \cup {None}], queued : Int]
  BY Zenon, <1>2, <1>5
<1> HIDE DEF b
<1>7. ASSUME NEW p \in Peers
      PROVE  /\ Hashes(new[p].vBlocksInFlight) = Hashes(node[p].vBlocksInFlight)
             /\ Validated(new[p].vBlocksInFlight) = Validated(node[p].vBlocksInFlight)
             /\ Counted(new[p]) /\ Linked(new[p])
             /\ new[p].nBlocksInFlight = node[p].nBlocksInFlight
             /\ new[p].fSyncStarted = node[p].fSyncStarted
             /\ new[p].fPreferredDownload = node[p].fPreferredDownload
  <2> DEFINE s == node[p]
             t == new[p]
  <2>1. Kept(s, t) /\ Counted(s) /\ Linked(s)
    BY Zenon, <1>4, BooksNow
  <2> HIDE DEF s, t
  <2>2. SameInFlight(s, t) /\ Linked(t) /\ t.nBlocksInFlight = s.nBlocksInFlight
        /\ t.fSyncStarted = s.fSyncStarted /\ t.fPreferredDownload = s.fPreferredDownload
    BY Zenon, <2>1 DEF Kept, SameInFlight, Linked
  <2>3. /\ Hashes(t.vBlocksInFlight) = Hashes(s.vBlocksInFlight)
        /\ Validated(t.vBlocksInFlight) = Validated(s.vBlocksInFlight)
        /\ Counted(t)
    BY Zenon, <2>1, <2>2, SameLists
  <2> QED BY Zenon, <2>2, <2>3 DEF s, t
<1>8. Exact(b)
  <2>1. Queued(b) = Queued(Books)
    BY Zenon, <1>2, <1>6, <1>7 DEF Queued
  <2>2. ASSUME NEW p \in Peers, NEW h \in Blocks
        PROVE  b.inFlight[h] = p <=> h \in Hashes(b.node[p].vBlocksInFlight)
    <3>1. mapBlocksInFlight[h] = p <=> h \in Hashes(node[p].vBlocksInFlight)
      BY Zenon, <1>2 DEF Exact
    <3> QED BY Zenon, <1>6, <1>7, <3>1
  <2>3. \A p \in Peers : conn[p] = "closed" => b.node[p] = CNodeState
    BY Zenon, <1>2, <1>4, <1>6, NewStateLater DEF Exact
  <2>4. b.queued >= Cardinality(Queued(b))
    BY Zenon, <1>2, <1>6, <2>1 DEF Exact
  <2> QED BY Zenon, <1>6, <1>7, <2>2, <2>3, <2>4 DEF Exact
<1>9. (Books \in GoodBooks)'
  <2>1. b \in GoodBooks
    BY Zenon, <1>6, <1>8 DEF GoodBooks
  <2>2. SetBooks(b) /\ haveData \subseteq haveData'
    BY Zenon, <1>3, <1>6 DEF SetBooks
  <2> QED BY Zenon, <1>3, <2>1, <2>2, Stays
<1>10. Bounded(node)'
  BY Zenon, <1>3, <1>7 DEF IInv, Bounded
<1>11. PeersCounted'
  <2>1. nSyncStarted = Cardinality(Started(new)) /\ nPreferredDownload = Cardinality(PreferredPeers(new))
    BY Zenon, <1>7, FlagsStay DEF IInv
  <2> QED BY Zenon, <1>3, <2>1 DEF PeersCounted, Started, PreferredPeers
<1> QED BY Zenon, <1>1, <1>9, <1>10, <1>11 DEF IInv

-----------------------------------------------------------------------------
(* SendMessages.                                                           *)

\* The state of the peer before blocks are asked for: a ban disconnects it, and the
\* headers may be asked for the first time.
LEMMA BanKept ==
    ASSUME NEW s \in NodeStates, NEW start \in BOOLEAN
    PROVE  LET t == [s EXCEPT !.fDisconnect = @ \/ s.fShouldBan, !.fShouldBan = FALSE, !.fSyncStarted = @ \/ start]
           IN  /\ t \in NodeStates /\ SameInFlight(s, t)
               /\ t.pindexLastCommonBlock = s.pindexLastCommonBlock
               /\ t.fSyncStarted = (s.fSyncStarted \/ start)
               /\ t.fPreferredDownload = s.fPreferredDownload
<1> DEFINE d == s.fDisconnect \/ s.fShouldBan
           f == s.fSyncStarted \/ start
           t == [s EXCEPT !.fDisconnect = d, !.fShouldBan = FALSE, !.fSyncStarted = f]
<1>1. d \in BOOLEAN /\ f \in BOOLEAN
  BY Zenon
<1> HIDE DEF d, f
<1>2. t \in NodeStates
  BY Zenon, <1>1 DEF NodeStates
<1>3. /\ t.vBlocksInFlight = s.vBlocksInFlight /\ t.nBlocksInFlight = s.nBlocksInFlight
      /\ t.nBlocksInFlightValidHeaders = s.nBlocksInFlightValidHeaders
      /\ t.pindexLastCommonBlock = s.pindexLastCommonBlock
      /\ t.fSyncStarted = f /\ t.fPreferredDownload = s.fPreferredDownload
  BY Zenon DEF NodeStates
<1> HIDE DEF t
<1>4. SameInFlight(s, t)
  BY Zenon, <1>3 DEF SameInFlight
<1> QED BY Zenon, <1>2, <1>3, <1>4 DEF d, f, t

LEMMA StallKept ==
    ASSUME NEW s \in NodeStates
    PROVE  Kept(s, [s EXCEPT !.nStallingSince = 0])
<1> DEFINE t == [s EXCEPT !.nStallingSince = 0]
<1>1. t \in NodeStates
  <2>1. 0 \in Int
    BY SMTT(30)
  <2> QED BY Zenon, <2>1 DEF NodeStates
<1>2. /\ t.vBlocksInFlight = s.vBlocksInFlight /\ t.nBlocksInFlight = s.nBlocksInFlight
      /\ t.nBlocksInFlightValidHeaders = s.nBlocksInFlightValidHeaders
      /\ t.pindexLastCommonBlock = s.pindexLastCommonBlock
      /\ t.fSyncStarted = s.fSyncStarted /\ t.fPreferredDownload = s.fPreferredDownload
  BY Zenon DEF NodeStates
<1> HIDE DEF t
<1>3. Kept(s, t)
  BY Zenon, <1>1, <1>2 DEF Kept, SameInFlight
<1> QED BY Zenon, <1>3 DEF t

\* The books with one connected peer marked as stalling.
LEMMA Stalled ==
    ASSUME NEW b \in GoodBooks, NEW q, Connected(q)
    PROVE  /\ [b EXCEPT !.node[q].nStallingSince = 0] \in GoodBooks
           /\ Fewer(b, [b EXCEPT !.node[q].nStallingSince = 0])
<1> DEFINE t == [b.node[q] EXCEPT !.nStallingSince = 0]
           c == [b EXCEPT !.node[q] = t]
<1>1. q \in Peers /\ conn[q] # "closed"
  BY Zenon DEF Connected
<1>2. /\ b.node \in [Peers -> NodeStates] /\ b.node[q] \in NodeStates /\ Exact(b)
      /\ b = [node |-> b.node, inFlight |-> b.inFlight, queued |-> b.queued]
  BY Zenon, <1>1, GoodFields
<1>3. [b EXCEPT !.node[q].nStallingSince = 0] = c
  BY Zenon, <1>1, <1>2
<1>4. Kept(b.node[q], t)
  BY Zenon, <1>2, StallKept
<1> HIDE DEF t
<1>5. t \in NodeStates /\ SameInFlight(b.node[q], t) /\ Linked(t)
  BY Zenon, <1>1, <1>2, <1>4 DEF Kept, Linked, Exact
<1>6. c \in GoodBooks /\ c.node = [b.node EXCEPT ![q] = t]
  BY Zenon, <1>1, <1>5, Changed
<1> HIDE DEF c
<1>7. c.node[q] = t /\ \A p \in Peers : p # q => c.node[p] = b.node[p]
  BY Zenon, <1>1, <1>2, <1>6
<1>8. \A p \in Peers : /\ c.node[p].nBlocksInFlight = b.node[p].nBlocksInFlight
                       /\ c.node[p].fSyncStarted = b.node[p].fSyncStarted
                       /\ c.node[p].fPreferredDownload = b.node[p].fPreferredDownload
                       /\ b.node[p].nBlocksInFlight \in Int
  BY Zenon, <1>2, <1>4, <1>7, StateFields DEF Kept, SameInFlight
<1>9. \A i \in Int : i <= i
  BY SMTT(30)
<1>10. Fewer(b, c)
  BY Zenon, <1>8, <1>9 DEF Fewer
<1> QED BY Zenon, <1>3, <1>6, <1>10

\* What SendMessages leaves: good books, no more blocks in flight than a peer may
\* have, and one more peer the headers were asked of when they were.
LEMMA Sent ==
    ASSUME IInv, NEW p \in Peers, conn[p] = "open"
    PROVE  LET r == Sending(p)
           IN  /\ r.books \in GoodBooks
               /\ Bounded(r.books.node)
               /\ r.nSyncStarted = Cardinality(Started(r.books.node))
               /\ nPreferredDownload = Cardinality(PreferredPeers(r.books.node))
               /\ r.messages \in Seq(Requests)
<1> DEFINE fFetch == node[p].fPreferredDownload \/ (nPreferredDownload = 0 /\ p \notin Client)
           start == /\ ~node[p].fSyncStarted /\ p \notin Client
                    /\ (nSyncStarted = 0 /\ fFetch) \/ Height[pindexBestHeader] >= TodayHeight
           pindexStart == IF pindexBestHeader = Genesis THEN Genesis ELSE Parent[pindexBestHeader]
           ban == [node[p] EXCEPT !.fDisconnect = @ \/ node[p].fShouldBan, !.fShouldBan = FALSE,
                                  !.fSyncStarted = @ \/ start]
           s == CheckTimeouts(ban, nQueuedValidatedHeaders)
           fetch == /\ ~s.fDisconnect /\ p \notin Client /\ (fFetch \/ ~IsInitialBlockDownload)
                    /\ s.nBlocksInFlight < MAX_BLOCKS_IN_TRANSIT_PER_PEER
           count == MAX_BLOCKS_IN_TRANSIT_PER_PEER - s.nBlocksInFlight
           next == IF fetch THEN FindNextBlocksToDownload(s, p, count)
                   ELSE [state |-> s, vBlocks |-> <<>>, staller |-> None]
           asked == [Books EXCEPT !.node[p] = next.state]
           b == MarkBlocksAsInFlight(asked, p, next.vBlocks)
           stall == /\ b.node[p].nBlocksInFlight = 0 /\ next.staller # None
                    /\ b.node[next.staller].nStallingSince = None
           c == IF stall THEN [b EXCEPT !.node[next.staller].nStallingSince = 0] ELSE b
           messages == (IF start THEN <<GetHeaders(pindexStart, None)>> ELSE <<>>)
                       \o [i \in DOMAIN next.vBlocks |-> GetData(next.vBlocks[i])]
           k == Len(next.vBlocks)
<1>1. Sending(p) = [books |-> c, nSyncStarted |-> nSyncStarted + Bit(start), messages |-> messages]
  BY Zenon DEF Sending
<1>2. Sending(p).books = c /\ Sending(p).nSyncStarted = nSyncStarted + Bit(start) /\ Sending(p).messages = messages
  <2> HIDE DEF c, messages, start
  <2> QED BY SMTT(30), <1>1
<1>3. start \in BOOLEAN
  BY Zenon
<1>4. /\ node \in [Peers -> NodeStates] /\ node[p] \in NodeStates /\ Linked(node[p])
      /\ nQueuedValidatedHeaders \in Int /\ BlocksOnTheWay
      /\ node[p].nBlocksInFlight \in Int
      /\ node[p].nBlocksInFlight <= MAX_BLOCKS_IN_TRANSIT_PER_PEER
  BY Zenon, BooksNow, StateFields DEF IInv, Bounded
<1> HIDE DEF start, fFetch
<1>5. /\ ban \in NodeStates /\ SameInFlight(node[p], ban)
      /\ ban.pindexLastCommonBlock = node[p].pindexLastCommonBlock
      /\ ban.fSyncStarted = (node[p].fSyncStarted \/ start)
      /\ ban.fPreferredDownload = node[p].fPreferredDownload
  BY Zenon, <1>3, <1>4, BanKept
<1> HIDE DEF ban
<1>6. Kept(ban, s)
  BY Zenon, <1>4, <1>5, TimeoutsKept
<1> HIDE DEF s
<1>7. /\ s \in NodeStates /\ SameInFlight(node[p], s) /\ Linked(s)
      /\ s.fSyncStarted = (node[p].fSyncStarted \/ start)
      /\ s.fPreferredDownload = node[p].fPreferredDownload
      /\ s.nBlocksInFlight = node[p].nBlocksInFlight
  <2>1. SameInFlight(node[p], s)
    BY Zenon, <1>5, <1>6 DEF Kept, SameInFlight
  <2> QED BY Zenon, <1>4, <1>5, <1>6, <2>1 DEF Kept, SameInFlight, Linked
<1>8. /\ next.state \in NodeStates /\ SameInFlight(s, next.state) /\ Linked(next.state)
      /\ next.state.fSyncStarted = s.fSyncStarted
      /\ next.state.fPreferredDownload = s.fPreferredDownload
      /\ next.vBlocks \in Seq(Blocks) /\ k <= count
      /\ next.staller = None \/ Connected(next.staller)
  <2>1. CASE fetch
    <3>1. count \in Nat \ {0}
      BY SMTT(30), <1>4, <1>7, <2>1, LimitAssumption
    <3> HIDE DEF count
    <3>2. next = FindNextBlocksToDownload(s, p, count)
      BY Zenon, <2>1
    <3>3. mapBlockIndex \subseteq Blocks /\ tip \in Blocks /\ Ancestors[tip] \subseteq haveData
      BY Zenon DEF IInv, ChainTypes
    <3> HIDE DEF next
    <3> QED BY Zenon, <1>4, <1>7, <3>1, <3>2, <3>3, NextBlocks
  <2>2. CASE ~fetch
    <3>1. next.state = s /\ next.vBlocks = <<>> /\ next.staller = None
      BY Zenon, <2>2
    <3>2. <<>> \in Seq(Blocks) /\ Len(<<>>) = 0
      BY SMTT(30)
    <3>3. 0 <= count
      BY SMTT(30), <1>4, <1>7, LimitAssumption
    <3>4. SameInFlight(s, s)
      BY Zenon DEF SameInFlight
    <3> HIDE DEF next, count
    <3> QED BY Zenon, <1>7, <3>1, <3>2, <3>3, <3>4
  <2> QED BY Zenon, <2>1, <2>2
<1> HIDE DEF next
<1>9. SameInFlight(node[p], next.state) /\ next.state.nBlocksInFlight = node[p].nBlocksInFlight
      /\ next.state.fSyncStarted = (node[p].fSyncStarted \/ start)
      /\ next.state.fPreferredDownload = node[p].fPreferredDownload
  BY Zenon, <1>7, <1>8 DEF SameInFlight
<1>10. conn[p] # "closed"
  BY SMTT(30)
<1>11. asked \in GoodBooks /\ asked.node = [node EXCEPT ![p] = next.state]
  BY Zenon, <1>8, <1>9, <1>10, ChangedNow
<1> HIDE DEF asked
<1>12. b \in GoodBooks /\ Grown(asked, b, p, k)
  BY Zenon, <1>8, <1>10, <1>11, AllInFlight
<1> HIDE DEF b
<1>13. c \in GoodBooks /\ Fewer(b, c)
  <2>1. CASE stall
    BY Zenon, <1>8, <1>12, <2>1, Stalled
  <2>2. CASE ~stall
    <3>1. c = b
      BY Zenon, <2>2
    <3>2. \A q \in Peers : b.node[q].nBlocksInFlight \in Int
      BY Zenon, <1>12, GoodFields, StateFields
    <3>3. \A i \in Int : i <= i
      BY SMTT(30)
    <3> QED BY Zenon, <1>12, <3>1, <3>2, <3>3 DEF Fewer
  <2> QED BY Zenon, <2>1, <2>2
<1> HIDE DEF c
<1>14. asked.node[p] = next.state /\ \A q \in Peers : q # p => asked.node[q] = node[q]
  BY Zenon, <1>4, <1>11
<1>15. \A q \in Peers : /\ c.node[q].fSyncStarted = (node[q].fSyncStarted \/ (q = p /\ start))
                        /\ c.node[q].fPreferredDownload = node[q].fPreferredDownload
  <2> SUFFICES ASSUME NEW q \in Peers
               PROVE  /\ c.node[q].fSyncStarted = (node[q].fSyncStarted \/ (q = p /\ start))
                      /\ c.node[q].fPreferredDownload = node[q].fPreferredDownload
    BY Zenon
  <2>1. c.node[q].fSyncStarted = asked.node[q].fSyncStarted
        /\ c.node[q].fPreferredDownload = asked.node[q].fPreferredDownload
    BY Zenon, <1>12, <1>13 DEF Grown, Fewer
  <2>2. CASE q = p
    BY Zenon, <1>9, <1>14, <2>1, <2>2
  <2>3. CASE q # p
    <3>1. node[q].fSyncStarted \in BOOLEAN
      BY Zenon, <1>4, StateFields
    <3> QED BY Zenon, <1>14, <2>1, <2>3, <3>1
  <2> QED BY Zenon, <2>2, <2>3
<1>16. Bounded(c.node)
  <2> SUFFICES ASSUME NEW q \in Peers
               PROVE  c.node[q].nBlocksInFlight <= MAX_BLOCKS_IN_TRANSIT_PER_PEER
    BY Zenon DEF Bounded
  <2>1. /\ c.node[q].nBlocksInFlight <= b.node[q].nBlocksInFlight
        /\ b.node[q].nBlocksInFlight <= asked.node[q].nBlocksInFlight + (IF q = p THEN k ELSE 0)
        /\ c.node[q].nBlocksInFlight \in Int /\ b.node[q].nBlocksInFlight \in Int
        /\ asked.node[q].nBlocksInFlight \in Int
    BY Zenon, <1>11, <1>12, <1>13, GoodFields, StateFields DEF Grown, Fewer
  <2>2. k \in Nat
    BY SMTT(30), <1>8
  <2>3. node[q].nBlocksInFlight <= MAX_BLOCKS_IN_TRANSIT_PER_PEER /\ node[q].nBlocksInFlight \in Int
    BY Zenon, <1>4, StateFields DEF IInv, Bounded
  <2>4. CASE q = p
    <3>1. asked.node[q].nBlocksInFlight = node[p].nBlocksInFlight
      BY Zenon, <1>9, <1>14, <2>4
    <3>2. k <= count /\ s.nBlocksInFlight = node[p].nBlocksInFlight
      BY Zenon, <1>7, <1>8
    <3> HIDE DEF k
    <3> QED BY SMTT(30), <1>4, <2>1, <2>2, <2>4, <3>1, <3>2, LimitAssumption
  <2>5. CASE q # p
    <3>1. asked.node[q].nBlocksInFlight = node[q].nBlocksInFlight
      BY Zenon, <1>14, <2>5
    <3> QED BY SMTT(30), <2>1, <2>3, <2>5, <3>1, LimitAssumption
  <2> QED BY Zenon, <2>4, <2>5
<1>17. nPreferredDownload = Cardinality(PreferredPeers(c.node))
  <2>1. PreferredPeers(c.node) = PreferredPeers(node)
    BY Zenon, <1>15 DEF PreferredPeers
  <2> QED BY Zenon, <2>1 DEF IInv, PeersCounted
<1>18. nSyncStarted + Bit(start) = Cardinality(Started(c.node))
  <2> DEFINE S == Started(node)
             T == Started(c.node)
  <2>1. IsFiniteSet(S) /\ Cardinality(S) \in Nat /\ nSyncStarted = Cardinality(S)
    BY Zenon, PeerSetFinite DEF IInv, PeersCounted, Started
  <2>2. CASE start
    <3>1. p \notin S
      BY Zenon, <2>2 DEF start, Started
    <3>2. T = S \cup {p}
      BY Zenon, <1>15, <2>2 DEF Started
    <3> HIDE DEF S, T
    <3>3. Cardinality(T) = Cardinality(S) + 1
      BY Zenon, <2>1, <3>1, <3>2, OneMore
    <3> QED BY Zenon, <2>1, <2>2, <3>3 DEF Bit, T
  <2>3. CASE ~start
    <3>1. T = S
      BY Zenon, <1>15, <2>3 DEF Started
    <3>2. nSyncStarted + 0 = nSyncStarted
      BY SMTT(30), <2>1
    <3> QED BY Zenon, <2>1, <2>3, <3>1, <3>2 DEF Bit
  <2> QED BY Zenon, <2>2, <2>3
<1>19. messages \in Seq(Requests)
  <2> DEFINE first == IF start THEN <<GetHeaders(pindexStart, None)>> ELSE <<>>
             then == [i \in DOMAIN next.vBlocks |-> GetData(next.vBlocks[i])]
  <2>1. pindexStart \in Blocks
    BY Zenon, TreeAssumption DEF IInv, ChainTypes
  <2> HIDE DEF pindexStart
  <2>2. GetHeaders(pindexStart, None) \in Requests
    BY Zenon, <2>1, GetHeadersType
  <2>3. first \in Seq(Requests)
    BY SMTT(30), <2>2
  <2>4. then \in Seq(Requests)
    <3>1. \A h \in Blocks : GetData(h) \in Requests
      BY Zenon, GetHeadersType
    <3> QED BY SMTT(30), <1>8, <3>1
  <2> HIDE DEF first, then
  <2>5. first \o then \in Seq(Requests)
    BY SMTT(30), <2>3, <2>4
  <2> QED BY Zenon, <2>5 DEF first, then
<1> HIDE DEF messages
<1> QED BY Zenon, <1>2, <1>13, <1>16, <1>17, <1>18, <1>19

LEMMA SendMessagesStep ==
    ASSUME IInv, NEW p \in Peers, SendMessages(p)
    PROVE  IInv'
<1> DEFINE r == Sending(p)
<1>1. conn[p] = "open"
  BY Zenon DEF SendMessages
<1>2. /\ SetBooks(r.books) /\ nSyncStarted' = r.nSyncStarted /\ PushMessages(p, requests[p], r.messages)
      /\ UNCHANGED <<conn, history, connections, nPreferredDownload, chain>>
  BY Zenon DEF SendMessages
<1>3. /\ r.books \in GoodBooks /\ Bounded(r.books.node)
      /\ r.nSyncStarted = Cardinality(Started(r.books.node))
      /\ nPreferredDownload = Cardinality(PreferredPeers(r.books.node))
      /\ r.messages \in Seq(Requests)
  BY Zenon, <1>1, Sent
<1> HIDE DEF r
<1>4. NetTypes' /\ ChainTypes'
  <2>1. NetTypes /\ requests[p] \in Seq(Requests)
    BY Zenon DEF IInv, NetTypes
  <2>2. requests' \in [Peers -> Seq(Requests)]
    BY Zenon, <1>2, <1>3, <2>1, Pushed
  <2> QED BY Zenon, <1>2, <2>1, <2>2 DEF IInv, NetTypes, ChainTypes, chain
<1>5. (Books \in GoodBooks)' /\ node' = r.books.node
  <2>1. conn' = conn /\ haveData \subseteq haveData'
    BY Zenon, <1>2 DEF chain
  <2> QED BY Zenon, <1>2, <1>3, <2>1, Stays
<1>6. Bounded(node)' /\ PeersCounted'
  BY Zenon, <1>2, <1>3, <1>5 DEF Bounded, PeersCounted, Started, PreferredPeers
<1> QED BY Zenon, <1>4, <1>5, <1>6 DEF IInv

-----------------------------------------------------------------------------
(* ProcessMessage.                                                         *)

LEMMA PeerTipType ==
    ASSUME NetTypes, NEW p \in Peers
    PROVE  PeerTip(p) \in Blocks
<1>1. history[p] \in Seq(Blocks) /\ history[p] # <<>>
  BY Zenon DEF NetTypes
<1>2. Head(history[p]) \in Blocks
  BY SMTT(30), <1>1
<1> QED BY Zenon, <1>2 DEF PeerTip

\* A peer whose messages are processed is connected.
LEMMA RunningOpen ==
    ASSUME NEW p, Running(p)
    PROVE  conn[p] # "closed"
BY SMTT(30) DEF Running

\* New books in which no peer has more in flight than it may, with the flags as
\* they were.
LEMMA BooksStep ==
    ASSUME IInv, NEW b \in GoodBooks, SetBooks(b), Bounded(b.node), haveData \subseteq haveData',
           UNCHANGED <<conn, nPreferredDownload, nSyncStarted>>,
           \A q \in Peers : /\ b.node[q].fSyncStarted = node[q].fSyncStarted
                            /\ b.node[q].fPreferredDownload = node[q].fPreferredDownload
    PROVE  (Books \in GoodBooks)' /\ Bounded(node)' /\ PeersCounted'
<1>1. (Books \in GoodBooks)' /\ node' = b.node
  BY Zenon, Stays
<1>2. nSyncStarted = Cardinality(Started(b.node)) /\ nPreferredDownload = Cardinality(PreferredPeers(b.node))
  BY Zenon, FlagsStay DEF IInv
<1>3. Bounded(node)' /\ PeersCounted'
  BY Zenon, <1>1, <1>2 DEF Bounded, PeersCounted, Started, PreferredPeers
<1> QED BY Zenon, <1>1, <1>3

LEMMA AnnounceStep ==
    ASSUME IInv, NEW p \in Peers, Announce(p)
    PROVE  IInv'
<1> DEFINE hash == PeerTip(p)
           s == UpdateBlockAvailability(node[p], hash, mapBlockIndex)
           ask == hash \notin mapBlockIndex /\ mapBlocksInFlight[hash] = None
           direct == /\ ask /\ Height[tip] >= RecentHeight
                     /\ s.nBlocksInFlight < MAX_BLOCKS_IN_TRANSIT_PER_PEER
           b == [Books EXCEPT !.node[p] = s]
           c == IF direct THEN MarkBlockAsInFlight(b, p, hash, FALSE) ELSE b
           messages == (IF ask THEN <<GetHeaders(pindexBestHeader, hash)>> ELSE <<>>)
                       \o (IF direct THEN <<GetData(hash)>> ELSE <<>>)
<1>1. /\ Running(p) /\ SetBooks(c) /\ PushMessages(p, requests[p], messages)
      /\ UNCHANGED <<conn, history, connections, nPreferredDownload, nSyncStarted, chain>>
  BY Zenon DEF Announce, ProcessInv
<1>2. /\ hash \in Blocks /\ mapBlockIndex \in SUBSET Blocks /\ pindexBestHeader \in Blocks
      /\ NetTypes /\ requests[p] \in Seq(Requests)
  BY Zenon, PeerTipType DEF IInv, ChainTypes, NetTypes
<1> HIDE DEF hash
<1>3. /\ node \in [Peers -> NodeStates] /\ node[p] \in NodeStates /\ Linked(node[p])
      /\ node[p].nBlocksInFlight \in Int
  BY Zenon, BooksNow, StateFields
<1>4. Kept(node[p], s)
  BY Zenon, <1>2, <1>3, UpdateKept
<1> HIDE DEF s
<1>5. /\ s \in NodeStates /\ SameInFlight(node[p], s) /\ Linked(s)
      /\ s.nBlocksInFlight = node[p].nBlocksInFlight
      /\ s.fSyncStarted = node[p].fSyncStarted /\ s.fPreferredDownload = node[p].fPreferredDownload
  BY Zenon, <1>3, <1>4 DEF Kept, Linked, SameInFlight
<1>6. conn[p] # "closed"
  BY Zenon, <1>1, RunningOpen
<1>7. b \in GoodBooks /\ b.node = [node EXCEPT ![p] = s]
  BY Zenon, <1>5, <1>6, ChangedNow
<1> HIDE DEF b
<1>8. b.node[p] = s /\ \A q \in Peers : q # p => b.node[q] = node[q]
  BY Zenon, <1>3, <1>7
<1>9. \A q \in Peers : /\ b.node[q].nBlocksInFlight = node[q].nBlocksInFlight
                       /\ b.node[q].fSyncStarted = node[q].fSyncStarted
                       /\ b.node[q].fPreferredDownload = node[q].fPreferredDownload
  BY Zenon, <1>5, <1>8
<1>10. \A q \in Peers : node[q].nBlocksInFlight <= MAX_BLOCKS_IN_TRANSIT_PER_PEER /\ node[q].nBlocksInFlight \in Int
  BY Zenon, <1>3, StateFields DEF IInv, Bounded
<1>11. /\ c \in GoodBooks /\ Bounded(c.node)
       /\ \A q \in Peers : /\ c.node[q].fSyncStarted = node[q].fSyncStarted
                           /\ c.node[q].fPreferredDownload = node[q].fPreferredDownload
  <2>1. CASE direct
    <3>1. c = MarkBlockAsInFlight(b, p, hash, FALSE)
      BY Zenon, <2>1
    <3> HIDE DEF c
    <3>2. c \in GoodBooks /\ Grown(b, c, p, 1)
      BY Zenon, <1>2, <1>6, <1>7, <3>1, InFlight
    <3>3. ASSUME NEW q \in Peers
          PROVE  c.node[q].nBlocksInFlight <= MAX_BLOCKS_IN_TRANSIT_PER_PEER
      <4>1. /\ c.node[q].nBlocksInFlight <= b.node[q].nBlocksInFlight + (IF q = p THEN 1 ELSE 0)
            /\ c.node[q].nBlocksInFlight \in Int
        BY Zenon, <3>2, GoodFields, StateFields DEF Grown
      <4>2. q = p => node[q].nBlocksInFlight < MAX_BLOCKS_IN_TRANSIT_PER_PEER
        BY Zenon, <1>5, <2>1
      <4>3. b.node[q].nBlocksInFlight = node[q].nBlocksInFlight
        BY Zenon, <1>9
      <4> QED BY SMTT(30), <1>10, <4>1, <4>2, <4>3, LimitAssumption
    <3> QED BY Zenon, <1>9, <3>2, <3>3 DEF Grown, Bounded
  <2>2. CASE ~direct
    <3>1. c = b
      BY Zenon, <2>2
    <3> QED BY Zenon, <1>7, <1>9, <1>10, <3>1 DEF Bounded
  <2> QED BY Zenon, <2>1, <2>2
<1> HIDE DEF c
<1>12. (Books \in GoodBooks)' /\ Bounded(node)' /\ PeersCounted'
  <2>1. UNCHANGED <<conn, nPreferredDownload, nSyncStarted>> /\ haveData \subseteq haveData'
    BY Zenon, <1>1 DEF chain
  <2> QED BY Zenon, <1>1, <1>11, <2>1, BooksStep
<1>13. messages \in Seq(Requests)
  <2> DEFINE first == IF ask THEN <<GetHeaders(pindexBestHeader, hash)>> ELSE <<>>
             then == IF direct THEN <<GetData(hash)>> ELSE <<>>
  <2>1. GetHeaders(pindexBestHeader, hash) \in Requests /\ GetData(hash) \in Requests
    BY Zenon, <1>2, GetHeadersType
  <2>2. first \in Seq(Requests)
    BY SMTT(30), <2>1
  <2>3. then \in Seq(Requests)
    BY SMTT(30), <2>1
  <2> HIDE DEF first, then
  <2>4. first \o then \in Seq(Requests)
    BY SMTT(30), <2>2, <2>3
  <2> QED BY Zenon, <2>4 DEF first, then
<1> HIDE DEF messages
<1>14. NetTypes' /\ ChainTypes'
  <2>1. requests' \in [Peers -> Seq(Requests)]
    BY Zenon, <1>1, <1>2, <1>13, Pushed
  <2> QED BY Zenon, <1>1, <2>1 DEF IInv, NetTypes, ChainTypes, chain
<1> QED BY Zenon, <1>12, <1>14 DEF IInv

LEMMA HeadersType ==
    ASSUME ChainTypes
    PROVE  Headers \in GoodHeaders
<1>1. 0 \in Nat
  BY SMTT(30)
<1> QED BY Zenon, <1>1 DEF ChainTypes, Headers, GoodHeaders

LEMMA ProcessHeadersStep ==
    ASSUME IInv, NEW p \in Peers, conn[p] # "closed", NEW headers \in Seq(Blocks), NEW rest \in Seq(Requests),
           ProcessHeaders(p, headers, rest)
    PROVE  IInv'
<1> DEFINE h == AcceptBlockHeaders(Headers, headers)
           more == h.ok /\ Len(headers) = MAX_HEADERS_RESULTS
           known == h.ok /\ h.last # None
           t == IF known THEN UpdateBlockAvailability(node[p], h.last, h.index) ELSE Misbehaving(node[p], h.dos)
           messages == IF more THEN <<GetHeaders(h.last, None)>> ELSE <<>>
<1>1. /\ node \in [Peers -> NodeStates] /\ node[p] \in NodeStates
      /\ NetTypes /\ ChainTypes
  BY Zenon, BooksNow DEF IInv
<1>2. /\ mapBlockIndex' = h.index /\ pindexBestHeader' = h.best
      /\ node' = [node EXCEPT ![p] = t]
      /\ PushMessages(p, rest, messages)
      /\ UNCHANGED <<conn, history, connections, books, haveData, failed, tip>>
  BY Zenon, <1>1 DEF ProcessHeaders
<1>3. h \in GoodHeaders /\ (Len(headers) > 0 /\ h.ok => h.last \in Blocks)
  BY Zenon, <1>1, HeadersType, AllAccepted
<1> HIDE DEF h
<1>4. /\ h.dos \in Nat /\ h.last \in Blocks \cup {None} /\ h.index \in SUBSET Blocks /\ h.best \in Blocks
  BY Zenon, <1>3 DEF GoodHeaders
<1>5. Kept(node[p], t)
  <2>1. CASE known
    BY Zenon, <1>1, <1>4, <2>1, UpdateKept
  <2>2. CASE ~known
    BY Zenon, <1>1, <1>4, <2>2, MisbehavingKept
  <2> QED BY Zenon, <2>1, <2>2
<1> HIDE DEF t
<1>6. (Books \in GoodBooks)' /\ Bounded(node)' /\ PeersCounted'
  <2>1. UNCHANGED <<conn, haveData, books>>
    BY Zenon, <1>2
  <2> QED BY Zenon, <1>2, <1>5, <2>1, KeptStep
<1>7. messages \in Seq(Requests)
  <2>1. CASE more
    <3>1. Len(headers) > 0
      BY SMTT(30), <2>1, LimitAssumption
    <3>2. GetHeaders(h.last, None) \in Requests
      BY Zenon, <1>3, <2>1, <3>1, GetHeadersType
    <3>3. <<GetHeaders(h.last, None)>> \in Seq(Requests)
      BY SMTT(30), <3>2
    <3> QED BY Zenon, <2>1, <3>3
  <2>2. CASE ~more
    <3>1. <<>> \in Seq(Requests)
      BY SMTT(30)
    <3> QED BY Zenon, <2>2, <3>1
  <2> QED BY Zenon, <2>1, <2>2
<1> HIDE DEF messages
<1>8. NetTypes' /\ ChainTypes'
  <2>1. requests' \in [Peers -> Seq(Requests)]
    BY Zenon, <1>1, <1>2, <1>7, Pushed
  <2> QED BY Zenon, <1>1, <1>2, <1>4, <2>1 DEF NetTypes, ChainTypes
<1> QED BY Zenon, <1>6, <1>8 DEF IInv

\* ActivateBestChain leaves a tip whose chain is stored.
LEMMA BestChain ==
    ASSUME ChainTypes, NEW have \in SUBSET Blocks, haveData \subseteq have, NEW bad,
           NEW new \in ActivateBestChain(have, bad)
    PROVE  new \in Blocks /\ Ancestors[new] \subseteq have
<1> DEFINE better == {b \in have : /\ Height[b] > Height[tip] /\ Ancestors[b] \subseteq have
                                  /\ Ancestors[b] \cap bad = {}}
<1>1. new \in IF better = {} THEN {tip} ELSE {b \in better : \A c \in better : Height[c] <= Height[b]}
  BY Zenon DEF ActivateBestChain
<1>2. tip \in Blocks /\ Ancestors[tip] \subseteq have
  BY Zenon DEF ChainTypes
<1>3. \A b \in better : b \in Blocks /\ Ancestors[b] \subseteq have
  BY Zenon
<1> HIDE DEF better
<1> QED BY Zenon, <1>1, <1>2, <1>3

LEMMA ProcessBlockStep ==
    ASSUME IInv, NEW p \in Peers, conn[p] # "closed", NEW b \in Blocks, NEW rest \in Seq(Requests),
           ProcessBlock(p, b, rest)
    PROVE  IInv'
<1> DEFINE accepted == AcceptBlock(b, mapBlocksInFlight[b] # None)
           dos == IF accepted.failed = {} THEN accepted.header.dos ELSE 10
           received == MarkBlockAsReceived(Books, b)
           t == Misbehaving(received.node[p], dos)
           c == [received EXCEPT !.node[p] = t]
<1>1. Books \in GoodBooks /\ Books.node = node /\ NetTypes /\ ChainTypes
      /\ node \in [Peers -> NodeStates]
  BY Zenon, BooksNow DEF IInv
<1>2. received \in GoodBooks /\ Fewer(Books, received)
  BY Zenon, <1>1, Received
<1>3. /\ SetBooks([received EXCEPT !.node[p] = Misbehaving(@, dos)])
      /\ mapBlockIndex' = accepted.header.index /\ pindexBestHeader' = accepted.header.best
      /\ haveData' = haveData \cup accepted.haveData
      /\ tip' \in ActivateBestChain(haveData', failed')
      /\ PushMessages(p, rest, <<>>)
      /\ UNCHANGED <<conn, history, connections, nPreferredDownload, nSyncStarted>>
  BY Zenon DEF ProcessBlock
<1>4. accepted.header \in GoodHeaders /\ accepted.haveData \subseteq Blocks
  <2> DEFINE h == AcceptBlockHeader(Headers, b)
             process == /\ h.ok /\ b \notin haveData
                        /\ \/ mapBlocksInFlight[b] # None
                           \/ Height[b] > Height[tip] /\ Height[b] <= Height[tip] + MIN_BLOCKS_TO_KEEP
  <2>1. accepted.header = h /\ accepted.haveData = IF process THEN {b} \ BadBlocks ELSE {}
    BY Zenon DEF AcceptBlock
  <2>2. h \in GoodHeaders
    BY Zenon, <1>1, HeadersType, Accepted
  <2> HIDE DEF h, process
  <2> QED BY Zenon, <2>1, <2>2
<1> HIDE DEF accepted
<1>5. /\ accepted.header.dos \in Nat /\ accepted.header.index \subseteq Blocks /\ accepted.header.best \in Blocks
  BY Zenon, <1>4 DEF GoodHeaders
<1>6. dos \in Nat
  BY SMTT(30), <1>5
<1> HIDE DEF dos, received
<1>7. /\ received.node \in [Peers -> NodeStates] /\ received.node[p] \in NodeStates
      /\ received = [node |-> received.node, inFlight |-> received.inFlight, queued |-> received.queued]
      /\ Exact(received)
  BY Zenon, <1>2, GoodFields
<1>8. [received EXCEPT !.node[p] = Misbehaving(@, dos)] = c
  BY Zenon, <1>7
<1>9. Kept(received.node[p], t)
  BY Zenon, <1>6, <1>7, MisbehavingKept
<1> HIDE DEF t
<1>10. /\ t \in NodeStates /\ SameInFlight(received.node[p], t) /\ Linked(t)
       /\ t.nBlocksInFlight = received.node[p].nBlocksInFlight
       /\ t.fSyncStarted = received.node[p].fSyncStarted
       /\ t.fPreferredDownload = received.node[p].fPreferredDownload
  BY Zenon, <1>7, <1>9 DEF Kept, Linked, Exact, SameInFlight
<1>11. c \in GoodBooks /\ c.node = [received.node EXCEPT ![p] = t]
  BY Zenon, <1>2, <1>10, Changed
<1>12. SetBooks(c)
  BY Zenon, <1>3, <1>8
<1> HIDE DEF c
<1>13. ASSUME NEW q \in Peers
       PROVE  /\ c.node[q].nBlocksInFlight <= MAX_BLOCKS_IN_TRANSIT_PER_PEER
              /\ c.node[q].fSyncStarted = node[q].fSyncStarted
              /\ c.node[q].fPreferredDownload = node[q].fPreferredDownload
  <2>1. c.node[p] = t /\ (q # p => c.node[q] = received.node[q])
    BY Zenon, <1>7, <1>11
  <2>2. /\ c.node[q].nBlocksInFlight = received.node[q].nBlocksInFlight
        /\ c.node[q].fSyncStarted = received.node[q].fSyncStarted
        /\ c.node[q].fPreferredDownload = received.node[q].fPreferredDownload
    BY Zenon, <1>10, <2>1
  <2>3. /\ received.node[q].nBlocksInFlight <= node[q].nBlocksInFlight
        /\ received.node[q].fSyncStarted = node[q].fSyncStarted
        /\ received.node[q].fPreferredDownload = node[q].fPreferredDownload
    BY Zenon, <1>1, <1>2 DEF Fewer
  <2>4. /\ node[q].nBlocksInFlight <= MAX_BLOCKS_IN_TRANSIT_PER_PEER /\ node[q].nBlocksInFlight \in Int
        /\ received.node[q].nBlocksInFlight \in Int
    BY Zenon, <1>1, <1>7, StateFields DEF IInv, Bounded
  <2>5. received.node[q].nBlocksInFlight <= MAX_BLOCKS_IN_TRANSIT_PER_PEER
    BY SMTT(30), <2>3, <2>4, LimitAssumption
  <2> QED BY Zenon, <2>2, <2>3, <2>5
<1>14. (Books \in GoodBooks)' /\ Bounded(node)' /\ PeersCounted'
  <2>1. UNCHANGED <<conn, nPreferredDownload, nSyncStarted>> /\ haveData \subseteq haveData'
    BY Zenon, <1>3
  <2>2. Bounded(c.node)
    BY Zenon, <1>13 DEF Bounded
  <2> QED BY Zenon, <1>11, <1>12, <1>13, <2>1, <2>2, BooksStep
<1>15. NetTypes'
  <2>1. <<>> \in Seq(Requests)
    BY SMTT(30)
  <2>2. requests' \in [Peers -> Seq(Requests)]
    BY Zenon, <1>1, <1>3, <2>1, Pushed
  <2> QED BY Zenon, <1>1, <1>3, <2>2 DEF NetTypes
<1>16. ChainTypes'
  <2>1. haveData' \in SUBSET Blocks /\ haveData \subseteq haveData'
    BY Zenon, <1>1, <1>3, <1>4 DEF ChainTypes
  <2>2. tip' \in Blocks /\ Ancestors[tip'] \subseteq haveData'
    BY Zenon, <1>1, <1>3, <2>1, BestChain
  <2> QED BY Zenon, <1>3, <1>5, <2>1, <2>2 DEF ChainTypes
<1> QED BY Zenon, <1>14, <1>15, <1>16 DEF IInv

LEMMA AnswerStep ==
    ASSUME IInv, NEW p \in Peers, Answer(p)
    PROVE  IInv'
<1> DEFINE request == Head(requests[p])
           rest == Tail(requests[p])
<1>1. requests[p] \in Seq(Requests) /\ requests[p] # <<>> /\ Running(p) /\ PeerTip(p) \in Blocks
  BY Zenon, PeerTipType DEF Answer, IInv, NetTypes
<1>2. request \in Requests /\ rest \in Seq(Requests)
  BY SMTT(30), <1>1
<1>3. \/ ProcessHeaders(p, HeadersAfter(p, request), rest)
      \/ ProcessBlock(p, request.from, rest)
  BY Zenon DEF Answer
<1> HIDE DEF request, rest
<1>4. request.from \in Blocks /\ conn[p] # "closed"
  BY Zenon, <1>1, <1>2, RunningOpen DEF Requests
<1>5. HeadersAfter(p, request) \in Seq(Blocks)
  BY Zenon, <1>1, <1>4, AnswerHeaders
<1> QED BY Zenon, <1>2, <1>3, <1>4, <1>5, ProcessHeadersStep, ProcessBlockStep

LEMMA SendHeadersStep ==
    ASSUME IInv, NEW p \in Peers, SendHeaders(p)
    PROVE  IInv'
<1>1. Running(p) /\ PeerTip(p) \in Blocks
  BY Zenon, PeerTipType DEF SendHeaders, IInv
<1>2. PICK b \in Ancestors[PeerTip(p)] : ProcessHeaders(p, HeadersAfter(p, GetHeaders(b, None)), <<>>)
  BY Zenon DEF SendHeaders
<1>3. b \in Blocks
  BY Zenon, <1>1, TreeAssumption
<1> DEFINE request == GetHeaders(b, None)
<1>4. request.from \in Blocks
  BY Zenon, <1>3 DEF GetHeaders
<1> HIDE DEF request
<1>5. HeadersAfter(p, request) \in Seq(Blocks)
  BY Zenon, <1>1, <1>4, AnswerHeaders
<1>6. conn[p] # "closed" /\ ProcessHeaders(p, HeadersAfter(p, request), <<>>)
  BY Zenon, <1>1, <1>2, RunningOpen DEF request
<1>7. <<>> \in Seq(Requests)
  BY SMTT(30)
<1> QED BY Zenon, <1>5, <1>6, <1>7, ProcessHeadersStep

LEMMA SendBlockStep ==
    ASSUME IInv, NEW p \in Peers, SendBlock(p)
    PROVE  IInv'
<1>1. Running(p) /\ PeerTip(p) \in Blocks
  BY Zenon, PeerTipType DEF SendBlock, IInv
<1>2. PICK b \in Ancestors[PeerTip(p)] \ {Genesis} : ProcessBlock(p, b, <<>>)
  BY Zenon DEF SendBlock
<1>3. b \in Blocks /\ conn[p] # "closed"
  BY Zenon, <1>1, TreeAssumption, RunningOpen
<1>4. <<>> \in Seq(Requests)
  BY SMTT(30)
<1> QED BY Zenon, <1>2, <1>3, <1>4, ProcessBlockStep

LEMMA NextIInv == IInv /\ [Next]_vars => IInv'
<1> SUFFICES ASSUME IInv, [Next]_vars
             PROVE  IInv'
  BY Zenon
<1>1. CASE Tick
  BY Zenon, <1>1, TickStep
<1>2. ASSUME NEW p \in Peers, InitializeNode(p)
      PROVE  IInv'
  BY Zenon, <1>2, InitializeNodeStep
<1>3. ASSUME NEW p \in Peers, Version(p)
      PROVE  IInv'
  BY Zenon, <1>3, VersionStep
<1>4. ASSUME NEW p \in Peers, Hangup(p)
      PROVE  IInv'
  BY Zenon, <1>4, HangupStep
<1>5. ASSUME NEW p \in Peers, FinalizeNode(p)
      PROVE  IInv'
  BY Zenon, <1>5, FinalizeNodeStep
<1>6. ASSUME NEW p \in Peers, SendMessages(p)
      PROVE  IInv'
  BY Zenon, <1>6, SendMessagesStep
<1>7. ASSUME NEW p \in Peers, Answer(p)
      PROVE  IInv'
  BY Zenon, <1>7, AnswerStep
<1>8. ASSUME NEW p \in Peers, SendHeaders(p)
      PROVE  IInv'
  BY Zenon, <1>8, SendHeadersStep
<1>9. ASSUME NEW p \in Peers, SendBlock(p)
      PROVE  IInv'
  BY Zenon, <1>9, SendBlockStep
<1>10. ASSUME NEW p \in Peers, Announce(p)
       PROVE  IInv'
  BY Zenon, <1>10, AnnounceStep
<1>11. ASSUME NEW p \in Peers, Adopt(p)
       PROVE  IInv'
  BY Zenon, <1>11, AdoptStep
<1>12. CASE UNCHANGED vars
  <2>1. /\ conn' = conn /\ node' = node /\ requests' = requests /\ history' = history
        /\ mapBlocksInFlight' = mapBlocksInFlight /\ nQueuedValidatedHeaders' = nQueuedValidatedHeaders
        /\ nPreferredDownload' = nPreferredDownload /\ nSyncStarted' = nSyncStarted
        /\ mapBlockIndex' = mapBlockIndex /\ haveData' = haveData /\ tip' = tip
        /\ pindexBestHeader' = pindexBestHeader
    BY Zenon, <1>12 DEF vars, net, books, chain
  <2>2. NetTypes' /\ ChainTypes' /\ Bounded(node)' /\ PeersCounted'
    BY Zenon, <2>1 DEF IInv, NetTypes, ChainTypes, Bounded, PeersCounted, Started, PreferredPeers
  <2>3. (Books \in GoodBooks)'
    <3>1. Books \in GoodBooks /\ SetBooks(Books) /\ haveData \subseteq haveData'
      BY Zenon, <2>1, BooksNow DEF SetBooks
    <3> QED BY Zenon, <2>1, <3>1, Stays
  <2> QED BY Zenon, <2>2, <2>3 DEF IInv
<1> QED BY Zenon, <1>1, <1>2, <1>3, <1>4, <1>5, <1>6, <1>7, <1>8, <1>9, <1>10, <1>11, <1>12 DEF Next

-----------------------------------------------------------------------------
(* The theorems.                                                           *)

\* A list without repetition has as many blocks as entries.
LEMMA DistinctLength ==
    ASSUME NEW list \in Seq(Entries), Distinct(list)
    PROVE  Len(list) = Cardinality(Hashes(list))
<1> DEFINE n == Len(list)
           f == [i \in 1..n |-> list[i].hash]
<1>1. n \in Nat /\ DOMAIN list = 1..n
  BY SMTT(30)
<1>2. Hashes(list) = {f[i] : i \in 1..n}
  BY Zenon, <1>1 DEF Hashes
<1>3. f \in Bijection(1..n, Hashes(list))
  <2> DEFINE D == 1..n
  <2>1. D = DOMAIN list
    BY Zenon, <1>1
  <2>2. f = [i \in D |-> list[i].hash]
    BY Zenon
  <2> HIDE DEF D, f
  <2>3. f \in [D -> Hashes(list)] /\ \A i \in D : f[i] = list[i].hash
    BY Zenon, <2>1, <2>2 DEF Hashes
  <2>4. \A i, j \in D : f[i] = f[j] => i = j
    BY Zenon, <2>1, <2>3 DEF Distinct
  <2>5. \A h \in Hashes(list) : \E i \in D : f[i] = h
    BY Zenon, <2>1, <2>3 DEF Hashes
  <2>6. f \in Bijection(D, Hashes(list))
    BY Zenon, <2>3, <2>4, <2>5 DEF Bijection, Injection, Surjection, IsInjective
  <2> QED BY Zenon, <2>6 DEF D
<1>4. IsFiniteSet(1..n) /\ Cardinality(1..n) = n
  <2>1. 1 \in Int /\ n \in Int
    BY SMTT(30), <1>1
  <2>2. IsFiniteSet(1..n) /\ Cardinality(1..n) = IF 1 > n THEN 0 ELSE n - 1 + 1
    BY Zenon, <2>1, FS_Interval
  <2> QED BY SMTT(30), <1>1, <2>2
<1>5. ExistsBijection(1..n, Hashes(list))
  BY Zenon, <1>3 DEF ExistsBijection
<1> HIDE DEF n, f
<1>6. Cardinality(Hashes(list)) = Cardinality(1..n)
  BY Zenon, <1>4, <1>5, FS_Bijection
<1> QED BY Zenon, <1>4, <1>6 DEF n

LEMMA IInvInFlightExact == IInv => InFlightExact
<1> SUFFICES ASSUME IInv PROVE InFlightExact
  BY Zenon
<1>1. Books.node = node /\ Books.inFlight = mapBlocksInFlight /\ Books.queued = nQueuedValidatedHeaders /\ Exact(Books)
      /\ PeersCounted /\ Bounded(node)
  BY Zenon, BooksNow DEF IInv
<1>2. \A p \in Peers : InFlightFrom(p) = Hashes(node[p].vBlocksInFlight)
                       /\ ValidInFlightFrom(p) = Validated(node[p].vBlocksInFlight)
  BY Zenon DEF InFlightFrom, ValidInFlightFrom, Hashes, Validated
<1>3. ASSUME NEW p \in Peers
      PROVE  /\ InFlightFrom(p) = {b \in Blocks : mapBlocksInFlight[b] = p}
             /\ Len(node[p].vBlocksInFlight) = Cardinality(InFlightFrom(p))
             /\ node[p].nBlocksInFlight = Len(node[p].vBlocksInFlight)
             /\ node[p].nBlocksInFlight <= MAX_BLOCKS_IN_TRANSIT_PER_PEER
             /\ node[p].nBlocksInFlightValidHeaders = Cardinality(ValidInFlightFrom(p))
             /\ conn[p] = "closed" => node[p] = CNodeState
  <2> DEFINE list == node[p].vBlocksInFlight
  <2>1. list \in Seq(Entries) /\ Counted(node[p])
    BY Zenon, BooksNow, StateFields
  <2>2. Distinct(list) /\ node[p].nBlocksInFlight = Len(list)
        /\ node[p].nBlocksInFlightValidHeaders = Cardinality(Validated(list))
    BY Zenon, <2>1 DEF Counted
  <2>3. Hashes(list) \subseteq Blocks
    <3>1. \A i \in DOMAIN list : list[i] \in Entries
      BY SMTT(30), <2>1
    <3> QED BY Zenon, <3>1 DEF Hashes, Entries
  <2>4. \A h \in Blocks : mapBlocksInFlight[h] = p <=> h \in Hashes(list)
    BY Zenon, <1>1 DEF Exact
  <2>5. conn[p] = "closed" => node[p] = CNodeState
    BY Zenon, <1>1 DEF Exact
  <2>6. InFlightFrom(p) = Hashes(list) /\ ValidInFlightFrom(p) = Validated(list)
    BY Zenon, <1>2
  <2>7. node[p].nBlocksInFlight <= MAX_BLOCKS_IN_TRANSIT_PER_PEER
    BY Zenon, <1>1 DEF Bounded
  <2> HIDE DEF list
  <2>8. Len(list) = Cardinality(Hashes(list))
    BY Zenon, <2>1, <2>2, DistinctLength
  <2>9. Hashes(list) = {b \in Blocks : mapBlocksInFlight[b] = p}
    BY Zenon, <2>3, <2>4
  <2> QED BY Zenon, <2>2, <2>5, <2>6, <2>7, <2>8, <2>9 DEF list
<1>4. nSyncStarted = Cardinality({p \in Peers : node[p].fSyncStarted})
      /\ nPreferredDownload = Cardinality({p \in Peers : node[p].fPreferredDownload})
  BY Zenon, <1>1 DEF PeersCounted, Started, PreferredPeers
<1>5. nQueuedValidatedHeaders >= Cardinality(UNION {ValidInFlightFrom(p) : p \in Peers})
  <2>1. UNION {ValidInFlightFrom(p) : p \in Peers} = Queued(Books)
    <3>1. UNION {ValidInFlightFrom(p) : p \in Peers} \subseteq Queued(Books)
      <4>1. ASSUME NEW p \in Peers, NEW h \in ValidInFlightFrom(p)
            PROVE  h \in Queued(Books)
        <5>1. h \in Validated(Books.node[p].vBlocksInFlight) /\ h \in Blocks
          BY Zenon, <1>1, <1>2 DEF Validated
        <5> QED BY Zenon, <5>1 DEF Queued
      <4> QED BY Zenon, <4>1
    <3>2. Queued(Books) \subseteq UNION {ValidInFlightFrom(p) : p \in Peers}
      BY Zenon, <1>1, <1>2 DEF Queued
    <3> QED BY Zenon, <3>1, <3>2
  <2> QED BY Zenon, <1>1, <2>1 DEF Exact
<1> QED BY Zenon, <1>3, <1>4, <1>5 DEF InFlightExact

LEMMA IInvNothingSkipped == IInv => NothingSkipped
BY Zenon, BooksNow DEF NothingSkipped, Linked

\* Whatever peers, block trees, histories and limits there are: the books of the
\* download stay exact.  Each block in flight is in the list of exactly one connected
\* peer, the counters of SendMessages and FinalizeNode count what they stand for, and
\* no peer is asked for more than MAX_BLOCKS_IN_TRANSIT_PER_PEER blocks at a time.
THEOREM BooksExact == Spec => []InFlightExact
<1>1. Init => IInv
  BY InitIInv
<1>2. IInv /\ [Next]_vars => IInv'
  BY NextIInv
<1>3. IInv => InFlightExact
  BY IInvInFlightExact
<1> QED BY <1>1, <1>2, <1>3, PTL DEF Spec

\* Whatever reorganisations, invalid blocks and disconnections move it: the chain of
\* pindexLastCommonBlock, below which FindNextBlocksToDownload never looks again, is
\* stored completely.
THEOREM NothingMissing == Spec => []NothingSkipped
<1>1. Init => IInv
  BY InitIInv
<1>2. IInv /\ [Next]_vars => IInv'
  BY NextIInv
<1>3. IInv => NothingSkipped
  BY IInvNothingSkipped
<1> QED BY <1>1, <1>2, <1>3, PTL DEF Spec
=============================================================================
