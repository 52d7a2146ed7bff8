--------------------------- MODULE BlockDownload ---------------------------
(***************************************************************************)
(* The download of headers and blocks from several peers (main.cpp):       *)
(* CNodeState, the blocks in flight, the download window, the detection    *)
(* of stalling and slow peers, and the handlers of "inv", "headers" and    *)
(* "block".                                                                *)
(*                                                                         *)
(* Every action is one critical section of cs_main.  The message handler   *)
(* thread serves the peers in turn; a connection is closed, and            *)
(* FinalizeNode called, by the socket thread at any moment after           *)
(* fDisconnect is set.  A peer answers requests in the order in which they *)
(* were sent, as ProcessMessages does on its side; a peer outside          *)
(* Responsive may answer late, skip a request, send headers and blocks     *)
(* nobody asked for, or hang up.                                           *)
(*                                                                         *)
(* Times are kept relative to the present: left is nTimeDisconnect - nNow  *)
(* and nStallingSince the time since the stall began.  One tick is half a  *)
(* block interval (500000 * PoWTargetSpacing); ChainState and BlockConnect *)
(* are the models of what happens to a block once it is stored.            *)
(***************************************************************************)
EXTENDS Integers, Sequences, FiniteSets

CONSTANTS
    Peers,
    Responsive,      \* peers that answer every request within a tick
    Preferred,       \* outbound or whitelisted, and no client
    Client,          \* peers without NODE_NETWORK
    Blocks, Genesis, Parent,
    Ancestors,       \* the chain that ends in a block, that block included
    Height,          \* nHeight
    BadBlocks,       \* blocks that fail ContextualCheckBlock
    Histories,       \* for each peer, the best blocks it has one after another
    TodayHeight,     \* blocks from this height on are less than 24 hours old
    RecentHeight,    \* ... and these less than 20 block intervals
    MAX_BLOCKS_IN_TRANSIT_PER_PEER, BLOCK_DOWNLOAD_WINDOW, MAX_HEADERS_RESULTS,
    MIN_BLOCKS_TO_KEEP,
    BLOCK_STALLING_TIMEOUT,  \* in ticks
    TimeoutBase,     \* the 4 of GetBlockTimeout
    BanScore,        \* -banscore, in units of 10
    MaxRequests,     \* bound: unanswered requests of a peer when it announces a block
    MaxConnections,  \* bound: connections of a peer in Peers \ Responsive
    None

ASSUME TreeAssumption ==
    /\ IsFiniteSet(Blocks)
    /\ Genesis \in Blocks
    /\ Parent \in [Blocks \ {Genesis} -> Blocks]
    /\ Ancestors \in [Blocks -> SUBSET Blocks]
    /\ Height \in [Blocks -> Nat]
    /\ Ancestors[Genesis] = {Genesis} /\ Height[Genesis] = 0
    /\ \A b \in Blocks \ {Genesis} :
         /\ Ancestors[b] = Ancestors[Parent[b]] \cup {b}
         /\ Height[b] = Height[Parent[b]] + 1
ASSUME PeerAssumption ==
    /\ IsFiniteSet(Peers) /\ None \notin Peers \cup Blocks
    /\ Responsive \subseteq Preferred /\ Preferred \subseteq Peers \ Client /\ Client \subseteq Peers
ASSUME HistoryAssumption ==
    \A h \in Histories :
        /\ h \in [Peers -> Seq(Blocks) \ {<<>>}]
        /\ \A p \in Peers : \A i \in 1..Len(h[p]) :
             /\ p \in Responsive => h[p][i] \notin BadBlocks
             /\ i > 1 => h[p][i] # h[p][i - 1]
ASSUME LimitAssumption ==
    /\ MAX_BLOCKS_IN_TRANSIT_PER_PEER \in Nat \ {0} /\ BLOCK_DOWNLOAD_WINDOW \in Nat
    /\ MAX_HEADERS_RESULTS \in Nat \ {0} /\ MIN_BLOCKS_TO_KEEP \in Nat
    /\ BLOCK_STALLING_TIMEOUT \in Nat /\ TimeoutBase \in Nat /\ BanScore \in Nat
    /\ TodayHeight <= RecentHeight

GetAncestor == [b \in Blocks |-> [h \in 0..Height[b] |-> CHOOSE a \in Ancestors[b] : Height[a] = h]]
LastCommonAncestor ==
    [a \in Blocks |-> [b \in Blocks |-> CHOOSE x \in Ancestors[a] \cap Ancestors[b] :
                           \A y \in Ancestors[a] \cap Ancestors[b] : Height[y] <= Height[x]]]

Smaller(i, j) == IF i < j THEN i ELSE j

VARIABLES
    conn,          \* "closed", "new" (nVersion = 0) or "open"
    node,          \* mapNodeState, and fDisconnect of the CNode
    requests,      \* what a responsive peer was asked and has not answered
    history,       \* the head is the best block of the peer, the tail what it adopts later
    mapBlocksInFlight,
    nQueuedValidatedHeaders, nPreferredDownload, nSyncStarted,
    mapBlockIndex, haveData, failed, tip, pindexBestHeader,
    connections    \* counts towards MaxConnections

net == <<conn, node, requests, history, connections>>
books == <<mapBlocksInFlight, nQueuedValidatedHeaders, nPreferredDownload, nSyncStarted>>
chain == <<mapBlockIndex, haveData, failed, tip, pindexBestHeader>>
vars == <<net, books, chain>>

CNodeState ==
    [fDisconnect |-> FALSE, nMisbehavior |-> 0, fShouldBan |-> FALSE,
     pindexBestKnownBlock |-> None, hashLastUnknownBlock |-> None, pindexLastCommonBlock |-> None,
     fSyncStarted |-> FALSE, nStallingSince |-> None, fPreferredDownload |-> FALSE,
     vBlocksInFlight |-> <<>>, nBlocksInFlight |-> 0, nBlocksInFlightValidHeaders |-> 0]

Init ==
    /\ conn = [p \in Peers |-> "closed"]
    /\ node = [p \in Peers |-> CNodeState]
    /\ requests = [p \in Peers |-> <<>>]
    /\ history \in Histories
    /\ mapBlocksInFlight = [b \in Blocks |-> None]
    /\ nQueuedValidatedHeaders = 0 /\ nPreferredDownload = 0 /\ nSyncStarted = 0
    /\ mapBlockIndex = {Genesis} /\ haveData = {Genesis} /\ failed = {}
    /\ tip = Genesis /\ pindexBestHeader = Genesis
    /\ connections = [p \in Peers |-> 0]

PeerTip(p) == Head(history[p])
Bit(c) == IF c THEN 1 ELSE 0
IsInitialBlockDownload == Height[tip] < TodayHeight

-----------------------------------------------------------------------------
(* The books of the blocks in flight: b is the record of node,             *)
(* mapBlocksInFlight and nQueuedValidatedHeaders.                          *)
-----------------------------------------------------------------------------

Books == [node |-> node, inFlight |-> mapBlocksInFlight, queued |-> nQueuedValidatedHeaders]

GetBlockTimeout(nValidatedQueuedBefore) == TimeoutBase + nValidatedQueuedBefore

\* std::list::erase.
Erase(list, at) == [i \in 1..(Len(list) - 1) |-> IF i < at THEN list[i] ELSE list[i + 1]]

\* Mutant: the peer stays marked as stalling.
MarkBlockStillStalling(b, hash) ==
    LET p == b.inFlight[hash] IN
    IF p = None THEN b
    ELSE LET list == b.node[p].vBlocksInFlight
             at == CHOOSE i \in DOMAIN list : list[i].hash = hash
             valid == Bit(list[at].fValidatedHeaders)
         IN [node |-> [b.node EXCEPT ![p].nBlocksInFlightValidHeaders = @ - valid,
                                     ![p].vBlocksInFlight = Erase(list, at),
                                     ![p].nBlocksInFlight = @ - 1],
             inFlight |-> [b.inFlight EXCEPT ![hash] = None],
             queued |-> b.queued - valid]

MarkBlockAsReceived(b, hash) ==
    LET p == b.inFlight[hash] IN
    IF p = None THEN b
    ELSE LET list == b.node[p].vBlocksInFlight
             at == CHOOSE i \in DOMAIN list : list[i].hash = hash
             valid == Bit(list[at].fValidatedHeaders)
         IN [node |-> [b.node EXCEPT ![p].nBlocksInFlightValidHeaders = @ - valid,
                                     ![p].vBlocksInFlight = Erase(list, at),
                                     ![p].nBlocksInFlight = @ - 1,
                                     ![p].nStallingSince = None],
             inFlight |-> [b.inFlight EXCEPT ![hash] = None],
             queued |-> b.queued - valid]

MarkBlockAsInFlight(b0, p, hash, fValidatedHeaders) ==
    LET b == MarkBlockAsReceived(b0, hash)
        newentry == [hash |-> hash, fValidatedHeaders |-> fValidatedHeaders, left |-> GetBlockTimeout(b.queued)]
        valid == Bit(fValidatedHeaders)
    IN [node |-> [b.node EXCEPT ![p].vBlocksInFlight = Append(@, newentry),
                                ![p].nBlocksInFlight = @ + 1,
                                ![p].nBlocksInFlightValidHeaders = @ + valid],
        inFlight |-> [b.inFlight EXCEPT ![hash] = p],
        queued |-> b.queued + valid]

MarkBlocksAsInFlight(b, p, vBlocks) ==
    LET marked[i \in 0..Len(vBlocks)] ==
          IF i = 0 THEN b ELSE MarkBlockAsInFlight(marked[i - 1], p, vBlocks[i], TRUE)
    IN marked[Len(vBlocks)]

SetBooks(b) ==
    /\ node' = b.node
    /\ mapBlocksInFlight' = b.inFlight
    /\ nQueuedValidatedHeaders' = b.queued

-----------------------------------------------------------------------------
(* What a peer has, and what to ask it for; s is its CNodeState.           *)
-----------------------------------------------------------------------------

\* The better of what is known of the peer and the block it announced.
Announced(s, b) ==
    IF s.pindexBestKnownBlock = None \/ Height[b] >= Height[s.pindexBestKnownBlock]
    THEN [s EXCEPT !.pindexBestKnownBlock = b] ELSE s

ProcessBlockAvailability(s, index) ==
    IF s.hashLastUnknownBlock \in index
    THEN [Announced(s, s.hashLastUnknownBlock) EXCEPT !.hashLastUnknownBlock = None] ELSE s

UpdateBlockAvailability(s0, hash, index) ==
    LET s == ProcessBlockAvailability(s0, index)
    IN IF hash \in index THEN Announced(s, hash) ELSE [s EXCEPT !.hashLastUnknownBlock = hash]

\* Mutant: a block whose predecessors are missing counts as common.
ConsiderUnlinked(w, b, p, nWindowEnd, count) ==
    CASE w.done -> w
      [] ~w.done /\ b \in failed -> [w EXCEPT !.done = TRUE]
      [] ~w.done /\ b \notin failed /\ b \in haveData -> [w EXCEPT !.last = b]
      [] ~w.done /\ b \notin failed \cup haveData /\ mapBlocksInFlight[b] = None /\ Height[b] > nWindowEnd ->
           [w EXCEPT !.done = TRUE]
      [] ~w.done /\ b \notin failed \cup haveData /\ mapBlocksInFlight[b] = None /\ Height[b] <= nWindowEnd ->
           [w EXCEPT !.vBlocks = Append(@, b), !.done = (Len(w.vBlocks) + 1 = count)]
      [] OTHER -> w

\* One block of the walk: w.last is pindexLastCommonBlock.
Consider(w, b, p, nWindowEnd, count) ==
    CASE w.done -> w
      [] ~w.done /\ b \in failed -> [w EXCEPT !.done = TRUE]
      [] ~w.done /\ b \notin failed /\ b \in haveData ->
           IF Ancestors[b] \subseteq haveData THEN [w EXCEPT !.last = b] ELSE w
      [] ~w.done /\ b \notin failed \cup haveData /\ mapBlocksInFlight[b] = None /\ Height[b] > nWindowEnd ->
           [w EXCEPT !.done = TRUE,
                     !.staller = IF w.vBlocks = <<>> /\ w.waitingfor # p THEN w.waitingfor ELSE @]
      [] ~w.done /\ b \notin failed \cup haveData /\ mapBlocksInFlight[b] = None /\ Height[b] <= nWindowEnd ->
           [w EXCEPT !.vBlocks = Append(@, b), !.done = (Len(w.vBlocks) + 1 = count)]
      [] OTHER -> IF w.waitingfor = None THEN [w EXCEPT !.waitingfor = mapBlocksInFlight[b]] ELSE w

\* The walk over the blocks of vToFetch.
Walk(last, vToFetch, p, nWindowEnd, count) ==
    LET walk[i \in 0..Len(vToFetch)] ==
          IF i = 0 THEN [last |-> last, vBlocks |-> <<>>, waitingfor |-> None, staller |-> None, done |-> FALSE]
          ELSE Consider(walk[i - 1], vToFetch[i], p, nWindowEnd, count)
    IN walk[Len(vToFetch)]

\* The new CNodeState, the blocks to ask for and the peer that holds the window up.
FindNextBlocksToDownload(s0, p, count) ==
    LET s == ProcessBlockAvailability(s0, mapBlockIndex)
        best == s.pindexBestKnownBlock
        guess == IF s.pindexLastCommonBlock = None
                 THEN GetAncestor[tip][Smaller(Height[best], Height[tip])] ELSE s.pindexLastCommonBlock
        last == LastCommonAncestor[guess][best]
        nWindowEnd == Height[last] + BLOCK_DOWNLOAD_WINDOW
        nMaxHeight == Smaller(Height[best], nWindowEnd + 1)
        vToFetch == [i \in 1..(nMaxHeight - Height[last]) |-> GetAncestor[best][Height[last] + i]]
        walk == Walk(last, vToFetch, p, nWindowEnd, count)
    IN IF best = None \/ (best # None /\ Height[best] < Height[tip])
       THEN [state |-> s, vBlocks |-> <<>>, staller |-> None]
       ELSE [state |-> [s EXCEPT !.pindexLastCommonBlock = walk.last], vBlocks |-> walk.vBlocks, staller |-> walk.staller]

-----------------------------------------------------------------------------
(* Connections.                                                            *)
-----------------------------------------------------------------------------

Running(p) == conn[p] = "open" /\ ~node[p].fDisconnect
GetHeaders(from, stop) == [type |-> "getheaders", from |-> from, stop |-> stop, age |-> 0]
GetData(b) == [type |-> "getdata", from |-> b, stop |-> None, age |-> 0]

\* What another peer is asked makes no difference to what it sends.
PushMessages(p, rest, messages) ==
    requests' = [requests EXCEPT ![p] = IF p \in Responsive THEN rest \o messages ELSE <<>>]

Misbehaving(s, howmuch) ==
    LET score == Smaller(s.nMisbehavior + howmuch, BanScore)
    IN [s EXCEPT !.nMisbehavior = score,
                 !.fShouldBan = @ \/ (score = BanScore /\ s.nMisbehavior < BanScore)]

InitializeNode(p) ==
    /\ conn[p] = "closed"
    /\ p \notin Responsive => connections[p] < MaxConnections
    /\ connections' = [connections EXCEPT ![p] = Smaller(@ + 1, MaxConnections)]
    /\ conn' = [conn EXCEPT ![p] = "new"]
    /\ UNCHANGED <<node, requests, history, books, chain>>

\* "version": a second one is refused, so the peer is counted once.
Version(p) ==
    /\ conn[p] = "new" /\ ~node[p].fDisconnect
    /\ conn' = [conn EXCEPT ![p] = "open"]
    /\ node' = [node EXCEPT ![p].fPreferredDownload = p \in Preferred]
    /\ nPreferredDownload' = nPreferredDownload - Bit(node[p].fPreferredDownload) + Bit(p \in Preferred)
    /\ UNCHANGED <<requests, history, connections, mapBlocksInFlight, nQueuedValidatedHeaders, nSyncStarted, chain>>

\* The peer, or the network, closes the connection.
Hangup(p) ==
    /\ conn[p] # "closed" /\ ~node[p].fDisconnect /\ p \notin Responsive
    /\ node' = [node EXCEPT ![p].fDisconnect = TRUE]
    /\ UNCHANGED <<conn, requests, history, connections, books, chain>>

\* Mutant: what the peer owed stays in flight.
FinalizeNodeOnly(p) ==
    /\ conn[p] # "closed" /\ node[p].fDisconnect
    /\ nSyncStarted' = nSyncStarted - Bit(node[p].fSyncStarted)
    /\ nPreferredDownload' = nPreferredDownload - Bit(node[p].fPreferredDownload)
    /\ node' = [node EXCEPT ![p] = CNodeState]
    /\ conn' = [conn EXCEPT ![p] = "closed"]
    /\ requests' = [requests EXCEPT ![p] = <<>>]
    /\ UNCHANGED <<history, connections, mapBlocksInFlight, nQueuedValidatedHeaders, chain>>

FinalizeNode(p) ==
    /\ conn[p] # "closed" /\ node[p].fDisconnect
    /\ nSyncStarted' = nSyncStarted - Bit(node[p].fSyncStarted)
    /\ mapBlocksInFlight' = [b \in Blocks |->
         IF \E i \in DOMAIN node[p].vBlocksInFlight : node[p].vBlocksInFlight[i].hash = b
         THEN None ELSE mapBlocksInFlight[b]]
    /\ nPreferredDownload' = nPreferredDownload - Bit(node[p].fPreferredDownload)
    /\ node' = [node EXCEPT ![p] = CNodeState]
    /\ conn' = [conn EXCEPT ![p] = "closed"]
    /\ requests' = [requests EXCEPT ![p] = <<>>]
    /\ UNCHANGED <<history, connections, nQueuedValidatedHeaders, chain>>

-----------------------------------------------------------------------------
(* SendMessages.                                                           *)
-----------------------------------------------------------------------------

\* Mutant: only stalling disconnects.
CheckStallOnly(s, queued) ==
    [s EXCEPT !.fDisconnect = @ \/ (s.nStallingSince # None /\ s.nStallingSince > BLOCK_STALLING_TIMEOUT)]

\* Both reasons to give a peer up: it stalls the window, or its oldest request timed out.
CheckTimeouts(s, queued) ==
    LET stalls == ~s.fDisconnect /\ s.nStallingSince # None /\ s.nStallingSince > BLOCK_STALLING_TIMEOUT
        ifNow == GetBlockTimeout(queued - s.nBlocksInFlightValidHeaders)
        left == Smaller(s.vBlocksInFlight[1].left, ifNow)
    IN IF stalls THEN [s EXCEPT !.fDisconnect = TRUE]
       ELSE IF s.fDisconnect \/ s.vBlocksInFlight = <<>> THEN s
       ELSE [s EXCEPT !.vBlocksInFlight[1].left = left, !.fDisconnect = (left < 0)]

\* What one call leaves in the books and in nSyncStarted, and what it sends.
Sending(p) ==
    LET fFetch == node[p].fPreferredDownload \/ (nPreferredDownload = 0 /\ p \notin Client)
        start == /\ ~node[p].fSyncStarted /\ p \notin Client
                 /\ (nSyncStarted = 0 /\ fFetch) \/ Height[pindexBestHeader] >= TodayHeight
        pindexStart == IF pindexBestHeader = Genesis THEN Genesis ELSE Parent[pindexBestHeader]
        ban == [node[p] EXCEPT !.fDisconnect = @ \/ node[p].fShouldBan, !.fShouldBan = FALSE,
                               !.fSyncStarted = @ \/ start]
        s == CheckTimeouts(ban, nQueuedValidatedHeaders)
        fetch == /\ ~s.fDisconnect /\ p \notin Client /\ (fFetch \/ ~IsInitialBlockDownload)
                 /\ s.nBlocksInFlight < MAX_BLOCKS_IN_TRANSIT_PER_PEER
        next == IF fetch THEN FindNextBlocksToDownload(s, p, MAX_BLOCKS_IN_TRANSIT_PER_PEER - s.nBlocksInFlight)
                ELSE [state |-> s, vBlocks |-> <<>>, staller |-> None]
        b == MarkBlocksAsInFlight([Books EXCEPT !.node[p] = next.state], p, next.vBlocks)
        stall == /\ b.node[p].nBlocksInFlight = 0 /\ next.staller # None
                 /\ b.node[next.staller].nStallingSince = None
    IN [books |-> IF stall THEN [b EXCEPT !.node[next.staller].nStallingSince = 0] ELSE b,
        nSyncStarted |-> nSyncStarted + Bit(start),
        messages |-> (IF start THEN <<GetHeaders(pindexStart, None)>> ELSE <<>>)
                     \o [i \in DOMAIN next.vBlocks |-> GetData(next.vBlocks[i])]]

SendMessages(p) ==
    /\ conn[p] = "open"
    /\ UNCHANGED <<conn, history, connections, nPreferredDownload, chain>>
    /\ LET sent == Sending(p)
       IN /\ SetBooks(sent.books)
          /\ nSyncStarted' = sent.nSyncStarted
          /\ PushMessages(p, requests[p], sent.messages)

-----------------------------------------------------------------------------
(* ProcessMessage.                                                         *)
-----------------------------------------------------------------------------

\* AcceptBlockHeader and AddToBlockIndex: h.ok is cleared by an error, h.dos its misbehaviour.
AcceptBlockHeader(h, b) ==
    CASE ~h.ok -> h
      [] h.ok /\ b \in h.index /\ b \in failed -> [h EXCEPT !.ok = FALSE]
      [] h.ok /\ b \in h.index /\ b \notin failed -> [h EXCEPT !.last = b]
      [] h.ok /\ b \notin h.index /\ Parent[b] \notin h.index -> [h EXCEPT !.ok = FALSE, !.dos = 1]
      [] h.ok /\ b \notin h.index /\ Parent[b] \in h.index \cap failed -> [h EXCEPT !.ok = FALSE, !.dos = 10]
      [] OTHER -> [h EXCEPT !.last = b, !.index = @ \cup {b},
                            !.best = IF Height[@] < Height[b] THEN b ELSE @]

Headers == [ok |-> TRUE, dos |-> 0, last |-> None, index |-> mapBlockIndex, best |-> pindexBestHeader]

AcceptBlockHeaders(h, headers) ==
    LET accepted[i \in 0..Len(headers)] ==
          IF i = 0 THEN h ELSE AcceptBlockHeader(accepted[i - 1], headers[i])
    IN accepted[Len(headers)]

\* "inv" of a block.
ProcessInv(p, hash) ==
    LET s == UpdateBlockAvailability(node[p], hash, mapBlockIndex)
        ask == hash \notin mapBlockIndex /\ mapBlocksInFlight[hash] = None
        direct == /\ ask /\ Height[tip] >= RecentHeight
                  /\ s.nBlocksInFlight < MAX_BLOCKS_IN_TRANSIT_PER_PEER
        b == [Books EXCEPT !.node[p] = s]
    IN /\ Running(p) /\ Len(requests[p]) < MaxRequests
       /\ SetBooks(IF direct THEN MarkBlockAsInFlight(b, p, hash, FALSE) ELSE b)
       /\ PushMessages(p, requests[p], (IF ask THEN <<GetHeaders(pindexBestHeader, hash)>> ELSE <<>>)
                                       \o (IF direct THEN <<GetData(hash)>> ELSE <<>>))
       /\ UNCHANGED <<conn, history, connections, nPreferredDownload, nSyncStarted, chain>>

\* "headers"; rest is what the peer has still to answer.
ProcessHeaders(p, headers, rest) ==
    LET h == AcceptBlockHeaders(Headers, headers)
        more == h.ok /\ Len(headers) = MAX_HEADERS_RESULTS
        known == h.ok /\ h.last # None
    IN /\ mapBlockIndex' = h.index /\ pindexBestHeader' = h.best
       /\ node' = [node EXCEPT ![p] = IF known THEN UpdateBlockAvailability(@, h.last, h.index) ELSE Misbehaving(@, h.dos)]
       /\ PushMessages(p, rest, IF more THEN <<GetHeaders(h.last, None)>> ELSE <<>>)
       /\ UNCHANGED <<conn, history, connections, books, haveData, failed, tip>>

\* The tips ActivateBestChain may choose: a tie between new blocks is broken by their order of arrival.
ActivateBestChain(have, bad) ==
    LET better == {b \in have : /\ Height[b] > Height[tip] /\ Ancestors[b] \subseteq have
                                /\ Ancestors[b] \cap bad = {}}
    IN IF better = {} THEN {tip} ELSE {b \in better : \A c \in better : Height[c] <= Height[b]}

\* A block that was not asked for must advance the tip, and not by too much.
AcceptBlock(b, fRequested) ==
    LET h == AcceptBlockHeader(Headers, b)
        process == /\ h.ok /\ b \notin haveData
                   /\ fRequested \/ (Height[b] > Height[tip] /\ Height[b] <= Height[tip] + MIN_BLOCKS_TO_KEEP)
    IN [header |-> h,
        haveData |-> IF process THEN {b} \ BadBlocks ELSE {},
        failed |-> IF process THEN {b} \cap BadBlocks ELSE {}]

\* "block": ProcessNewBlock.
ProcessBlock(p, b, rest) ==
    LET accepted == AcceptBlock(b, mapBlocksInFlight[b] # None)
        dos == IF accepted.failed = {} THEN accepted.header.dos ELSE 10
    IN /\ SetBooks([MarkBlockAsReceived(Books, b) EXCEPT !.node[p] = Misbehaving(@, dos)])
       /\ mapBlockIndex' = accepted.header.index /\ pindexBestHeader' = accepted.header.best
       /\ haveData' = haveData \cup accepted.haveData
       /\ failed' = failed \cup accepted.failed
       /\ tip' \in ActivateBestChain(haveData', failed')
       /\ PushMessages(p, rest, <<>>)
       /\ UNCHANGED <<conn, history, connections, nPreferredDownload, nSyncStarted>>

-----------------------------------------------------------------------------
(* The peers, which run the same program, and the clock.                   *)
-----------------------------------------------------------------------------

\* The answer to "getheaders": the peer's chain after the fork with the locator.
HeadersAfter(p, request) ==
    LET fork == LastCommonAncestor[request.from][PeerTip(p)]
        end == IF request.stop \in Ancestors[PeerTip(p)] /\ Height[request.stop] > Height[fork]
               THEN request.stop ELSE PeerTip(p)
        n == Smaller(MAX_HEADERS_RESULTS, Height[end] - Height[fork])
    IN [i \in 1..n |-> GetAncestor[end][Height[fork] + i]]

\* A responsive peer answers its oldest request, and the node processes the answer.
Answer(p) ==
    /\ Running(p) /\ requests[p] # <<>>
    /\ LET request == Head(requests[p]) rest == Tail(requests[p])
       IN \/ request.type = "getheaders" /\ ProcessHeaders(p, HeadersAfter(p, request), rest)
          \/ request.type = "getdata" /\ ProcessBlock(p, request.from, rest)

\* Any other peer sends headers and blocks of its chain, asked for or not.
SendHeaders(p) ==
    /\ Running(p) /\ p \notin Responsive
    /\ \E b \in Ancestors[PeerTip(p)] : ProcessHeaders(p, HeadersAfter(p, GetHeaders(b, None)), <<>>)

SendBlock(p) ==
    /\ Running(p) /\ p \notin Responsive
    /\ \E b \in Ancestors[PeerTip(p)] \ {Genesis} : ProcessBlock(p, b, <<>>)

Announce(p) == ProcessInv(p, PeerTip(p))

\* The peer's chain grows or is reorganised.
Adopt(p) ==
    /\ Len(history[p]) > 1
    /\ history' = [history EXCEPT ![p] = Tail(@)]
    /\ UNCHANGED <<conn, node, requests, connections, books, chain>>

\* The time that is left does not matter any more once it is negative.
Aged(entry) == [entry EXCEPT !.left = IF @ < 0 THEN @ ELSE @ - 1]

Later(s) ==
    [s EXCEPT !.nStallingSince = IF @ = None THEN None ELSE Smaller(@ + 1, BLOCK_STALLING_TIMEOUT + 1),
              !.vBlocksInFlight = [i \in DOMAIN s.vBlocksInFlight |-> Aged(s.vBlocksInFlight[i])]]

\* Time passes; a responsive peer never lets a request grow older than the stalling timeout.
Tick ==
    /\ \A p \in Responsive : \A i \in 1..Len(requests[p]) : requests[p][i].age < BLOCK_STALLING_TIMEOUT
    /\ node' = [p \in Peers |-> Later(node[p])]
    /\ requests' = [p \in Peers |-> [i \in DOMAIN requests[p] |->
                                                      [requests[p][i] EXCEPT !.age = @ + 1]]]
    /\ UNCHANGED <<conn, history, connections, books, chain>>

Next ==
    \/ Tick
    \/ \E p \in Peers :
         \/ InitializeNode(p) \/ Version(p) \/ Hangup(p) \/ FinalizeNode(p) \/ SendMessages(p)
         \/ Answer(p) \/ SendHeaders(p) \/ SendBlock(p) \/ Announce(p) \/ Adopt(p)

\* The message handler and socket threads run forever; time passes; a
\* responsive peer connects, answers, and announces its best block.  Each
\* condition is the weak fairness of the action, with the states in which the
\* action changes something written out.
CanSend(p) ==
    /\ conn[p] = "open"
    /\ Sending(p) # [books |-> Books, nSyncStarted |-> nSyncStarted, messages |-> <<>>]
CanAnnounce(p) ==
    /\ Running(p) /\ Len(requests[p]) < MaxRequests
    /\ \/ UpdateBlockAvailability(node[p], PeerTip(p), mapBlockIndex) # node[p]
       \/ PeerTip(p) \notin mapBlockIndex /\ mapBlocksInFlight[PeerTip(p)] = None
CanTick ==
    /\ \A p \in Responsive : \A i \in 1..Len(requests[p]) : requests[p][i].age < BLOCK_STALLING_TIMEOUT
    /\ \E p \in Peers : requests[p] # <<>> \/ Later(node[p]) # node[p]

Fairness ==
    /\ []<>~CanTick \/ []<><<Tick>>_vars
    /\ \A p \in Peers :
         /\ []<>~CanSend(p) \/ []<><<SendMessages(p)>>_vars
         /\ []<>(conn[p] = "closed" \/ ~node[p].fDisconnect) \/ []<><<FinalizeNode(p)>>_vars
    /\ \A p \in Responsive :
         /\ []<>(conn[p] # "closed") \/ []<><<InitializeNode(p)>>_vars
         /\ []<>(conn[p] # "new") \/ []<><<Version(p)>>_vars
         /\ []<>(~Running(p) \/ requests[p] = <<>>) \/ []<><<Answer(p)>>_vars
         /\ []<>~CanAnnounce(p) \/ []<><<Announce(p)>>_vars

Spec ==
    /\ Init
    /\ [][Next]_vars
    /\ Fairness

(* What the download promises. *)

InFlightFrom(p) == {node[p].vBlocksInFlight[i].hash : i \in DOMAIN node[p].vBlocksInFlight}
ValidInFlightFrom(p) ==
    {b \in Blocks : \E i \in DOMAIN node[p].vBlocksInFlight :
        node[p].vBlocksInFlight[i].hash = b /\ node[p].vBlocksInFlight[i].fValidatedHeaders}

\* MarkBlockAsReceived, FinalizeNode and the stalling test follow mapBlocksInFlight
\* to a CNodeState: each block in flight is in the list of exactly one connected
\* peer, the counters of a peer count its list, nSyncStarted and nPreferredDownload
\* count the connected peers, and nQueuedValidatedHeaders counts at least what
\* is in flight.
InFlightExact ==
    /\ \A p \in Peers :
         /\ InFlightFrom(p) = {b \in Blocks : mapBlocksInFlight[b] = p}
         /\ Len(node[p].vBlocksInFlight) = Cardinality(InFlightFrom(p))
         /\ node[p].nBlocksInFlight = Len(node[p].vBlocksInFlight)
         /\ node[p].nBlocksInFlight <= MAX_BLOCKS_IN_TRANSIT_PER_PEER
         /\ node[p].nBlocksInFlightValidHeaders = Cardinality(ValidInFlightFrom(p))
         /\ conn[p] = "closed" => node[p] = CNodeState
    /\ nSyncStarted = Cardinality({p \in Peers : node[p].fSyncStarted})
    /\ nPreferredDownload = Cardinality({p \in Peers : node[p].fPreferredDownload})
    /\ nQueuedValidatedHeaders >= Cardinality(UNION {ValidInFlightFrom(p) : p \in Peers})

\* FindNextBlocksToDownload starts above pindexLastCommonBlock and never looks
\* below it again: no block of that chain may be missing, whatever
\* reorganisations, invalid blocks and disconnections moved it.
NothingSkipped ==
    \A p \in Peers : node[p].pindexLastCommonBlock # None =>
        Ancestors[node[p].pindexLastCommonBlock] \subseteq haveData

\* A peer that answers each request within the stalling timeout is never
\* disconnected or banned, whatever the other peers do to the window.
ResponsiveKept == \A p \in Responsive : ~node[p].fDisconnect /\ ~node[p].fShouldBan

\* The node ends up with a chain as good as that of every responsive peer, past
\* peers that take requests and never answer them.
CatchesUp == \A p \in Responsive : <>[](Height[tip] >= Height[PeerTip(p)])
=============================================================================
