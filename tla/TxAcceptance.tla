---------------------------- MODULE TxAcceptance ----------------------------
(***************************************************************************)
(* Transactions on their way into a block: AcceptToMemoryPool, the "tx"    *)
(* message with the orphan transactions, what DisconnectTip, ConnectTip,   *)
(* ActivateBestChainStep and InvalidateBlock do to the memory pool         *)
(* (main.cpp), and the block CreateNewBlock makes of it (miner.cpp).       *)
(*                                                                         *)
(* Every action holds cs_main from its beginning to its end.  Where the    *)
(* code draws a random number an operator returns the set of all outcomes. *)
(* Which chain is best is the matter of ChainState; here any known block   *)
(* above the tip may be activated.                                         *)
(***************************************************************************)
EXTENDS TxMemPool

CONSTANTS
    Peers,
    Received,           \* transactions peers send
    Own,                \* transactions sendrawtransaction is called with
    Invalidated,        \* blocks invalidateblock is called with
    TX_EXPIRING_SOON_THRESHOLD,
    MaxOrphanSize,      \* larger orphans are ignored
    nMaxOrphanTx,       \* -maxorphantx
    Free,               \* transactions that pay less than minRelayTxFee
    AllowFree,          \* transactions of high priority
    PriorityRank,       \* order of the transactions by priority
    FeeRank,            \* order of the transactions by fee rate
    BaseSize,           \* size of a block before any transaction is added
    nBlockMaxSize, nBlockPrioritySize, nBlockMinSize,
    MaxTime             \* bound: seconds that pass

VARIABLES
    tip,                \* of chainActive, and best block of pcoinsTip
    failed,             \* blocks known to be invalid
    pool,
    mapOrphanTransactions,          \* orphan -> peer it came from
    mapOrphanTransactionsByPrev,    \* transaction -> orphans that spend it
    recentRejects, hashRecentRejectsChainTip,
    now

orphans == <<mapOrphanTransactions, mapOrphanTransactionsByPrev>>
rejects == <<recentRejects, hashRecentRejectsChainTip>>
vars == <<tip, failed, pool, orphans, rejects, now>>

Init ==
    /\ tip = Genesis /\ failed = {}
    /\ pool = EmptyPool
    /\ mapOrphanTransactions = Empty /\ mapOrphanTransactionsByPrev = Empty
    /\ recentRejects = {} /\ hashRecentRejectsChainTip = None
    /\ now = 0

-----------------------------------------------------------------------------
(* AcceptToMemoryPool, with the coins database at block view and           *)
(* chainActive of this height: the outcomes [pool, ok, missing].           *)

Refused(p, t, view, height) ==
    \/ t \in p.recentlyEvicted.txIdSet
    \/ Branch[t] # CurrentEpochBranchId(height + 1)
    \/ IsExpiredTx(t, height + 1 + TX_EXPIRING_SOON_THRESHOLD)
    \/ ~IsFinalTx(t, height + 1)
    \/ t \in Pooled(p)
    \/ In[t] \cap DOMAIN p.mapNextTx # {}
    \/ Nullifiers[t] \cap DOMAIN p.mapNullifiers # {}
    \/ HaveCoins(view, t)
MissingInputs(p, t, view) == \E o \in In[t] : o[1] \notin Pooled(p) /\ ~HaveCoins(view, o[1])
CheckTxInputs(p, t, view) ==
    /\ \A o \in In[t] : IF o[1] \in Pooled(p) THEN o \in Outpoints(o[1]) ELSE o \in Unspent[view]
    /\ Nullifiers[t] \cap NullifiersAt[view] = {}
    /\ Anchor[t] # None => Root(Anchor[t]) \in AnchorsAt[view]
    /\ Mature(t, view)

AcceptToMemoryPool(p, t, view, height, fLimitFree) ==
    LET q == [p EXCEPT !.recentlyEvicted = PruneList(@, now)]
        No(missing) == {[pool |-> q, ok |-> FALSE, missing |-> missing]}
        spendsCoinbase == \E o \in In[t] : IsCoinBase(o[1])
        entered == addUnchecked(q, t, spendsCoinbase, CurrentEpochBranchId(height + 1)) IN
    IF Refused(q, t, view, height) THEN No(FALSE)
    ELSE IF MissingInputs(q, t, view) THEN No(TRUE)
    ELSE IF ~CheckTxInputs(q, t, view) THEN No(FALSE)
    ELSE (IF fLimitFree /\ t \in Free THEN No(FALSE) ELSE {})
         \cup {[pool |-> r, ok |-> TRUE, missing |-> FALSE] : r \in EnsureSizeLimit(entered, now)}

-----------------------------------------------------------------------------
(* The chain changes.                                                      *)

\* The transactions of the block are accepted again, or what spends them is
\* removed; chainActive is not moved before that.
\* Variant for mutation: the anchor that goes is not looked at.
DisconnectTipKeeps(p, b) ==
    LET prev == Blocks[b].prev
        Resurrect(q, t) == {IF r.ok THEN r.pool ELSE remove(r.pool, t, TRUE) :
                                r \in AcceptToMemoryPool(q, t, prev, Blocks[b].height, FALSE)} IN
    FoldLeft(LAMBDA S, t : UNION {Resurrect(q, t) : q \in S}, {remove(p, b, TRUE)}, Blocks[b].vtx)
DisconnectTip(p, b) ==
    LET prev == Blocks[b].prev
        Resurrect(q, t) == {IF r.ok THEN r.pool ELSE remove(r.pool, t, TRUE) :
                                r \in AcceptToMemoryPool(q, t, prev, Blocks[b].height, FALSE)}
        resurrected == FoldLeft(LAMBDA S, t : UNION {Resurrect(q, t) : q \in S}, {remove(p, b, TRUE)}, Blocks[b].vtx) IN
    IF Root(b) = Root(prev) THEN resurrected ELSE {removeWithAnchor(q, Root(b)) : q \in resurrected}

ConnectTip(p, b) == removeExpired(removeForBlock(p, Blocks[b].vtx), Blocks[b].height)

RECURSIVE DisconnectTo(_, _, _)
DisconnectTo(p, b, fork) ==
    IF b = fork THEN {p} ELSE UNION {DisconnectTo(q, Blocks[b].prev, fork) : q \in DisconnectTip(p, b)}

\* The end of ActivateBestChainStep and of InvalidateBlock.
Tidy(p, b, fBlocksDisconnected) ==
    removeWithoutBranchId(IF fBlocksDisconnected THEN removeForReorg(p, b) ELSE p,
                          CurrentEpochBranchId(Blocks[b].height + 1))

OnPath(b, c) == b \in ToSet(Path[c])
FindFork == [a, b \in DOMAIN Blocks |-> Last(SelectSeq(Path[a], LAMBDA c : OnPath(c, b)))]
ToConnect == [a, b \in DOMAIN Blocks |->
    SelectSeq(Path[b], LAMBDA c : /\ Blocks[c].height > Blocks[FindFork[a, b]].height
                                  /\ Blocks[c].height <= Blocks[a].height + 1)]
ActivateBestChainStep(target) ==
    LET fork == FindFork[tip, target]
        toConnect == ToConnect[tip, target]
        bad == SelectInSeq(toConnect, LAMBDA b : ~Blocks[b].valid)
        connected == IF bad = 0 THEN toConnect ELSE SubSeq(toConnect, 1, bad - 1)
        newTip == IF connected = <<>> THEN fork ELSE Last(connected) IN
    /\ Blocks[target].height > Blocks[tip].height
    /\ ~\E b \in failed : OnPath(b, target)
    /\ \E p \in DisconnectTo(pool, tip, fork) :
         pool' = Tidy(FoldLeft(ConnectTip, p, connected), newTip, fork # tip)
    /\ tip' = newTip
    /\ failed' = IF bad = 0 THEN failed ELSE failed \cup {toConnect[bad]}
    /\ UNCHANGED <<orphans, rejects, now>>

InvalidateBlock(b) ==
    LET newTip == IF OnPath(b, tip) THEN Blocks[b].prev ELSE tip IN
    /\ b # Genesis /\ b \notin failed
    /\ \E p \in DisconnectTo(pool, tip, newTip) : pool' = Tidy(p, newTip, TRUE)
    /\ tip' = newTip
    /\ failed' = failed \cup {b}
    /\ UNCHANGED <<orphans, rejects, now>>

-----------------------------------------------------------------------------
(* The "tx" message, and orphans.                                          *)

Parents(t) == {o[1] : o \in In[t]}
ByPrev(t) == IF t \in DOMAIN mapOrphanTransactionsByPrev THEN mapOrphanTransactionsByPrev[t] ELSE {}

\* EraseOrphanTx of each of these; an entry by parent that is empty goes.
EraseOrphans(S) ==
    /\ mapOrphanTransactions' = [t \in DOMAIN mapOrphanTransactions \ S |-> mapOrphanTransactions[t]]
    /\ mapOrphanTransactionsByPrev' =
         [u \in {v \in DOMAIN mapOrphanTransactionsByPrev : ~mapOrphanTransactionsByPrev[v] \subseteq S} |->
             mapOrphanTransactionsByPrev[u] \ S]

\* AddOrphanTx, and LimitOrphanTxSize that may put out any other.
AddOrphanTx(t, peer, out) ==
    LET stored == [u \in DOMAIN mapOrphanTransactions \cup {t} |->
                      IF u = t THEN peer ELSE mapOrphanTransactions[u]]
        byPrev == [v \in DOMAIN mapOrphanTransactionsByPrev \cup Parents(t) |->
                      ByPrev(v) \cup (IF v \in Parents(t) THEN {t} ELSE {})] IN
    /\ mapOrphanTransactions' = [u \in DOMAIN stored \ out |-> stored[u]]
    /\ mapOrphanTransactionsByPrev' = [v \in {w \in DOMAIN byPrev : ~byPrev[w] \subseteq out} |-> byPrev[v] \ out]

\* Orphans of what was accepted are tried, and theirs in turn:
\* h is [pool, work, erase, rejected].
RECURSIVE ProcessOrphans(_, _)
ProcessOrphans(h, i) ==
    LET After(g, t, r) ==
            IF r.ok THEN [pool |-> r.pool, work |-> Append(g.work, t), erase |-> g.erase \cup {t}, rejected |-> g.rejected]
            ELSE IF r.missing THEN [g EXCEPT !.pool = r.pool]
            ELSE [g EXCEPT !.pool = r.pool, !.erase = @ \cup {t}, !.rejected = @ \cup {t}]
        Try(g, t) == {After(g, t, r) : r \in AcceptToMemoryPool(g.pool, t, tip, Blocks[tip].height, TRUE)} IN
    IF i > Len(h.work) THEN {h}
    ELSE UNION {ProcessOrphans(g, i + 1) :
                    g \in FoldSet(LAMBDA t, S : UNION {Try(g, t) : g \in S}, {h}, ByPrev(h.work[i]))}

\* AlreadyHave forgets the rejected ones when the tip has changed.
Rejects == IF tip = hashRecentRejectsChainTip THEN recentRejects ELSE {}
AlreadyHave(t) ==
    t \in Rejects \/ t \in Pooled(pool) \/ t \in DOMAIN mapOrphanTransactions \/ HaveCoins(tip, t)

TxMessage(t, peer) ==
    /\ hashRecentRejectsChainTip' = tip
    /\ \E r \in IF AlreadyHave(t) THEN {[pool |-> pool, ok |-> FALSE, missing |-> FALSE]}
                ELSE AcceptToMemoryPool(pool, t, tip, Blocks[tip].height, TRUE) :
         \/ /\ r.ok
            /\ \E h \in ProcessOrphans([pool |-> r.pool, work |-> <<t>>, erase |-> {}, rejected |-> {}], 1) :
                 /\ pool' = h.pool
                 /\ EraseOrphans(h.erase)
                 /\ recentRejects' = Rejects \cup h.rejected
         \/ /\ r.missing /\ Nullifiers[t] = {} /\ t \notin HasCommitment
            /\ pool' = r.pool /\ recentRejects' = Rejects
            /\ \/ MemUsage[t] > MaxOrphanSize /\ UNCHANGED orphans
               \/ /\ MemUsage[t] <= MaxOrphanSize
                  /\ \E out \in SUBSET (DOMAIN mapOrphanTransactions \cup {t}) :
                       /\ Cardinality(out) = Max({0, Cardinality(DOMAIN mapOrphanTransactions) + 1 - nMaxOrphanTx})
                       /\ AddOrphanTx(t, peer, out)
         \/ /\ ~r.ok /\ ~(r.missing /\ Nullifiers[t] = {} /\ t \notin HasCommitment)
            /\ pool' = r.pool /\ recentRejects' = Rejects \cup {t}
            /\ UNCHANGED orphans
    /\ UNCHANGED <<tip, failed, now>>

\* FinalizeNode
EraseOrphansFor(peer) ==
    /\ peer \in {mapOrphanTransactions[t] : t \in DOMAIN mapOrphanTransactions}
    /\ EraseOrphans({t \in DOMAIN mapOrphanTransactions : mapOrphanTransactions[t] = peer})
    /\ UNCHANGED <<tip, failed, pool, rejects, now>>

sendrawtransaction(t) ==
    /\ t \notin Pooled(pool) /\ ~HaveCoins(tip, t)
    /\ \E r \in AcceptToMemoryPool(pool, t, tip, Blocks[tip].height, FALSE) : pool' = r.pool
    /\ UNCHANGED <<tip, failed, orphans, rejects, now>>

Tick == now < MaxTime /\ now' = now + 1 /\ UNCHANGED <<tip, failed, pool, orphans, rejects>>

Next ==
    \/ \E b \in DOMAIN Blocks : ActivateBestChainStep(b)
    \/ \E b \in Invalidated : InvalidateBlock(b)
    \/ \E t \in Received, peer \in Peers : TxMessage(t, peer)
    \/ \E t \in Own : sendrawtransaction(t)
    \/ \E peer \in Peers : EraseOrphansFor(peer)
    \/ Tick

Spec == Init /\ [][Next]_vars

-----------------------------------------------------------------------------
(* CreateNewBlock: transactions leave the queue in order of priority, and   *)
(* in order of fee once the block has its share of those; one that spends  *)
(* others of the pool enters the queue when all of them are in the block.  *)
(* s is [vtx, size, fSortedByFee, vecPriority, waiting].                   *)

\* Variant for mutation: a depender enters the queue with its first parent.
ReadyEarly(t, vtx, depends) == depends[t] \cap vtx # {}
Ready(t, vtx, depends) == depends[t] \subseteq vtx

Before(t, u, fSortedByFee) == IF fSortedByFee THEN FeeRank[t] >= FeeRank[u] ELSE PriorityRank[t] >= PriorityRank[u]

RECURSIVE Collect(_, _)
Collect(s, depends) ==
    LET t == CHOOSE u \in s.vecPriority : \A v \in s.vecPriority : Before(u, v, s.fSortedByFee)
        block == ToSet(s.vtx)
        size == s.size + MemUsage[t]
        skipped == size >= nBlockMaxSize \/ (s.fSortedByFee /\ t \in Free /\ size >= nBlockMinSize)
        sorted == s.fSortedByFee \/ (~skipped /\ (size >= nBlockPrioritySize \/ t \notin AllowFree))
        valid == /\ In[t] \subseteq (Unspent[tip] \cup UNION {Outpoints(u) : u \in block}) \ UNION {In[u] : u \in block}
                 /\ Nullifiers[t] \cap (NullifiersAt[tip] \cup UNION {Nullifiers[u] : u \in block}) = {}
                 /\ Anchor[t] # None => Root(Anchor[t]) \in AnchorsAt[tip]
                 /\ Mature(t, tip)
                 /\ Branch[t] = CurrentEpochBranchId(Blocks[tip].height + 1)
        ready == {u \in s.waiting : t \in depends[u] /\ Ready(u, block \cup {t}, depends)}
        popped == [s EXCEPT !.vecPriority = @ \ {t}, !.fSortedByFee = sorted] IN
    IF s.vecPriority = {} THEN s
    ELSE IF skipped \/ ~valid THEN Collect(popped, depends)
    ELSE Collect([popped EXCEPT !.vtx = Append(@, t), !.size = size,
                                !.vecPriority = @ \cup ready, !.waiting = @ \ ready], depends)

Candidates == {t \in Pooled(pool) : LET nHeight == Blocks[tip].height + 1 IN
                                        IsFinalTx(t, nHeight) /\ ~IsExpiredTx(t, nHeight)}
CreateNewBlock ==
    LET depends == [t \in Candidates |-> {u \in Parents(t) : ~HaveCoins(tip, u)}]
        free == {t \in Candidates : depends[t] = {}} IN
    Collect([vtx |-> <<>>, size |-> BaseSize, fSortedByFee |-> nBlockPrioritySize = 0,
             vecPriority |-> free, waiting |-> Candidates \ free], depends)

-----------------------------------------------------------------------------
(* Properties.                                                             *)

(* Orphans are found again (AddOrphanTx, EraseOrphanTx, LimitOrphanTxSize):
   every orphan is entered under each of its parents, nothing else is, and
   there are never more than -maxorphantx. *)
OrphansIndexed ==
    /\ mapOrphanTransactionsByPrev =
         [u \in UNION {Parents(t) : t \in DOMAIN mapOrphanTransactions} |->
             {t \in DOMAIN mapOrphanTransactions : u \in Parents(t)}]
    /\ Cardinality(DOMAIN mapOrphanTransactions) <= nMaxOrphanTx

(* What check() asserts, and what the pool is for: whatever transactions,
   blocks, reorganisations and evictions come, every transaction of the pool
   spends coins of the tip or outputs of the pool that nothing else spends, is
   anchored in the active chain, spends no immature coinbase, and is final and
   signed for the branch of the next block; and orphans are found again (AcceptToMemoryPool, DisconnectTip,
   ConnectTip, removeForReorg, removeWithAnchor, removeWithoutBranchId, AddOrphanTx). *)
PoolConsistent ==
    /\ PoolMatchesCoins(pool, tip)
    /\ \A t \in Pooled(pool) : /\ IsFinalTx(t, Blocks[tip].height + 1)
                               /\ Branch[t] = CurrentEpochBranchId(Blocks[tip].height + 1)
    /\ OrphansIndexed

(* What was evicted stays out while it is remembered (RecentlyEvictedList): no
   transaction of the list is in the pool, not even after a reorganisation, and
   the set that is asked agrees with the queue that is pruned. *)
EvictedStaysOut ==
    LET list == pool.recentlyEvicted IN
    /\ list.txIdSet \cap Pooled(pool) = {}
    /\ list.txIdSet = {list.txIdsAndTimes[i].txId : i \in DOMAIN list.txIdsAndTimes}
    /\ Cardinality(list.txIdSet) = Len(list.txIdsAndTimes)

(* The limit works (EnsureSizeLimit, WeightedTxTree): the tree holds exactly
   the pool, its cost stays below the limit, and it would drop every
   transaction with the probability its eviction weight gives it; what it
   dropped stays out. *)
EvictsByWeight ==
    LET tree == pool.weightedTxTree IN
    /\ ToSet(tree.txIds) = Pooled(pool) /\ Len(tree.txIds) = Cardinality(Pooled(pool))
    /\ GetWeightAt(tree, 1).cost <= CostLimit
    /\ DropsByWeight(tree)
    /\ EvictedStaysOut

(* The miner leaves nothing behind (CreateNewBlock): the template follows the
   order of dependencies, and a transaction of the pool that may be in the next
   block is in the template unless it does not fit, pays too little, or spends
   one that is not in it. *)
TemplateComplete ==
    LET template == CreateNewBlock
        block == ToSet(template.vtx) IN
    /\ \A i \in DOMAIN template.vtx :
         Parents(template.vtx[i]) \cap Pooled(pool) \subseteq {template.vtx[j] : j \in 1..(i - 1)}
    /\ \A t \in Candidates \ block :
         \/ template.size + MemUsage[t] >= nBlockMaxSize
         \/ t \in Free
         \/ ~Parents(t) \cap Pooled(pool) \subseteq block
=============================================================================
