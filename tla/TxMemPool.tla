----------------------------- MODULE TxMemPool ------------------------------
(***************************************************************************)
(* The memory pool (txmempool.cpp) as operators on a pool: every method    *)
(* that changes the pool, with the indices it keeps beside the             *)
(* transactions.  All of it runs under the pool's cs.                      *)
(*                                                                         *)
(* A transaction has transparent inputs and outputs, nullifiers, an anchor *)
(* and perhaps a shielded output.  A block is [prev, height, vtx, valid];  *)
(* its coinbase has the block's own name.  The coins database at a block   *)
(* is what the chain up to it makes of it (CoinsCache and BlockConnect     *)
(* are about how it gets there).                                           *)
(***************************************************************************)
EXTENDS WeightedTxTree

CONSTANTS
    In,             \* outpoints a transaction spends: <<transaction, n>>
    Nullifiers,     \* nullifiers it reveals
    Anchor,         \* block whose final root it is anchored at, or None
    HasCommitment,  \* transactions with a shielded output
    Expiry,         \* nExpiryHeight, 0 for none
    LockTime,       \* nLockTime, a height, 0 for none
    Blocks,         \* block -> [prev, height, vtx, valid], of the whole block tree
    None,
    nCoinbaseMaturity,
    UpgradeHeight,  \* first height of the second consensus branch
    Branch          \* consensus branch a transaction is signed for

Genesis == CHOOSE b \in DOMAIN Blocks : Blocks[b].prev = None
IsCoinBase(t) == t \in DOMAIN Blocks
CurrentEpochBranchId(height) == IF height < UpgradeHeight THEN 1 ELSE 2
IsFinalTx(t, height) == LockTime[t] = 0 \/ LockTime[t] < height
IsExpiredTx(t, height) == Expiry[t] # 0 /\ height > Expiry[t]

-----------------------------------------------------------------------------
(* The coins database at a block.                                          *)

RECURSIVE PathTo(_)
PathTo(b) == IF b = Genesis THEN <<b>> ELSE Append(PathTo(Blocks[b].prev), b)
Path == [b \in DOMAIN Blocks |-> PathTo(b)]
Confirmed == [b \in DOMAIN Blocks |-> UNION {ToSet(Blocks[c].vtx) : c \in ToSet(Path[b])}]
\* every transaction has two outputs, a coinbase one
Outpoints(t) == IF IsCoinBase(t) THEN {<<t, 1>>} ELSE {<<t, 1>>, <<t, 2>>}
Unspent == [b \in DOMAIN Blocks |->
               UNION {Outpoints(t) : t \in Confirmed[b] \cup ToSet(Path[b])} \ UNION {In[t] : t \in Confirmed[b]}]
HaveCoins(b, t) == Outpoints(t) \cap Unspent[b] # {}
NullifiersAt == [b \in DOMAIN Blocks |-> UNION {Nullifiers[t] : t \in Confirmed[b]}]
Root(b) == Confirmed[b] \cap HasCommitment
AnchorsAt == [b \in DOMAIN Blocks |-> {Root(c) : c \in ToSet(Path[b])}]
Mature(t, b) == \A o \in In[t] : IsCoinBase(o[1]) => Blocks[b].height + 1 - Blocks[o[1]].height >= nCoinbaseMaturity

-----------------------------------------------------------------------------
(* mapTx holds, for each transaction, what its entry remembers.            *)

Empty == [x \in {} |-> None]
EmptyPool ==
    [mapTx |-> Empty, mapNextTx |-> Empty, mapNullifiers |-> Empty,
     totalTxSize |-> 0, weightedTxTree |-> EmptyTree, recentlyEvicted |-> NoEvicted]
Pooled(p) == DOMAIN p.mapTx

addUnchecked(p, t, spendsCoinbase, branchId) ==
    [p EXCEPT !.weightedTxTree = AddToTree(@, t),
              !.mapTx = [u \in DOMAIN @ \cup {t} |->
                            IF u = t THEN [spendsCoinbase |-> spendsCoinbase, branchId |-> branchId] ELSE @[u]],
              !.mapNextTx = [o \in DOMAIN @ \cup In[t] |-> IF o \in In[t] THEN t ELSE @[o]],
              !.mapNullifiers = [n \in DOMAIN @ \cup Nullifiers[t] |-> IF n \in Nullifiers[t] THEN t ELSE @[n]],
              !.totalTxSize = @ + MemUsage[t]]

\* The transactions that spend outputs of these, and so on.
RECURSIVE WithChildren(_, _)
WithChildren(p, S) ==
    LET children == {p.mapNextTx[o] : o \in DOMAIN p.mapNextTx \cap UNION {Outpoints(t) : t \in S}} IN
    IF children \subseteq S THEN S ELSE WithChildren(p, S \cup children)

remove(p, t, fRecursive) ==
    LET removed == (IF fRecursive THEN WithChildren(p, {t}) ELSE {t}) \cap Pooled(p) IN
    [p EXCEPT !.mapTx = [u \in DOMAIN @ \ removed |-> @[u]],
              !.mapNextTx = [o \in DOMAIN @ \ UNION {In[u] : u \in removed} |-> @[o]],
              !.mapNullifiers = [n \in DOMAIN @ \ UNION {Nullifiers[u] : u \in removed} |-> @[n]],
              !.totalTxSize = @ - MapThenSumSet(LAMBDA u : MemUsage[u], removed),
              !.weightedTxTree = FoldSet(LAMBDA u, tree : RemoveFromTree(tree, u), @, removed)]
removeAll(p, S) == FoldSet(LAMBDA t, q : remove(q, t, TRUE), p, S)

removeForReorg(p, b) ==
    removeAll(p, {t \in Pooled(p) :
        \/ ~IsFinalTx(t, Blocks[b].height + 1)
        \/ /\ p.mapTx[t].spendsCoinbase
           /\ \E o \in In[t] :
                /\ o[1] \notin Pooled(p)
                /\ \/ ~HaveCoins(b, o[1])
                   \/ IsCoinBase(o[1]) /\ Blocks[b].height + 1 - Blocks[o[1]].height < nCoinbaseMaturity})

removeWithAnchor(p, root) ==
    removeAll(p, {t \in Pooled(p) : Anchor[t] # None /\ Root(Anchor[t]) = root})

\* The spender of an input, or the revealer of a nullifier, of a transaction
\* of a block.
removeConflicts(p, t) ==
    LET Spender(q, o) == IF o \in DOMAIN q.mapNextTx /\ q.mapNextTx[o] # t
                         THEN remove(q, q.mapNextTx[o], TRUE) ELSE q
        Revealer(q, n) == IF n \in DOMAIN q.mapNullifiers /\ q.mapNullifiers[n] # t
                          THEN remove(q, q.mapNullifiers[n], TRUE) ELSE q IN
    FoldSet(LAMBDA n, q : Revealer(q, n), FoldSet(LAMBDA o, q : Spender(q, o), p, In[t]), Nullifiers[t])
removeForBlock(p, vtx) ==
    FoldLeft(LAMBDA q, t : removeConflicts(remove(q, t, FALSE), t), p, vtx)

removeExpired(p, height) == removeAll(p, {t \in Pooled(p) : IsExpiredTx(t, height)})
removeWithoutBranchId(p, branchId) == removeAll(p, {t \in Pooled(p) : p.mapTx[t].branchId # branchId})

\* The pools that random eviction may leave.
RECURSIVE EnsureSizeLimit(_, _)
EnsureSizeLimit(p, now) ==
    LET drops == MaybeDropRandom(p.weightedTxTree)
        Drop(t) == remove([p EXCEPT !.weightedTxTree = RemoveFromTree(@, t),
                                    !.recentlyEvicted = AddEvicted(@, t, now)], t, TRUE) IN
    IF drops = {} THEN {p} ELSE UNION {EnsureSizeLimit(Drop(t), now) : t \in drops}

-----------------------------------------------------------------------------
(* What check() asserts of a pool and the coins database at block b.       *)

PoolMatchesCoins(p, b) ==
    /\ \A t \in Pooled(p) :
         /\ \A o \in In[t] : IF o[1] \in Pooled(p) THEN o \in Outpoints(o[1]) ELSE o \in Unspent[b]
         /\ \A o \in In[t] : o \in DOMAIN p.mapNextTx /\ p.mapNextTx[o] = t
         /\ Nullifiers[t] \cap NullifiersAt[b] = {}
         /\ Anchor[t] # None => Root(Anchor[t]) \in AnchorsAt[b]
         /\ Mature(t, b)
    /\ \A o \in DOMAIN p.mapNextTx : p.mapNextTx[o] \in Pooled(p) /\ o \in In[p.mapNextTx[o]]
    /\ \A n \in DOMAIN p.mapNullifiers : p.mapNullifiers[n] \in Pooled(p) /\ n \in Nullifiers[p.mapNullifiers[n]]
    /\ p.totalTxSize = MapThenSumSet(LAMBDA t : MemUsage[t], Pooled(p))
=============================================================================
