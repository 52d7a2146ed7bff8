--------------------------- MODULE WeightedTxTree ---------------------------
(***************************************************************************)
(* The limit on the memory pool (mempool_limit.cpp): a complete binary     *)
(* tree of transactions in a vector, each node with the sum of the weights *)
(* below it, from which a transaction is dropped at random with a          *)
(* probability proportional to its eviction weight; and the list of the    *)
(* transactions that were dropped.                                         *)
(*                                                                         *)
(* A tree is [txIds, childWeights], two sequences; index i here is index   *)
(* i - 1 of the vectors, so the parent of i is i \div 2.                   *)
(***************************************************************************)
EXTENDS Integers, SequencesExt

CONSTANTS
    Txs,                \* transactions
    MemUsage,           \* the memory each of them uses
    LowFee,             \* the ones that pay less than DEFAULT_FEE
    MIN_TX_COST,
    LOW_FEE_PENALTY,
    CostLimit,          \* capacity of the tree
    EVICTION_MEMORY_ENTRIES,
    TimeToKeep

ASSUME WeightAssumption ==
    /\ MemUsage \in [Txs -> Nat] /\ LowFee \subseteq Txs
    /\ MIN_TX_COST \in Nat \ {0} /\ LOW_FEE_PENALTY \in Nat /\ CostLimit \in Nat
ASSUME EvictionAssumption == EVICTION_MEMORY_ENTRIES \in Nat \ {0} /\ TimeToKeep \in Nat

ZERO_WEIGHT == [cost |-> 0, evictionWeight |-> 0]
AddWeight(v, w) == [cost |-> v.cost + w.cost, evictionWeight |-> v.evictionWeight + w.evictionWeight]
Negate(w) == [cost |-> -w.cost, evictionWeight |-> -w.evictionWeight]

WeightedTxInfo(t) ==
    LET cost == Max({MemUsage[t], MIN_TX_COST}) IN
    [cost |-> cost, evictionWeight |-> cost + IF t \in LowFee THEN LOW_FEE_PENALTY ELSE 0]

EmptyTree == [txIds |-> <<>>, childWeights |-> <<>>]
Size(tree) == Len(tree.txIds)

GetWeightAt(tree, i) ==
    IF i <= Size(tree) THEN AddWeight(WeightedTxInfo(tree.txIds[i]), tree.childWeights[i]) ELSE ZERO_WEIGHT

RECURSIVE BackPropagate(_, _, _)
BackPropagate(childWeights, i, delta) ==
    IF i <= 1 THEN childWeights
    ELSE BackPropagate([childWeights EXCEPT ![i \div 2] = AddWeight(@, delta)], i \div 2, delta)

AddToTree(tree, t) ==
    IF t \in ToSet(tree.txIds) THEN tree
    ELSE [txIds |-> Append(tree.txIds, t),
          childWeights |-> BackPropagate(Append(tree.childWeights, ZERO_WEIGHT), Size(tree) + 1, WeightedTxInfo(t))]

\* The last node takes the place of the one that is removed.
\* Variant for mutation: the nodes above that place keep their sums.
RemoveAndForget(tree, t) ==
    IF t \notin ToSet(tree.txIds) THEN tree
    ELSE LET i == SelectInSeq(tree.txIds, LAMBDA u : u = t)
             last == Last(tree.txIds)
             children == BackPropagate(tree.childWeights, Size(tree), Negate(WeightedTxInfo(last))) IN
         [txIds |-> Front([tree.txIds EXCEPT ![i] = last]), childWeights |-> Front(children)]
RemoveFromTree(tree, t) ==
    IF t \notin ToSet(tree.txIds) THEN tree
    ELSE LET i == SelectInSeq(tree.txIds, LAMBDA u : u = t)
             last == Last(tree.txIds)
             children == BackPropagate(tree.childWeights, Size(tree), Negate(WeightedTxInfo(last)))
             delta == AddWeight(WeightedTxInfo(last), Negate(WeightedTxInfo(t))) IN
         [txIds |-> Front([tree.txIds EXCEPT ![i] = last]),
          childWeights |-> Front(IF i < Size(tree) THEN BackPropagate(children, i, delta) ELSE children)]

\* 0 stands for an index outside the vectors.
RECURSIVE FindByEvictionWeight(_, _, _)
FindByEvictionWeight(tree, i, weightToFind) ==
    LET leftWeight == GetWeightAt(tree, 2 * i).evictionWeight
        rightWeight == GetWeightAt(tree, i).evictionWeight - GetWeightAt(tree, 2 * i + 1).evictionWeight IN
    IF i > Size(tree) THEN 0
    ELSE IF weightToFind < leftWeight THEN FindByEvictionWeight(tree, 2 * i, weightToFind)
    ELSE IF weightToFind < rightWeight THEN i
    ELSE FindByEvictionWeight(tree, 2 * i + 1, weightToFind - rightWeight)

RandomWeights(tree) == 0..(GetWeightAt(tree, 1).evictionWeight - 1)
\* The transactions maybeDropRandom may drop; none below the limit.
MaybeDropRandom(tree) ==
    IF GetWeightAt(tree, 1).cost <= CostLimit THEN {}
    ELSE {tree.txIds[FindByEvictionWeight(tree, 1, w)] : w \in RandomWeights(tree)}

-----------------------------------------------------------------------------
(* RecentlyEvictedList: pairs in order of time, and the set of their ids.   *)

NoEvicted == [txIdsAndTimes |-> <<>>, txIdSet |-> {}]
PopFront(list) ==
    [txIdsAndTimes |-> Tail(list.txIdsAndTimes), txIdSet |-> list.txIdSet \ {Head(list.txIdsAndTimes).txId}]
RECURSIVE PruneList(_, _)
PruneList(list, now) ==
    IF list.txIdsAndTimes # <<>> /\ now - Head(list.txIdsAndTimes).time > TimeToKeep
    THEN PruneList(PopFront(list), now) ELSE list
AddEvicted(list, t, now) ==
    LET pruned == PruneList(list, now)
        room == IF Len(pruned.txIdsAndTimes) = EVICTION_MEMORY_ENTRIES THEN PopFront(pruned) ELSE pruned IN
    [txIdsAndTimes |-> Append(room.txIdsAndTimes, [txId |-> t, time |-> now]),
     txIdSet |-> room.txIdSet \cup {t}]

-----------------------------------------------------------------------------
(* What the tree promises: every transaction is found by exactly as many
   random numbers as its eviction weight, so that maybeDropRandom drops with
   the probabilities mempool_limit.h speaks of. *)
DropsByWeight(tree) ==
    \A i \in DOMAIN tree.txIds :
        Cardinality({w \in RandomWeights(tree) : FindByEvictionWeight(tree, 1, w) = i})
            = WeightedTxInfo(tree.txIds[i]).evictionWeight
=============================================================================
