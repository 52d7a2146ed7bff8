----------------------------- MODULE ChainState -----------------------------
(***************************************************************************)
(* The block index and the choice of the active chain (src/src/main.cpp):  *)
(* which headers and blocks a node knows, which of them it could switch    *)
(* to, and the switch itself.                                              *)
(*                                                                         *)
(* Every action below is one critical section of cs_main.  The threads     *)
(* that deliver blocks and the RPC threads release cs_main between         *)
(* storing a block (or changing its status) and ActivateBestChain, and     *)
(* again after each step of ActivateBestChain, so the sections of several  *)
(* threads interleave freely.                                              *)
(*                                                                         *)
(* A CBlockIndex is a member of Blocks.  A bit of its nStatus, nTx # 0 and *)
(* nChainTx # 0 are sets of blocks.  The tree is known in advance by its   *)
(* hashes: Parent is pprev, Ancestors[b] the chain from the genesis block  *)
(* to b, ChainWork is nChainWork.                                          *)
(***************************************************************************)
EXTENDS Integers, FiniteSets

CONSTANTS
    Blocks,            \* every block that may ever be offered to a node
    Genesis,
    Parent,            \* pprev
    Ancestors,         \* the chain that ends in a block, that block included
    Height,            \* nHeight
    ChainWork,         \* nChainWork
    Nodes              \* nodes: what they are offered, their limits and bounds

ASSUME TreeAssumption ==
    /\ IsFiniteSet(Blocks)
    /\ Genesis \in Blocks
    /\ Parent \in [Blocks \ {Genesis} -> Blocks]
    /\ Ancestors \in [Blocks -> SUBSET Blocks]
    /\ Height \in [Blocks -> Nat]
    /\ ChainWork \in [Blocks -> Nat]
    /\ Ancestors[Genesis] = {Genesis}
    /\ Height[Genesis] = 0
    /\ \A b \in Blocks \ {Genesis} :
         /\ b \notin Ancestors[Parent[b]]
         /\ Ancestors[b] = Ancestors[Parent[b]] \cup {b}
         /\ Height[b] = Height[Parent[b]] + 1
         /\ ChainWork[Parent[b]] < ChainWork[b]

\* The genesis block is not a sensible argument of the RPCs: it cannot be
\* disconnected.  chainparams.cpp: nCoinbaseMaturity is 100 or 2; main.h: 288
\* blocks are kept.
ASSUME NodeAssumption ==
    /\ Nodes \subseteq [Arriving: SUBSET (Blocks \ {Genesis}),
                        BadBlocks: SUBSET (Blocks \ {Genesis}),
                        BadScripts: SUBSET (Blocks \ {Genesis}),
                        Invalidated: SUBSET (Blocks \ {Genesis}),
                        Reconsidered: SUBSET (Blocks \ {Genesis}),
                        MAX_REORG_LENGTH: Nat \ {0}, MIN_BLOCKS_TO_KEEP: Nat,
                        Threads: Nat \ {0}, MaxRpcs: Nat, MaxSequenceId: Nat \ {0},
                        MaxPrunes: Nat]
    /\ \A n \in Nodes : n.MAX_REORG_LENGTH < n.MIN_BLOCKS_TO_KEEP

VARIABLES
    mapBlockIndex,            \* the blocks whose header is known
    haveData, haveUndo,       \* BLOCK_HAVE_DATA, BLOCK_HAVE_UNDO
    failedValid, failedChild, \* BLOCK_FAILED_VALID, BLOCK_FAILED_CHILD
    received,                 \* nTx > 0, which is BLOCK_VALID_TRANSACTIONS
    scriptsValid,             \* BLOCK_VALID_SCRIPTS
    linked,                   \* nChainTx > 0
    nSequenceId,
    nBlockSequenceId,
    setBlockIndexCandidates,
    mapBlocksUnlinked,        \* the values; the key of b is always Parent[b]
    tip,                      \* chainActive.Tip(): chainActive is Ancestors[tip]
    entering,                 \* threads about to call ActivateBestChain
    looping,                  \* threads between two rounds of its loop
    fRequestShutdown,
    rpcs, prunes,             \* calls made so far, for the bounds
    node                      \* the node, which stays the same

status == <<haveData, haveUndo, failedValid, failedChild, received,
            scriptsValid, linked>>
order == <<nSequenceId, nBlockSequenceId>>
vars == <<mapBlockIndex, status, order, setBlockIndexCandidates,
          mapBlocksUnlinked, tip, entering, looping, fRequestShutdown, rpcs, prunes, node>>

-----------------------------------------------------------------------------
Arriving == node.Arriving          \* bound: the blocks that peers send
BadBlocks == node.BadBlocks        \* blocks that fail ContextualCheckBlock
BadScripts == node.BadScripts      \* blocks that ConnectBlock finds invalid
Invalidated == node.Invalidated    \* arguments of invalidateblock
Reconsidered == node.Reconsidered  \* arguments of reconsiderblock
MAX_REORG_LENGTH == node.MAX_REORG_LENGTH  \* nCoinbaseMaturity - 1
MIN_BLOCKS_TO_KEEP == node.MIN_BLOCKS_TO_KEEP
Threads == node.Threads            \* bound: threads in ActivateBestChain at a time
MaxRpcs == node.MaxRpcs            \* bound: calls of the two RPCs
MaxSequenceId == node.MaxSequenceId  \* bound: values of nBlockSequenceId
MaxPrunes == node.MaxPrunes        \* bound: block files deleted

-----------------------------------------------------------------------------
(* Reading the index.                                                      *)

Highest(S) == CHOOSE b \in S : \A c \in S : Height[c] <= Height[b]
Lowest(S) == CHOOSE b \in S : \A c \in S : Height[b] <= Height[c]

\* BLOCK_FAILED_MASK
Failed == failedValid \cup failedChild

\* CBlockIndexWorkComparator: b sorts before c.  Two blocks received in one
\* run never have the same sequence number, so the comparison of addresses
\* that ends the operator is not reached.
WorseBy(id, b, c) ==
    \/ ChainWork[b] < ChainWork[c]
    \/ ChainWork[b] = ChainWork[c] /\ id[b] > id[c]

Worse(b, c) == WorseBy(nSequenceId, b, c)

\* The blocks from the active chain up to b, and those of them that stop a
\* switch to b.
Path(b) == Ancestors[b] \ Ancestors[tip]
Unusable(b) == {c \in Path(b) : c \in Failed \/ c \notin haveData}

-----------------------------------------------------------------------------
(* InitBlockIndex, and the ActivateBestChain that follows it: the genesis   *)
(* block is stored, linked and connected.  ConnectBlock returns early for   *)
(* it, before it writes undo data or raises its validity.                   *)

Init ==
    /\ node \in Nodes
    /\ mapBlockIndex = {Genesis}
    /\ haveData = {Genesis}
    /\ haveUndo = {}
    /\ failedValid = {}
    /\ failedChild = {}
    /\ received = {Genesis}
    /\ scriptsValid = {}
    /\ linked = {Genesis}
    /\ nSequenceId = [b \in Blocks |-> IF b = Genesis THEN 1 ELSE 0]
    /\ nBlockSequenceId = 2
    /\ setBlockIndexCandidates = {Genesis}
    /\ mapBlocksUnlinked = {}
    /\ tip = Genesis
    /\ entering = 0
    /\ looping = 0
    /\ fRequestShutdown = FALSE
    /\ rpcs = 0
    /\ prunes = 0

-----------------------------------------------------------------------------
(* Headers and blocks arrive.                                              *)

\* AcceptBlockHeader returns true: the header is known and not marked, or
\* its parent is.
HeaderAccepted(b) ==
    IF b \in mapBlockIndex
      THEN b \notin Failed
      ELSE Parent[b] \in mapBlockIndex /\ Parent[b] \notin Failed

\* A `headers' message: AcceptBlockHeader and AddToBlockIndex.
AcceptBlockHeader(b) ==
    /\ ~fRequestShutdown
    /\ b \notin mapBlockIndex
    /\ HeaderAccepted(b)
    /\ mapBlockIndex' = mapBlockIndex \cup {b}
    /\ UNCHANGED <<status, order, setBlockIndexCandidates, mapBlocksUnlinked,
                   tip, entering, looping, fRequestShutdown, rpcs, prunes>>

\* What the queue of ReceivedBlockTransactions reaches from b: b, and the
\* blocks all of whose ancestors above b wait in mapBlocksUnlinked.
NowLinked(b) ==
    {c \in Blocks : /\ b \in Ancestors[c]
                    /\ Ancestors[c] \ Ancestors[b] \subseteq mapBlocksUnlinked}

\* The queue is first in, first out, so a block gets its sequence number
\* after its ancestors and after every lower block; the order of two blocks
\* of one height is the order in which they entered the multimap.
SequenceIds(S) ==
    {id \in [S -> nBlockSequenceId .. nBlockSequenceId + Cardinality(S) - 1] :
        \A c, d \in S : /\ c # d => id[c] # id[d]
                        /\ Height[c] < Height[d] => id[c] < id[d]}

\* The entries of mapBlocksUnlinked whose key is in S.
WaitingFor(S) == {c \in mapBlocksUnlinked : Parent[c] \in S}

\* Blocks of S that are as good as the tip or better once they are numbered.
AsGoodAsTip(S, ids) == {c \in S : ~WorseBy(ids, c, tip)}

\* The first branch of ReceivedBlockTransactions: the parent is linked.
Link(b) ==
    \E id \in SequenceIds(NowLinked(b)) :
      LET ids == [c \in Blocks |-> IF c \in NowLinked(b) THEN id[c]
                                                         ELSE nSequenceId[c]]
      IN /\ nBlockSequenceId + Cardinality(NowLinked(b)) <= MaxSequenceId + 1
         /\ nSequenceId' = ids
         /\ nBlockSequenceId' = nBlockSequenceId + Cardinality(NowLinked(b))
         /\ linked' = linked \cup NowLinked(b)
         /\ setBlockIndexCandidates' = setBlockIndexCandidates
              \cup AsGoodAsTip(NowLinked(b), ids)
         /\ mapBlocksUnlinked' = mapBlocksUnlinked \ WaitingFor(NowLinked(b))

\* The second branch: a parent was never received; b waits for it.
Park(b) ==
    /\ mapBlocksUnlinked' = IF Parent[b] \in Failed THEN mapBlocksUnlinked
                                                  ELSE mapBlocksUnlinked \cup {b}
    /\ linked' = linked \ {b}
    /\ UNCHANGED <<order, setBlockIndexCandidates>>

ReceivedBlockTransactions(b) ==
    /\ haveData' = haveData \cup {b}
    /\ received' = received \cup {b}
    /\ IF Parent[b] \in linked THEN Link(b) ELSE Park(b)
    /\ UNCHANGED <<haveUndo, failedValid, failedChild, scriptsValid>>

\* The early returns of AcceptBlock: the block is stored already, or nobody
\* asked for it and it was pruned, has no more work than the tip or is too
\* far ahead of it.
Ignored(b, fRequested) ==
    \/ b \in haveData
    \/ ~fRequested /\ \/ b \in received
                      \/ ChainWork[b] <= ChainWork[tip]
                      \/ Height[b] > Height[tip] + MIN_BLOCKS_TO_KEEP

\* ProcessNewBlock up to the release of cs_main, with AcceptBlock.  Only if
\* AcceptBlock returns true does the thread go on to ActivateBestChain.
ProcessNewBlock(b, fRequested) ==
    /\ ~fRequestShutdown
    /\ entering + looping < Threads
    /\ HeaderAccepted(b)
    /\ mapBlockIndex' = mapBlockIndex \cup {b}
    /\ \/ /\ Ignored(b, fRequested)
          /\ entering' = entering + 1
          /\ UNCHANGED <<status, order, setBlockIndexCandidates, mapBlocksUnlinked>>
       \/ /\ ~Ignored(b, fRequested)
          /\ b \in BadBlocks
          /\ failedValid' = failedValid \cup {b}
          /\ UNCHANGED <<haveData, haveUndo, failedChild, received, scriptsValid,
                         linked, order, setBlockIndexCandidates,
                         mapBlocksUnlinked, entering>>
       \/ /\ ~Ignored(b, fRequested)
          /\ b \notin BadBlocks
          /\ ReceivedBlockTransactions(b)
          /\ entering' = entering + 1
    /\ UNCHANGED <<tip, looping, fRequestShutdown, rpcs, prunes>>

-----------------------------------------------------------------------------
(* FindMostWorkChain.  The loop takes the best candidate again and again    *)
(* until the path to one of them is usable.  Each candidate it passes over  *)
(* is dropped with every block down to the highest unusable block of its    *)
(* path; the blocks above that one become failed children, or wait for it   *)
(* if it only lacks its data.  Which candidates are passed over does not    *)
(* depend on the marks the loop makes, so the loop is stated at once.       *)

UsableCandidates == {c \in setBlockIndexCandidates : Unusable(c) = {}}
Best(S) == CHOOSE c \in S : \A d \in S \ {c} : Worse(d, c)

PassedOver ==
    {c \in setBlockIndexCandidates \ UsableCandidates :
        \A m \in UsableCandidates : Worse(m, c)}

\* The highest unusable block on the path to c, and the blocks above it.
Obstacle(c) == Highest(Unusable(c))
AboveObstacle(c) == {d \in Path(c) : Height[d] > Height[Obstacle(c)]}

Dropped == UNION {AboveObstacle(c) \cup {Obstacle(c)} : c \in PassedOver}
MarkedChildren ==
    UNION {AboveObstacle(c) : c \in {d \in PassedOver : Obstacle(d) \in Failed}}

SetAside ==
    UNION {AboveObstacle(c) : c \in {d \in PassedOver : Obstacle(d) \notin Failed}}

-----------------------------------------------------------------------------
(* ActivateBestChainStep towards the usable candidate m.                    *)

\* The active blocks above the fork, and those of them DisconnectTip cannot
\* disconnect because their data or their undo data is gone.
ToDisconnect(m) == Ancestors[tip] \ Ancestors[m]
Undisconnectable(S) == {b \in S : b \notin haveData \/ b \notin haveUndo}

\* Blocks are connected one by one: until one is invalid, until the tip is
\* better than the old tip, or until m.
StopsAt(m) ==
    LET stops == {b \in Path(m) : \/ b \in BadScripts
                                  \/ ChainWork[b] > ChainWork[tip]}
    IN  IF stops = {} THEN m ELSE Lowest(stops)
NewTip(m) == IF StopsAt(m) \in BadScripts THEN Parent[StopsAt(m)] ELSE StopsAt(m)
Connected(m) == Path(m) \cap Ancestors[NewTip(m)]

\* InvalidBlockFound
Invalid(m) == {StopsAt(m)} \cap BadScripts

\* PruneBlockIndexCandidates, after each block that is connected.
WorseThanNewTip(m) ==
    {c \in setBlockIndexCandidates : Connected(m) # {} /\ Worse(c, NewTip(m))}

\* Variant for mutation: the thread leaves after one round.
StayNot(first) == IF first THEN entering' = entering - 1 /\ looping' = looping
                           ELSE entering' = entering /\ looping' = looping - 1

\* The thread goes round the loop once more, or comes out of it; `first' if
\* this was its first round.
Stay(first) == IF first THEN entering' = entering - 1 /\ looping' = looping + 1
                        ELSE UNCHANGED <<entering, looping>>

Leave(first) == IF first THEN entering' = entering - 1 /\ looping' = looping
                         ELSE entering' = entering /\ looping' = looping - 1

\* The loop ends when the tip is the block it aimed at.  The test runs after
\* cs_main is released: another thread may have moved the tip by then.
Switch(m, first) ==
    /\ tip' = NewTip(m)
    /\ haveUndo' = haveUndo \cup Connected(m)
    /\ scriptsValid' = scriptsValid \cup Connected(m)
    /\ failedValid' = failedValid \cup Invalid(m)
    /\ setBlockIndexCandidates' = setBlockIndexCandidates
          \ (Dropped \cup Invalid(m) \cup WorseThanNewTip(m))
    /\ \/ Stay(first)
       \/ NewTip(m) = m /\ Leave(first)
    /\ UNCHANGED fRequestShutdown

\* The step fails half way: the reorganisation is too long, or a block of the
\* active chain cannot be disconnected (AbortNode if its data is gone).
GiveUp(m, first) ==
    LET stuck == Undisconnectable(ToDisconnect(m))
        tooLong == Cardinality(ToDisconnect(m)) > MAX_REORG_LENGTH
    IN /\ tip' = IF tooLong THEN tip ELSE Highest(stuck)
       /\ fRequestShutdown' = (tooLong \/ Highest(stuck) \notin haveData)
       /\ setBlockIndexCandidates' = setBlockIndexCandidates \ Dropped
       /\ Leave(first)
       /\ UNCHANGED <<haveUndo, scriptsValid, failedValid>>

CanSwitch(m) ==
    /\ Cardinality(ToDisconnect(m)) <= MAX_REORG_LENGTH
    /\ Undisconnectable(ToDisconnect(m)) = {}

\* FindMostWorkChain found a chain, and it is not the active one.
FoundOther == UsableCandidates # {} /\ Best(UsableCandidates) # tip

\* One round of the loop of ActivateBestChain under cs_main.
ActivateBestChain(first) ==
    /\ ~fRequestShutdown
    /\ IF first THEN entering > 0 ELSE looping > 0
    /\ failedChild' = failedChild \cup MarkedChildren
    /\ mapBlocksUnlinked' = mapBlocksUnlinked \cup SetAside
    /\ \/ /\ ~FoundOther
          /\ setBlockIndexCandidates' = setBlockIndexCandidates \ Dropped
          /\ Leave(first)
          /\ UNCHANGED <<haveUndo, failedValid, scriptsValid, tip, fRequestShutdown>>
       \/ /\ FoundOther
          /\ LET m == Best(UsableCandidates)
             IN  IF CanSwitch(m) THEN Switch(m, first) ELSE GiveUp(m, first)
    /\ UNCHANGED <<mapBlockIndex, haveData, received, linked, order, rpcs, prunes>>

-----------------------------------------------------------------------------
(* The RPCs.  Both go on to ActivateBestChain.                              *)

\* Variant for mutation: the active blocks stay active.
ActiveNotDisconnected(b) == {}

\* The active blocks from b upwards.
ActiveFrom(b) == {c \in Ancestors[tip] : b \in Ancestors[c]}

\* Variant for mutation: no block is offered again.
ReofferedNone(newTip, marked) == {}

\* "The resulting new best tip may not be in setBlockIndexCandidates anymore":
\* every valid, linked block that is as good as the new tip is a candidate.
Reoffered(newTip, marked) ==
    {c \in (received \cap linked) \ (Failed \cup marked) : ~Worse(c, newTip)}

\* InvalidateBlock: mark b and disconnect down to its parent, or to the first
\* block that cannot be disconnected.
InvalidateBlock(b) ==
    LET stuck == Undisconnectable(ActiveFrom(b))
        walked == {c \in ActiveFrom(b) : \A d \in stuck : Height[c] >= Height[d]}
        newTip == CASE ActiveFrom(b) = {} -> tip
                    [] stuck # {} -> Highest(stuck)
                    [] OTHER -> Parent[b]
        aborts == stuck # {} /\ newTip \notin haveData
    IN /\ ~fRequestShutdown
       /\ entering + looping < Threads
       /\ rpcs < MaxRpcs
       /\ b \in mapBlockIndex
       /\ failedValid' = failedValid \cup {b}
       /\ failedChild' = failedChild \cup walked
       /\ tip' = newTip
       /\ setBlockIndexCandidates' =
            (setBlockIndexCandidates \ (walked \cup {b}))
              \cup (IF stuck = {} THEN Reoffered(newTip, walked \cup {b}) ELSE {})
       /\ fRequestShutdown' = aborts
       /\ entering' = IF aborts THEN entering ELSE entering + 1
       /\ rpcs' = rpcs + 1
       /\ UNCHANGED <<mapBlockIndex, haveData, haveUndo, received, scriptsValid,
                      linked, order, mapBlocksUnlinked, looping, prunes>>

\* The marked blocks among b and its descendants.
Cleared(b) == {c \in Failed : b \in Ancestors[c]}

BetterThanTip(S) == {c \in S \cap received \cap linked : Worse(tip, c)}

\* ReconsiderBlock: clear the marks of b, of its descendants and of its
\* ancestors, and offer those descendants that are better than the tip.
ReconsiderBlock(b) ==
    /\ ~fRequestShutdown
    /\ entering + looping < Threads
    /\ rpcs < MaxRpcs
    /\ b \in mapBlockIndex
    /\ failedValid' = failedValid \ (Cleared(b) \cup Ancestors[b])
    /\ failedChild' = failedChild \ (Cleared(b) \cup Ancestors[b])
    /\ setBlockIndexCandidates' =
         setBlockIndexCandidates \cup BetterThanTip(Cleared(b))
    /\ entering' = entering + 1
    /\ rpcs' = rpcs + 1
    /\ UNCHANGED <<mapBlockIndex, haveData, haveUndo, received, scriptsValid,
                   linked, order, mapBlocksUnlinked, tip, looping,
                   fRequestShutdown, prunes>>

-----------------------------------------------------------------------------
(* FindFilesToPrune and PruneOneBlockFile: a file is deleted if none of its *)
(* blocks is within MIN_BLOCKS_TO_KEEP of the tip.                          *)

Prunable == {b \in haveData : Height[b] + MIN_BLOCKS_TO_KEEP <= Height[tip]}

PruneOneBlockFile(file) ==
    /\ ~fRequestShutdown
    /\ prunes < MaxPrunes
    /\ file \subseteq Prunable
    /\ haveData' = haveData \ file
    /\ haveUndo' = haveUndo \ file
    /\ mapBlocksUnlinked' = mapBlocksUnlinked \ file
    /\ prunes' = prunes + 1
    /\ UNCHANGED <<mapBlockIndex, failedValid, failedChild, received, scriptsValid,
                   linked, order, setBlockIndexCandidates, tip, entering,
                   looping, fRequestShutdown, rpcs>>

-----------------------------------------------------------------------------
Activate == \E first \in BOOLEAN : ActivateBestChain(first)

Steps ==
    \/ \E b \in Arriving :
         \/ AcceptBlockHeader(b)
         \/ \E fRequested \in BOOLEAN : ProcessNewBlock(b, fRequested)
    \/ \E b \in Invalidated : InvalidateBlock(b)
    \/ \E b \in Reconsidered : ReconsiderBlock(b)
    \/ Activate
    \/ \E file \in (SUBSET Prunable) \ {{}} : PruneOneBlockFile(file)

Next == UNCHANGED node /\ Steps

Spec == Init /\ [][Next]_vars

\* cs_main is granted to some thread that waits for it, so the threads inside
\* ActivateBestChain get on with their loops: WF_vars(Activate), with its enabling
\* condition spelled out.
FairSpec ==
    /\ Spec
    /\ \/ []<>(fRequestShutdown \/ entering + looping = 0)
       \/ []<><<Activate>>_vars

-----------------------------------------------------------------------------
(* Properties.                                                             *)

\* The sets of blocks that stand for the fields of CBlockIndex nest as the code
\* fills them: no data without transactions, no undo data without the block.
TypeOK ==
    /\ mapBlockIndex \subseteq Blocks
    /\ haveData \subseteq received
    /\ haveUndo \subseteq haveData
    /\ failedValid \subseteq mapBlockIndex
    /\ failedChild \subseteq mapBlockIndex
    /\ received \subseteq mapBlockIndex
    /\ scriptsValid \subseteq linked
    /\ linked \subseteq received
    /\ nSequenceId \in [Blocks -> 0 .. MaxSequenceId]
    /\ nBlockSequenceId \in 1 .. MaxSequenceId + 1
    /\ setBlockIndexCandidates \subseteq linked
    /\ mapBlocksUnlinked \subseteq haveData
    /\ tip \in Blocks
    /\ entering \in 0 .. Threads
    /\ looping \in 0 .. Threads
    /\ fRequestShutdown \in BOOLEAN
    /\ rpcs \in 0 .. MaxRpcs
    /\ prunes \in 0 .. MaxPrunes
    /\ node \in Nodes

\* What CheckBlockIndex carries along its walk: every ancestor was received at
\* some time, has its data now, was never found invalid.
Processed(b) == Ancestors[b] \subseteq received
Complete(b) == Ancestors[b] \subseteq haveData
NoneInvalid(b) == Ancestors[b] \cap failedValid = {}

\* CheckBlockIndex, "All parents having had data (at some point) is equivalent
\* to ... nChainTx being set": ReceivedBlockTransactions never forgets a block
\* that waited for its parent.
LinkedExactly == linked = {b \in Blocks : Processed(b)}

\* CheckBlockIndex: a block that sorts at least as good as the tip, has no
\* invalid ancestor and all its data is in setBlockIndexCandidates, and so is
\* the tip: a switch to a better chain is never overlooked.  (A node that could
\* not disconnect a pruned block is shutting down.)
CandidatesComplete ==
    (looping = 0 /\ ~fRequestShutdown) =>
        \A b \in linked :
            /\ ~Worse(b, tip)
            /\ NoneInvalid(b)
            /\ b = tip \/ Complete(b)
            => b \in setBlockIndexCandidates

\* CheckBlockIndex: a block that sorts worse than the tip, or that has an
\* ancestor that was never received, is no candidate.
CandidatesNotWorse ==
    \A b \in setBlockIndexCandidates : Processed(b) /\ ~Worse(b, tip)

\* CheckBlockIndex: a stored block that cannot be linked, or was a candidate
\* whose path lost its data, waits in mapBlocksUnlinked; one that lacks
\* nothing does not.
UnlinkedExactly ==
    /\ \A b \in mapBlocksUnlinked : ~Complete(b)
    /\ \A b \in haveData \ {Genesis} :
         /\ NoneInvalid(b)
         /\ \/ ~Processed(b)
            \/ /\ ~Complete(b)
               /\ ~Worse(b, tip)
               /\ b \notin setBlockIndexCandidates
         => b \in mapBlocksUnlinked

\* CheckBlockIndex: "The failed mask cannot be set for blocks without invalid
\* parents."
FailedHasInvalidAncestor ==
    \A b \in Failed : Ancestors[b] \cap failedValid # {}

\* The active chain is connected block by block and holds no block that is
\* marked as failed: FindMostWorkChain relies on it when it stops its walk at
\* the active chain.
ActiveChainValid ==
    /\ Ancestors[tip] \ {Genesis} \subseteq scriptsValid
    /\ Ancestors[tip] \cap (BadScripts \cup BadBlocks) = {}
    /\ ~fRequestShutdown => Ancestors[tip] \cap Failed = {}

\* The blocks a reorganisation may have to disconnect still have their data:
\* pruning keeps more than MAX_REORG_LENGTH blocks below the tip.  (invalidateblock
\* may take the tip below that margin.)
ReorgPossible ==
    rpcs = 0 =>
        Undisconnectable({b \in Ancestors[tip] \ {Genesis} :
                             Height[b] > Height[tip] - MAX_REORG_LENGTH}) = {}

\* No linked block whose path is complete and valid is better than the tip.
OnBest == \A b \in linked : Unusable(b) = {} => ~Worse(tip, b)

\* A block that is better than the tip is never forgotten: as long as there is
\* one, some thread has yet to go through ActivateBestChain.
SettledOnBest ==
    (entering + looping = 0 /\ ~fRequestShutdown) => OnBest

NoRpcs == MaxRpcs = 0
NoPruning == MaxPrunes = 0

\* setBlockIndexCandidates and mapBlocksUnlinked are what CheckBlockIndex asks for:
\* no block the node could switch to is overlooked, none that is worse is kept, and
\* what waits for a parent is linked when it comes.  (Without pruning for the
\* statements a deleted file breaks, and without RPCs for those that a block
\* received under a failed parent breaks.)
CandidatesExact ==
    /\ TypeOK
    /\ CandidatesComplete
    /\ NoPruning => CandidatesNotWorse /\ FailedHasInvalidAncestor
    /\ NoRpcs => UnlinkedExactly
    /\ NoRpcs /\ NoPruning => LinkedExactly

\* The active chain is valid, can be taken back as far as a reorganisation may go,
\* and is the best one the node can use once no thread is in ActivateBestChain.
BestValidChain == ActiveChainValid /\ ReorgPossible /\ SettledOnBest

\* Whatever the threads do, the node ends up on the best chain it can use.
ReachesBest == []<>(OnBest \/ fRequestShutdown)
=============================================================================
