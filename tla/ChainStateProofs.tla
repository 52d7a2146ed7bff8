-------------------------- MODULE ChainStateProofs --------------------------
(***************************************************************************)
(* Proofs about ChainState: for every tree of blocks and every number of   *)
(* threads the index satisfies what CheckBlockIndex asserts, and the node  *)
(* is on the best chain it can use whenever nobody is in ActivateBestChain.*)
(*                                                                         *)
(* Facts about trees are proved by taking a lowest counterexample, facts   *)
(* about the order of blocks by taking a smallest one.  The invariant is   *)
(* not that every block better than the tip is a candidate: in the middle  *)
(* of a reorganisation the tip is worse than it was, and the blocks in     *)
(* between are no candidates.  It names the best tip since the threads     *)
(* entered the loop instead (Reference), and says that nothing as good as  *)
(* that one is overlooked.                                                 *)
(***************************************************************************)
EXTENDS ChainState, FiniteSetTheorems, WellFoundedInduction, TLAPS

-----------------------------------------------------------------------------
(* Least elements, and the tree of blocks.                                  *)

\* A set of natural numbers has a least element.
LEMMA LeastNat ==
    ASSUME NEW S \in SUBSET Nat, S # {}
    PROVE  \E n \in S : \A m \in S : n <= m
<1> DEFINE R == OpToRel(<, Nat)
<1>1. PICK n \in S : \A m \in S : <<m, n>> \notin R
  <2>1. IsWellFoundedOn(R, Nat)
    BY Zenon, NatLessThanWellFounded
  <2> HIDE DEF R
  <2> QED BY Zenon, <2>1, WFMin
<1>2. \A m \in S : ~(m < n)
  BY Zenon, <1>1 DEF OpToRel
<1> QED BY SMTT(30), <1>2

\* A set of blocks has a lowest one.
LEMMA LowestExists ==
    ASSUME NEW S \in SUBSET Blocks, S # {}
    PROVE  \E b \in S : \A c \in S : Height[b] <= Height[c]
<1> DEFINE H == {Height[b] : b \in S}
<1>1. H \in SUBSET Nat /\ H # {}
  BY SMTT(30), TreeAssumption
<1>2. PICK n \in H : \A m \in H : n <= m
  <2> HIDE DEF H
  <2> QED BY Zenon, <1>1, LeastNat
<1>3. PICK b \in S : Height[b] = n
  BY Zenon
<1> QED BY Zenon, <1>2, <1>3

\* A set of blocks of bounded height has a highest one.
LEMMA HighestExists ==
    ASSUME NEW S \in SUBSET Blocks, S # {},
           NEW t \in Nat, \A b \in S : Height[b] <= t
    PROVE  \E b \in S : \A c \in S : Height[c] <= Height[b]
<1> DEFINE D == {t - Height[b] : b \in S}
<1>1. D \in SUBSET Nat /\ D # {}
  BY SMTT(30), TreeAssumption
<1>2. PICK n \in D : \A m \in D : n <= m
  <2> HIDE DEF D
  <2> QED BY Zenon, <1>1, LeastNat
<1>3. PICK b \in S : t - Height[b] = n
  BY Zenon
<1>4. \A c \in S : n <= t - Height[c]
  BY Zenon, <1>2
<1>5. ASSUME NEW c \in S
      PROVE  Height[c] <= Height[b]
  BY SMTT(30), <1>3, <1>4, TreeAssumption
<1> QED BY Zenon, <1>5

\* What the tree assumption says of a block and of its parent.
LEMMA Tree ==
    /\ Genesis \in Blocks
    /\ Ancestors[Genesis] = {Genesis}
    /\ Height[Genesis] = 0
    /\ \A b \in Blocks : /\ Height[b] \in Nat
                         /\ ChainWork[b] \in Nat
                         /\ Ancestors[b] \subseteq Blocks
                         /\ b \in Ancestors[b]
    /\ \A b \in Blocks \ {Genesis} :
         /\ Parent[b] \in Blocks
         /\ Ancestors[b] = Ancestors[Parent[b]] \cup {b}
         /\ b \notin Ancestors[Parent[b]]
         /\ Height[b] = Height[Parent[b]] + 1
         /\ ChainWork[Parent[b]] < ChainWork[b]
BY SMTT(30), TreeAssumption

\* The blocks below a block in its chain: the genesis block is one of them, their
\* chains are parts of it, they are lower and have less work.
ChainBelow(b) ==
    /\ Genesis \in Ancestors[b]
    /\ \A c \in Ancestors[b] :
         /\ Ancestors[c] \subseteq Ancestors[b]
         /\ c # b => Height[c] < Height[b] /\ ChainWork[c] < ChainWork[b]
         /\ \A d \in Ancestors[b] : c \in Ancestors[d] \/ d \in Ancestors[c]

\* No block is the lowest one without these properties.
LEMMA Below == \A b \in Blocks : ChainBelow(b)
<1> DEFINE S == {b \in Blocks : ~ChainBelow(b)}
<1> SUFFICES ASSUME S # {} PROVE FALSE
  BY Zenon
<1>1. PICK b \in S : \A c \in S : Height[b] <= Height[c]
  <2>1. S \in SUBSET Blocks
    BY Zenon
  <2> HIDE DEF S
  <2> QED BY Zenon, <2>1, LowestExists
<1>2. b \in Blocks /\ ~ChainBelow(b)
  BY Zenon
<1>3. b # Genesis
  <2>1. ChainBelow(Genesis)
    BY Tree DEF ChainBelow
  <2> QED BY Zenon, <1>2, <2>1
<1> DEFINE p == Parent[b]
<1>4. p \in Blocks /\ Ancestors[b] = Ancestors[p] \cup {b} /\ b \in Ancestors[b]
  BY Zenon, <1>2, <1>3, Tree
<1>5. Height[p] < Height[b] /\ ChainWork[p] < ChainWork[b]
  BY SMTT(30), <1>2, <1>3, Tree
<1>6. ChainBelow(p)
  <2>1. p \notin S
    BY SMTT(30), <1>1, <1>2, <1>4, <1>5, Tree
  <2> QED BY Zenon, <1>4, <2>1
<1>7. \A c \in Ancestors[b] : c = b \/ c \in Ancestors[p]
  BY Zenon, <1>4
<1>8. Genesis \in Ancestors[b]
  BY Zenon, <1>4, <1>6 DEF ChainBelow
<1>9. ASSUME NEW c \in Ancestors[b]
      PROVE  /\ Ancestors[c] \subseteq Ancestors[b]
             /\ \A d \in Ancestors[b] : c \in Ancestors[d] \/ d \in Ancestors[c]
  BY Zenon, <1>4, <1>6, <1>7, <1>9 DEF ChainBelow
<1>10. ASSUME NEW c \in Ancestors[b], c # b
       PROVE  Height[c] < Height[b] /\ ChainWork[c] < ChainWork[b]
  <2>1. c \in Ancestors[p] /\ c \in Blocks
    BY Zenon, <1>4, <1>7, <1>10, Tree
  <2>2. c = p \/ (Height[c] < Height[p] /\ ChainWork[c] < ChainWork[p])
    BY Zenon, <1>6, <2>1 DEF ChainBelow
  <2>3. /\ Height[c] \in Nat /\ Height[p] \in Nat /\ Height[b] \in Nat
        /\ ChainWork[c] \in Nat /\ ChainWork[p] \in Nat /\ ChainWork[b] \in Nat
    BY Zenon, <1>2, <1>4, <2>1, Tree
  <2> QED BY SMTT(30), <1>5, <2>2, <2>3
<1> QED BY Zenon, <1>2, <1>8, <1>9, <1>10 DEF ChainBelow

\* The same facts, one chain at a time.
LEMMA ChainOf ==
    ASSUME NEW b \in Blocks, NEW c \in Ancestors[b]
    PROVE  /\ c \in Blocks
           /\ Genesis \in Ancestors[b]
           /\ Ancestors[c] \subseteq Ancestors[b]
           /\ c \in Ancestors[c]
BY Zenon, Below, Tree DEF ChainBelow

\* The lower one of two blocks of a chain is in the chain of the other.
LEMMA LowerInChain ==
    ASSUME NEW b \in Blocks, NEW c \in Ancestors[b], NEW d \in Ancestors[b],
           Height[c] < Height[d]
    PROVE  c \in Ancestors[d]
<1>1. c \in Blocks /\ d \in Blocks /\ ChainBelow(c)
  BY Zenon, Below, ChainOf
<1>2. c \in Ancestors[d] \/ d \in Ancestors[c]
  BY Zenon, Below DEF ChainBelow
<1>3. d \notin Ancestors[c]
  <2>1. d \in Ancestors[c] => d = c \/ Height[d] < Height[c]
    BY Zenon, <1>1 DEF ChainBelow
  <2> QED BY SMTT(30), <1>1, <2>1, Tree
<1> QED BY Zenon, <1>2, <1>3

\* A block of a chain that is not in the chain of another of its blocks is above it.
LEMMA AboveInChain ==
    ASSUME NEW b \in Blocks, NEW c \in Ancestors[b], NEW d \in Ancestors[b],
           d \notin Ancestors[c]
    PROVE  c \in Ancestors[d] /\ c # d
<1>1. c \in Ancestors[d] \/ d \in Ancestors[c]
  BY Zenon, Below DEF ChainBelow
<1>2. c \in Ancestors[c]
  BY Zenon, ChainOf
<1> QED BY Zenon, <1>1, <1>2

-----------------------------------------------------------------------------
(* CBlockIndexWorkComparator is a strict order, total on blocks whose       *)
(* sequence numbers differ.                                                 *)

LEMMA WorseOrder ==
    ASSUME NEW id \in [Blocks -> Nat],
           NEW x \in Blocks, NEW y \in Blocks, NEW z \in Blocks
    PROVE  /\ ~WorseBy(id, x, x)
           /\ WorseBy(id, x, y) => ~WorseBy(id, y, x)
           /\ WorseBy(id, x, y) /\ WorseBy(id, y, z) => WorseBy(id, x, z)
           /\ ~WorseBy(id, x, y) /\ ~WorseBy(id, y, z) => ~WorseBy(id, x, z)
           /\ id[x] # id[y] => WorseBy(id, x, y) \/ WorseBy(id, y, x)
<1>1. /\ ChainWork[x] \in Nat /\ ChainWork[y] \in Nat /\ ChainWork[z] \in Nat
      /\ id[x] \in Nat /\ id[y] \in Nat /\ id[z] \in Nat
  BY Zenon, Tree
<1> QED BY SMTT(30), <1>1 DEF WorseBy

\* A block is better than those below it in its chain.
LEMMA WorseBelow ==
    ASSUME NEW id \in [Blocks -> Nat], NEW b \in Blocks, NEW c \in Ancestors[b],
           NEW x \in Blocks
    PROVE  /\ c # b => WorseBy(id, c, b)
           /\ ~WorseBy(id, b, c)
           /\ ~WorseBy(id, x, b) => ~WorseBy(id, x, c)
<1>1. c \in Blocks
  BY Zenon, ChainOf
<1>2. c # b => WorseBy(id, c, b)
  BY Zenon, Below DEF ChainBelow, WorseBy
<1>3. ~WorseBy(id, b, c)
  BY Zenon, <1>1, <1>2, WorseOrder
<1> QED BY Zenon, <1>1, <1>2, <1>3, WorseOrder

\* A set of blocks with different sequence numbers has a best one.
LEMMA BestExists ==
    ASSUME NEW id \in [Blocks -> Nat], NEW S \in SUBSET Blocks, S # {},
           \A x, y \in S : x # y => id[x] # id[y]
    PROVE  \E c \in S : \A d \in S \ {c} : WorseBy(id, d, c)
<1> DEFINE HasBest(T) == \E c \in T : \A d \in T \ {c} : WorseBy(id, d, c)
           F == {T \in SUBSET S : T # {} /\ ~HasBest(T)}
           R == StrictSubsetOrdering(S)
<1> SUFFICES ASSUME F # {} PROVE FALSE
  BY Zenon
<1>1. IsWellFoundedOn(R, SUBSET S)
  <2>1. IsFiniteSet(S)
    BY Zenon, TreeAssumption, FS_Subset
  <2> QED BY Zenon, <2>1, FS_FiniteSubsetsOfFinite, FS_StrictSubsetOrderingWellFounded
<1>2. PICK T \in F : \A U \in F : <<U, T>> \notin R
  <2>1. F \subseteq SUBSET S
    BY Zenon
  <2> HIDE DEF F, R
  <2> QED BY Zenon, <1>1, <2>1, WFMin
<1>3. T \subseteq S /\ T # {} /\ ~HasBest(T)
  BY Zenon
<1>4. PICK x \in T : TRUE
  BY Zenon, <1>3
<1> DEFINE U == T \ {x}
<1>5. U \notin F
  <2>1. U \in SUBSET S /\ T \in SUBSET S /\ U \subseteq T /\ U # T
    BY Zenon, <1>3, <1>4
  <2>2. <<U, T>> \in R
    BY <2>1 DEF StrictSubsetOrdering
  <2> QED BY Zenon, <1>2, <2>2
<1>6. CASE U = {}
  <2>1. T = {x}
    BY Zenon, <1>6
  <2> QED BY Zenon, <1>3, <2>1
<1>7. CASE U # {}
  <2>1. HasBest(U)
    BY Zenon, <1>3, <1>5, <1>7
  <2>2. PICK y \in U : \A d \in U \ {y} : WorseBy(id, d, y)
    BY Zenon, <2>1
  <2>3. x \in S /\ y \in S /\ x # y /\ x \in Blocks /\ y \in Blocks
    BY Zenon, <1>3
  <2>4. id[x] # id[y]
    BY Zenon, <2>3
  <2>5. WorseBy(id, x, y) \/ WorseBy(id, y, x)
    BY Zenon, <2>3, <2>4, WorseOrder
  <2>6. CASE WorseBy(id, x, y)
    <3>1. \A d \in T \ {y} : WorseBy(id, d, y)
      BY Zenon, <2>2, <2>6
    <3> QED BY Zenon, <1>3, <3>1
  <2>7. CASE WorseBy(id, y, x)
    <3>1. ASSUME NEW d \in T \ {x}
          PROVE  WorseBy(id, d, x)
      <4>1. d = y \/ WorseBy(id, d, y)
        BY Zenon, <2>2
      <4>2. d \in Blocks
        BY Zenon, <1>3
      <4> QED BY Zenon, <2>3, <2>7, <4>1, <4>2, WorseOrder
    <3> QED BY Zenon, <1>3, <3>1
  <2> QED BY Zenon, <2>5, <2>6, <2>7
<1> QED BY Zenon, <1>6, <1>7

-----------------------------------------------------------------------------
(* What the operators of ChainState choose.                                 *)

LEMMA LowestIs ==
    ASSUME NEW S \in SUBSET Blocks, S # {}
    PROVE  Lowest(S) \in S /\ \A c \in S : Height[Lowest(S)] <= Height[c]
BY Zenon, LowestExists DEF Lowest

LEMMA HighestIs ==
    ASSUME NEW b \in Blocks, NEW S \in SUBSET Ancestors[b], S # {}
    PROVE  Highest(S) \in S /\ \A c \in S : Height[c] <= Height[Highest(S)]
<1>1. S \in SUBSET Blocks /\ Height[b] \in Nat
  BY Zenon, Tree
<1>2. ASSUME NEW c \in S
      PROVE  Height[c] <= Height[b]
  <2>1. c = b \/ Height[c] < Height[b]
    BY Zenon, Below DEF ChainBelow
  <2>2. Height[c] \in Nat
    BY Zenon, <1>1, Tree
  <2> QED BY SMTT(30), <1>1, <2>1, <2>2
<1>3. \E h \in S : \A c \in S : Height[c] <= Height[h]
  BY Zenon, <1>1, <1>2, HighestExists
<1> QED BY Zenon, <1>3 DEF Highest

-----------------------------------------------------------------------------
(* The inductive invariant, of a node that prunes nothing.                  *)

\* The causes of a failure mark, and the RPCs that the marks survive: a block that
\* is reconsidered has no other cause below it.  (ReconsiderBlock clears the marks
\* below its argument and offers only what is above it.)
Causes == Invalidated \cup BadBlocks \cup BadScripts
RpcsAtRoots ==
    NoRpcs \/ \A b \in Reconsidered : (Ancestors[b] \ {b}) \cap Causes = {}
Covered == NoPruning /\ RpcsAtRoots

\* What is received stays on disk, what is connected has undo data.
Stored ==
    /\ entering + looping <= Threads
    /\ haveData = received
    /\ haveUndo = scriptsValid
    /\ received \cap BadBlocks = {}
    /\ scriptsValid \cap BadScripts = {}

\* A linked block has a linked chain, and neither it nor its child waits.
LinkedChains ==
    /\ Genesis \in linked
    /\ \A b \in linked : Ancestors[b] \subseteq linked
    /\ mapBlocksUnlinked \cap linked = {}
    /\ \A b \in mapBlocksUnlinked : Parent[b] \notin linked

\* Linked blocks have different sequence numbers, all of them used up.
Numbered ==
    /\ \A b \in linked : nSequenceId[b] < nBlockSequenceId
    /\ \A b, c \in linked : b # c => nSequenceId[b] # nSequenceId[c]

ActiveConnected == Ancestors[tip] \ {Genesis} \subseteq scriptsValid

MarksCaused == failedValid \subseteq Causes /\ FailedHasInvalidAncestor

\* Without RPCs a block that is not linked waits, unless its parent never comes.
Waiting ==
    NoRpcs =>
      /\ failedValid \subseteq linked \cup BadBlocks
      /\ failedChild \subseteq linked
      /\ \A b \in received \ linked :
           b \in mapBlocksUnlinked \/ Parent[b] \in failedValid \cap BadBlocks

NotWorse == \A c \in setBlockIndexCandidates : ~Worse(c, tip)

\* A chain the node has been on, or could go back to at once.
Sound(r) ==
    /\ Ancestors[r] \ {Genesis} \subseteq scriptsValid
    /\ Ancestors[r] \cap Failed = {}

\* While a thread is in the loop the tip may be worse than it was before: r is the
\* best tip so far.  No block as good as r is overlooked.
Reference(r) ==
    /\ r \in setBlockIndexCandidates
    /\ Sound(r)
    /\ \A c \in linked \ Failed : ~Worse(c, r) => c \in setBlockIndexCandidates
    /\ looping = 0 => r = tip
    /\ ~Worse(r, tip)

\* Nobody is in ActivateBestChain: the tip is the best of the usable candidates.
Settled ==
    entering + looping = 0 =>
      \A c \in setBlockIndexCandidates : Ancestors[c] \cap Failed = {} => ~Worse(tip, c)

Offered ==
    ~fRequestShutdown => /\ Sound(tip)
                         /\ \E r \in Blocks : Reference(r)
                         /\ Settled

Indexed == TypeOK /\ Stored /\ LinkedChains /\ Numbered /\ ActiveConnected /\ MarksCaused

IInv == Indexed /\ Waiting /\ NotWorse /\ Offered

-----------------------------------------------------------------------------
(* Immediate consequences.                                                  *)

\* The fields of a node have their types.
LEMMA NodeFacts ==
    ASSUME node \in Nodes
    PROVE  /\ Arriving \subseteq Blocks \ {Genesis}
           /\ BadBlocks \subseteq Blocks \ {Genesis}
           /\ BadScripts \subseteq Blocks \ {Genesis}
           /\ Invalidated \subseteq Blocks \ {Genesis}
           /\ Reconsidered \subseteq Blocks \ {Genesis}
           /\ MAX_REORG_LENGTH \in Nat /\ MIN_BLOCKS_TO_KEEP \in Nat
           /\ Threads \in Nat /\ MaxRpcs \in Nat /\ MaxPrunes \in Nat
           /\ MaxSequenceId \in Nat /\ MaxSequenceId >= 1
BY NodeAssumption DEF Arriving, BadBlocks, BadScripts, Invalidated, Reconsidered,
   MAX_REORG_LENGTH, MIN_BLOCKS_TO_KEEP, Threads, MaxRpcs, MaxPrunes, MaxSequenceId

\* A step leaves the node what it is.
LEMMA SameNode ==
    ASSUME node' = node
    PROVE  /\ Arriving' = Arriving /\ BadBlocks' = BadBlocks /\ BadScripts' = BadScripts
           /\ Invalidated' = Invalidated /\ Reconsidered' = Reconsidered
           /\ MAX_REORG_LENGTH' = MAX_REORG_LENGTH
           /\ MIN_BLOCKS_TO_KEEP' = MIN_BLOCKS_TO_KEEP
           /\ Threads' = Threads /\ MaxRpcs' = MaxRpcs /\ MaxPrunes' = MaxPrunes
           /\ MaxSequenceId' = MaxSequenceId
           /\ Causes' = Causes /\ NoRpcs' = NoRpcs /\ NoPruning' = NoPruning
           /\ RpcsAtRoots' = RpcsAtRoots /\ Covered' = Covered
BY Zenon DEF Arriving, BadBlocks, BadScripts, Invalidated, Reconsidered, MAX_REORG_LENGTH,
   MIN_BLOCKS_TO_KEEP, Threads, MaxRpcs, MaxPrunes, MaxSequenceId, Causes, NoRpcs,
   NoPruning, RpcsAtRoots, Covered

LEMMA Basics ==
    ASSUME Indexed
    PROVE  /\ node \in Nodes
           /\ tip \in Blocks /\ tip \in linked /\ Ancestors[tip] \subseteq linked
           /\ linked \subseteq Blocks /\ linked \subseteq received /\ received \subseteq Blocks
           /\ setBlockIndexCandidates \subseteq linked
           /\ nSequenceId \in [Blocks -> Nat]
           /\ nBlockSequenceId \in Nat
           /\ entering \in Nat /\ looping \in Nat
<1> USE DEF Indexed
<1>1. node \in Nodes /\ tip \in Blocks /\ linked \subseteq received
  BY Zenon DEF TypeOK
<1>2. received \subseteq Blocks /\ linked \subseteq Blocks /\ setBlockIndexCandidates \subseteq linked
  BY Zenon DEF TypeOK
<1>3. tip \in Ancestors[tip]
  BY Zenon, <1>1, Tree
<1>4. tip \in linked
  BY Zenon, <1>3 DEF ActiveConnected, LinkedChains, TypeOK
<1>5. Ancestors[tip] \subseteq linked
  BY Zenon, <1>4 DEF LinkedChains
<1>6. nSequenceId \in [Blocks -> Nat]
  <2>1. nSequenceId \in [Blocks -> 0 .. MaxSequenceId]
    BY Zenon DEF TypeOK
  <2> QED BY SMTT(30), <2>1
<1>7. nBlockSequenceId \in Nat /\ entering \in Nat /\ looping \in Nat
  <2>1. nBlockSequenceId \in 1 .. MaxSequenceId + 1 /\ entering \in 0 .. Threads /\ looping \in 0 .. Threads
    BY Zenon DEF TypeOK
  <2> QED BY SMTT(30), <2>1
<1> QED BY Zenon, <1>1, <1>2, <1>4, <1>5, <1>6, <1>7

\* A linked block can be switched to if no block of its chain is marked.
LEMMA UsableIff ==
    ASSUME Indexed, Stored, Sound(tip), NEW c \in linked
    PROVE  Unusable(c) = {} <=> Ancestors[c] \cap Failed = {}
<1>1. Ancestors[c] \subseteq haveData
  BY Zenon, Basics DEF Indexed, LinkedChains, Stored
<1>2. Ancestors[tip] \cap Failed = {}
  BY Zenon DEF Sound
<1> QED BY Zenon, <1>1, <1>2 DEF Unusable, Path

\* The best one of a set of linked blocks.
LEMMA BestIs ==
    ASSUME Indexed, NEW S \in SUBSET linked, S # {}
    PROVE  Best(S) \in S /\ \A d \in S \ {Best(S)} : Worse(d, Best(S))
<1>1. S \in SUBSET Blocks /\ nSequenceId \in [Blocks -> Nat]
  BY Zenon, Basics
<1>2. \A x, y \in S : x # y => nSequenceId[x] # nSequenceId[y]
  BY Zenon DEF Indexed, Numbered
<1>3. \E c \in S : \A d \in S \ {c} : WorseBy(nSequenceId, d, c)
  BY Zenon, <1>1, <1>2, BestExists
<1> QED BY Zenon, <1>3 DEF Best, Worse

\* What FindMostWorkChain drops is marked, or gets a mark for a block below it.
LEMMA Passed ==
    ASSUME Indexed
    PROVE  /\ SetAside = {}
           /\ MarkedChildren \subseteq linked
           /\ \A d \in MarkedChildren : \E o \in Failed : o \in Ancestors[d]
           /\ Dropped \subseteq Failed \cup MarkedChildren
<1>1. ASSUME NEW x \in PassedOver
      PROVE  /\ x \in linked /\ x \in Blocks /\ Ancestors[x] \subseteq linked
             /\ Obstacle(x) \in Failed /\ Obstacle(x) \in Ancestors[x]
             /\ AboveObstacle(x) \subseteq Ancestors[x]
             /\ \A d \in AboveObstacle(x) : Obstacle(x) \in Ancestors[d]
  <2>1. x \in linked /\ x \in Blocks /\ Unusable(x) # {}
    BY Zenon, Basics DEF PassedOver, UsableCandidates
  <2>2. Ancestors[x] \subseteq linked /\ Ancestors[x] \subseteq haveData
    BY Zenon, <2>1, Basics DEF Indexed, LinkedChains, Stored
  <2>3. Unusable(x) \in SUBSET Ancestors[x] /\ Unusable(x) \subseteq Failed
    BY Zenon, <2>2 DEF Unusable, Path
  <2>4. Obstacle(x) \in Unusable(x)
    BY Zenon, <2>1, <2>3, HighestIs DEF Obstacle
  <2>5. ASSUME NEW d \in AboveObstacle(x)
        PROVE  d \in Ancestors[x] /\ Obstacle(x) \in Ancestors[d]
    <3>1. d \in Ancestors[x] /\ Height[d] > Height[Obstacle(x)]
      BY Zenon DEF AboveObstacle, Path
    <3>2. d \in Blocks /\ Obstacle(x) \in Blocks
      BY Zenon, <2>1, <2>3, <2>4, <3>1, Tree
    <3>3. Height[Obstacle(x)] < Height[d]
      BY SMTT(30), <3>1, <3>2, Tree
    <3> QED BY Zenon, <2>1, <2>3, <2>4, <3>1, <3>3, LowerInChain
  <2> QED BY Zenon, <2>1, <2>2, <2>3, <2>4, <2>5
<1>2. SetAside = {}
  BY Zenon, <1>1 DEF SetAside
<1>3. ASSUME NEW d \in MarkedChildren
      PROVE  d \in linked /\ \E o \in Failed : o \in Ancestors[d]
  BY Zenon, <1>1 DEF MarkedChildren
<1>4. Dropped \subseteq Failed \cup MarkedChildren
  <2> SUFFICES ASSUME NEW x \in PassedOver, NEW d \in AboveObstacle(x) \cup {Obstacle(x)}
               PROVE  d \in Failed \/ d \in MarkedChildren
    BY Zenon DEF Dropped
  <2>1. CASE d = Obstacle(x)
    BY Zenon, <1>1, <2>1
  <2>2. CASE d \in AboveObstacle(x)
    BY Zenon, <1>1, <2>2 DEF MarkedChildren
  <2> QED BY Zenon, <2>1, <2>2
<1> QED BY Zenon, <1>2, <1>3, <1>4

\* The blocks ActivateBestChainStep connects on the way to m, and where it stops.
LEMMA Reached ==
    ASSUME Indexed, Sound(tip),
           NEW m \in linked, m \notin Ancestors[tip], Ancestors[m] \cap Failed = {}
    PROVE  /\ NewTip(m) \in Ancestors[m] /\ NewTip(m) \in linked /\ NewTip(m) \in Blocks
           /\ Connected(m) \subseteq linked
           /\ Connected(m) \cap BadScripts = {}
           /\ Ancestors[NewTip(m)] \ {Genesis} \subseteq scriptsValid \cup Connected(m)
           /\ Ancestors[NewTip(m)] \cap (Failed \cup MarkedChildren \cup Invalid(m)) = {}
           /\ Connected(m) = {} => NewTip(m) \in Ancestors[tip]
           /\ NewTip(m) = m => Connected(m) # {}
           /\ Invalid(m) \subseteq linked \cap BadScripts
<1> DEFINE s == StopsAt(m)
           stops == {b \in Path(m) : b \in BadScripts \/ ChainWork[b] > ChainWork[tip]}
<1>1. m \in Blocks /\ tip \in Blocks /\ Ancestors[m] \subseteq linked /\ Ancestors[m] \subseteq Blocks
  BY Zenon, Basics, Tree DEF Indexed, LinkedChains
<1>2. m \in Path(m) /\ Path(m) \subseteq Ancestors[m] /\ Genesis \notin Path(m)
  BY Zenon, <1>1, Tree, Below DEF Path, ChainBelow
<1>3. /\ s \in Path(m)
      /\ \A b \in Path(m) : Height[b] < Height[s] => b \notin BadScripts
  <2>1. CASE stops = {}
    BY Zenon, <1>2, <2>1 DEF StopsAt
  <2>2. CASE stops # {}
    <3>1. s = Lowest(stops)
      BY Zenon, <2>2 DEF StopsAt
    <3>2. stops \in SUBSET Blocks /\ stops \subseteq Path(m)
      BY Zenon, <1>1, <1>2
    <3>3. s \in stops /\ \A c \in stops : Height[s] <= Height[c]
      <4> HIDE DEF stops, s
      <4> QED BY Zenon, <2>2, <3>1, <3>2, LowestIs
    <3>4. ASSUME NEW b \in Path(m), Height[b] < Height[s]
          PROVE  b \notin BadScripts
      <4>1. Height[b] \in Nat /\ Height[s] \in Nat
        BY Zenon, <3>2, <3>3, <1>1, <1>2, Tree
      <4>2. ~(Height[s] <= Height[b])
        BY SMTT(30), <3>4, <4>1
      <4> QED BY Zenon, <3>3, <4>2
    <3> QED BY Zenon, <3>2, <3>3, <3>4
  <2> QED BY Zenon, <2>1, <2>2
<1>4. s \in Blocks /\ s # Genesis /\ s \in Ancestors[m] /\ Ancestors[s] \subseteq Ancestors[m]
  BY Zenon, <1>1, <1>2, <1>3, ChainOf
<1> DEFINE t == NewTip(m)
<1>5. /\ t \in Ancestors[m] /\ t \in Blocks /\ Ancestors[t] \subseteq Ancestors[s]
      /\ \A b \in Ancestors[t] : b \in Path(m) => b \notin BadScripts
      /\ Ancestors[t] \cap Invalid(m) = {}
  <2>1. CASE s \in BadScripts
    <3>1. t = Parent[s]
      BY Zenon, <2>1 DEF NewTip
    <3>2. /\ t \in Blocks /\ t \in Ancestors[t]
          /\ Ancestors[s] = Ancestors[t] \cup {s} /\ s \notin Ancestors[t]
      <4>1. /\ Parent[s] \in Blocks /\ Parent[s] \in Ancestors[Parent[s]]
            /\ Ancestors[s] = Ancestors[Parent[s]] \cup {s} /\ s \notin Ancestors[Parent[s]]
        <5> HIDE DEF s
        <5> QED BY Zenon, <1>4, Tree
      <4> QED BY Zenon, <3>1, <4>1
    <3>3. ASSUME NEW b \in Ancestors[t], b \in Path(m)
          PROVE  b \notin BadScripts
      <4>1. b \in Ancestors[s] /\ b # s
        BY Zenon, <3>2
      <4>2. Height[b] < Height[s]
        BY Zenon, <1>4, <4>1, Below DEF ChainBelow
      <4> QED BY Zenon, <1>3, <3>3, <4>2
    <3>4. Invalid(m) = {s}
      BY Zenon, <2>1 DEF Invalid
    <3> QED BY Zenon, <1>4, <3>2, <3>3, <3>4
  <2>2. CASE s \notin BadScripts
    <3>1. t = s
      BY Zenon, <2>2 DEF NewTip
    <3>2. ASSUME NEW b \in Ancestors[t], b \in Path(m)
          PROVE  b \notin BadScripts
      <4>1. b = s \/ Height[b] < Height[s]
        BY Zenon, <1>4, <3>1, Below DEF ChainBelow
      <4> QED BY Zenon, <1>3, <2>2, <3>2, <4>1
    <3>3. Invalid(m) = {}
      BY Zenon, <2>2 DEF Invalid
    <3> QED BY Zenon, <1>4, <3>1, <3>2, <3>3
  <2> QED BY Zenon, <2>1, <2>2
<1>6. Ancestors[t] \subseteq Ancestors[m] /\ t \in Ancestors[t]
  BY Zenon, <1>4, <1>5, Tree
<1>7. Connected(m) \subseteq linked /\ Connected(m) \cap BadScripts = {}
  BY Zenon, <1>1, <1>2, <1>5 DEF Connected
<1>8. Ancestors[t] \ {Genesis} \subseteq scriptsValid \cup Connected(m)
  BY Zenon, <1>6 DEF Connected, Path, Sound
<1>9. Ancestors[t] \cap (Failed \cup MarkedChildren) = {}
  <2>1. ASSUME NEW d \in MarkedChildren, d \in Ancestors[t]
        PROVE  FALSE
    <3>1. PICK o \in Failed : o \in Ancestors[d]
      BY Zenon, Passed
    <3>2. Ancestors[d] \subseteq Ancestors[m]
      BY Zenon, <1>1, <1>6, <2>1, ChainOf
    <3> QED BY Zenon, <3>1, <3>2
  <2> QED BY Zenon, <1>6, <2>1
<1>10. Connected(m) = {} => t \in Ancestors[tip]
  BY Zenon, <1>5, <1>6 DEF Connected, Path
<1>11. t = m => Connected(m) # {}
  BY Zenon, <1>1, <1>2, Tree DEF Connected
<1>12. Invalid(m) \subseteq linked \cap BadScripts
  BY Zenon, <1>1, <1>4 DEF Invalid
<1> QED BY Zenon, <1>1, <1>5, <1>7, <1>8, <1>9, <1>10, <1>11, <1>12

-----------------------------------------------------------------------------
(* Steps that link no block and switch to none.                             *)

\* A step that changes only which headers are known, and perhaps lets a thread in.
LEMMA HeaderKnown ==
    ASSUME IInv, node' = node, mapBlockIndex \subseteq mapBlockIndex', mapBlockIndex' \subseteq Blocks,
           UNCHANGED <<status, order, setBlockIndexCandidates, mapBlocksUnlinked, tip,
                       looping, fRequestShutdown, rpcs, prunes>>,
           entering' = entering \/ (entering' = entering + 1 /\ entering + looping < Threads)
    PROVE  IInv'
<1>1. Indexed /\ node \in Nodes /\ entering \in Nat /\ looping \in Nat /\ Threads \in Nat
  BY Zenon, Basics, NodeFacts DEF IInv
<1>2. entering' \in 0 .. Threads /\ entering' + looping <= Threads
  BY SMTT(30), <1>1 DEF Indexed, Stored
<1>3. entering' + looping = 0 => entering' = entering
  BY SMTT(30), <1>1
<1>4. TypeOK'
  BY Zenon, <1>1, <1>2, SameNode DEF Indexed, TypeOK, status, order
<1>5. Failed' = Failed /\ \A x, y : Worse(x, y)' <=> Worse(x, y)
  BY Zenon DEF Failed, Worse, WorseBy, status, order
<1>6. Stored' /\ LinkedChains' /\ Numbered' /\ ActiveConnected'
  BY Zenon, <1>1, <1>2, SameNode
     DEF Indexed, Stored, LinkedChains, Numbered, ActiveConnected, status, order
<1>7. MarksCaused'
  BY Zenon, <1>1, <1>5, SameNode DEF Indexed, MarksCaused, FailedHasInvalidAncestor, status
<1>8. Waiting'
  BY Zenon, SameNode DEF IInv, Waiting, status
<1>9. NotWorse'
  BY Zenon, <1>5 DEF IInv, NotWorse, Worse
<1>10. Offered'
  <2> SUFFICES ASSUME ~fRequestShutdown'
               PROVE  Sound(tip)' /\ (\E r \in Blocks : Reference(r)') /\ Settled'
    BY Zenon DEF Offered
  <2>1. Sound(tip) /\ (\E r \in Blocks : Reference(r)) /\ Settled
    BY Zenon DEF IInv, Offered
  <2>2. Sound(tip)' /\ Settled'
    BY Zenon, <1>3, <1>5, <2>1 DEF Sound, Settled, Worse, status
  <2>3. \E r \in Blocks : Reference(r)'
    BY Zenon, <1>5, <2>1 DEF Reference, Sound, Worse, status
  <2> QED BY Zenon, <2>2, <2>3
<1> QED BY Zenon, <1>4, <1>6, <1>7, <1>8, <1>9, <1>10 DEF IInv, Indexed

\* AcceptBlock finds the block invalid: it was never stored, so no chain in use has it.
LEMMA BadBlockStep ==
    ASSUME IInv, node' = node, ~fRequestShutdown, NEW b \in BadBlocks, b \notin haveData,
           mapBlockIndex' = mapBlockIndex \cup {b},
           failedValid' = failedValid \cup {b},
           UNCHANGED <<haveData, haveUndo, failedChild, received, scriptsValid, linked, order,
                       setBlockIndexCandidates, mapBlocksUnlinked, entering, tip, looping,
                       fRequestShutdown, rpcs, prunes>>
    PROVE  IInv'
<1>1. Indexed /\ b \in Blocks /\ node \in Nodes /\ Sound(tip) /\ Settled
  BY Zenon, Basics, NodeFacts DEF IInv, Offered
<1>2. Failed' = Failed \cup {b} /\ \A x, y : Worse(x, y)' <=> Worse(x, y)
  BY Zenon DEF Failed, Worse, WorseBy, order
<1>3. \A c \in linked : b \notin Ancestors[c]
  BY Zenon, <1>1, Basics DEF Indexed, Stored, LinkedChains
<1>4. TypeOK'
  BY Zenon, <1>1, SameNode DEF Indexed, TypeOK, order
<1>5. Stored' /\ LinkedChains' /\ Numbered' /\ ActiveConnected'
  BY Zenon, <1>1, SameNode DEF Indexed, Stored, LinkedChains, Numbered, ActiveConnected, order
<1>6. MarksCaused'
  <2>1. failedValid' \subseteq Causes'
    BY Zenon, <1>1, SameNode DEF Indexed, MarksCaused, Causes
  <2>2. \A c \in Failed' : Ancestors[c] \cap failedValid' # {}
    <3>1. b \in Ancestors[b]
      BY Zenon, <1>1, Tree
    <3> QED BY Zenon, <1>1, <1>2, <3>1 DEF Indexed, MarksCaused, FailedHasInvalidAncestor
  <2> QED BY Zenon, <2>1, <2>2 DEF MarksCaused, FailedHasInvalidAncestor
<1>7. Waiting'
  BY Zenon, SameNode DEF IInv, Waiting
<1>8. NotWorse'
  BY Zenon, <1>2 DEF IInv, NotWorse, Worse
<1>9. Offered'
  <2>1. Sound(tip)'
    BY Zenon, <1>1, <1>2, <1>3, Basics DEF Sound
  <2>2. Settled'
    BY Zenon, <1>1, <1>2 DEF Settled, Worse
  <2>3. PICK r \in Blocks : Reference(r)
    BY Zenon DEF IInv, Offered
  <2>4. Reference(r)'
    BY Zenon, <1>1, <1>2, <1>3, <2>3, Basics DEF Reference, Sound, Worse
  <2> QED BY Zenon, <2>1, <2>2, <2>3, <2>4 DEF Offered
<1> QED BY Zenon, <1>4, <1>5, <1>6, <1>7, <1>8, <1>9 DEF IInv, Indexed

\* ReceivedBlockTransactions, second branch: the block waits for its parent.
LEMMA ParkStep ==
    ASSUME IInv, node' = node, ~fRequestShutdown, entering + looping < Threads,
           NEW b \in Blocks \ BadBlocks, b \notin haveData,
           mapBlockIndex' = mapBlockIndex \cup {b}, ReceivedBlockTransactions(b),
           Parent[b] \notin linked, entering' = entering + 1,
           UNCHANGED <<tip, looping, fRequestShutdown, rpcs, prunes>>
    PROVE  IInv'
<1>1. /\ Indexed /\ node \in Nodes /\ Sound(tip)
      /\ entering \in Nat /\ looping \in Nat /\ Threads \in Nat
  BY Zenon, Basics, NodeFacts DEF IInv, Offered
<1>2. /\ haveData' = haveData \cup {b} /\ received' = received \cup {b}
      /\ mapBlocksUnlinked' = IF Parent[b] \in Failed THEN mapBlocksUnlinked
                                                    ELSE mapBlocksUnlinked \cup {b}
      /\ linked' = linked \ {b}
      /\ UNCHANGED <<order, setBlockIndexCandidates, haveUndo, failedValid, failedChild,
                     scriptsValid>>
  BY Zenon DEF ReceivedBlockTransactions, Park
<1>3. linked' = linked /\ b \notin linked
  BY Zenon, <1>1, <1>2, Basics DEF Indexed, Stored
<1>4. Failed' = Failed /\ \A x, y : Worse(x, y)' <=> Worse(x, y)
  BY Zenon, <1>2 DEF Failed, Worse, WorseBy, order
<1>5. /\ entering' \in 0 .. Threads /\ entering' + looping <= Threads
      /\ entering' + looping # 0
  BY SMTT(30), <1>1
<1>6. mapBlocksUnlinked' \subseteq mapBlocksUnlinked \cup {b}
  BY Zenon, <1>2
<1>7. TypeOK'
  BY Zenon, <1>1, <1>2, <1>3, <1>5, <1>6, SameNode DEF Indexed, TypeOK, order
<1>8. Stored' /\ LinkedChains' /\ Numbered' /\ ActiveConnected'
  BY Zenon, <1>1, <1>2, <1>3, <1>5, <1>6, SameNode
     DEF Indexed, Stored, LinkedChains, Numbered, ActiveConnected, order
<1>9. MarksCaused'
  BY Zenon, <1>1, <1>2, <1>4, SameNode DEF Indexed, MarksCaused, FailedHasInvalidAncestor
<1>10. Waiting'
  <2> SUFFICES ASSUME NoRpcs, NEW x \in received' \ linked'
               PROVE  x \in mapBlocksUnlinked' \/ Parent[x] \in failedValid' \cap BadBlocks
    BY Zenon, <1>2, <1>3, SameNode DEF IInv, Waiting
  <2>1. CASE x = b
    <3>1. Parent[b] \in Failed => Parent[b] \in failedValid \cap BadBlocks
      BY Zenon DEF IInv, Waiting, Failed
    <3> QED BY Zenon, <1>2, <2>1, <3>1
  <2>2. CASE x # b
    BY Zenon, <1>2, <1>3, <2>2 DEF IInv, Waiting
  <2> QED BY Zenon, <2>1, <2>2
<1>11. NotWorse'
  BY Zenon, <1>2, <1>4 DEF IInv, NotWorse, Worse
<1>12. Offered'
  <2>1. Sound(tip)' /\ Settled'
    BY Zenon, <1>1, <1>2, <1>4, <1>5 DEF Sound, Settled
  <2>2. PICK r \in Blocks : Reference(r)
    BY Zenon DEF IInv, Offered
  <2>3. Reference(r)'
    BY Zenon, <1>2, <1>3, <1>4, <2>2 DEF Reference, Sound, Worse
  <2> QED BY Zenon, <2>1, <2>2, <2>3 DEF Offered
<1> QED BY Zenon, <1>7, <1>8, <1>9, <1>10, <1>11, <1>12 DEF IInv, Indexed

-----------------------------------------------------------------------------
(* ReceivedBlockTransactions, first branch: b and what waited for it are    *)
(* linked.                                                                  *)

LEMMA NowLinkedIs ==
    ASSUME Indexed, NEW b \in Blocks \ {Genesis}, b \notin haveData, Parent[b] \in linked
    PROVE  /\ b \in NowLinked(b)
           /\ NowLinked(b) \subseteq mapBlocksUnlinked \cup {b}
           /\ NowLinked(b) \cap linked = {}
           /\ \A c \in NowLinked(b) : Ancestors[c] \subseteq linked \cup NowLinked(b)
           /\ WaitingFor(NowLinked(b)) \subseteq NowLinked(b)
           /\ NowLinked(b) \cap mapBlocksUnlinked \subseteq WaitingFor(NowLinked(b))
           /\ Cardinality(NowLinked(b)) \in Nat
<1>1. /\ b \notin linked /\ b \notin mapBlocksUnlinked
      /\ mapBlocksUnlinked \subseteq Blocks \ {Genesis}
      /\ mapBlocksUnlinked \cap linked = {}
  BY Zenon, Basics DEF Indexed, TypeOK, Stored, LinkedChains
<1>2. b \in NowLinked(b)
  BY Zenon, Tree DEF NowLinked
<1>3. NowLinked(b) \in SUBSET Blocks
  BY Zenon DEF NowLinked
<1>4. ASSUME NEW c \in NowLinked(b), c # b
      PROVE  c \in mapBlocksUnlinked /\ Parent[c] \in NowLinked(b)
  <2>1. /\ c \in Blocks /\ b \in Ancestors[c] /\ c \in Ancestors[c]
        /\ Ancestors[c] \ Ancestors[b] \subseteq mapBlocksUnlinked
    BY Zenon, Tree DEF NowLinked
  <2>2. c \notin Ancestors[b]
    <3>1. c \in Ancestors[b] => Height[c] < Height[b]
      BY Zenon, <1>4, Below DEF ChainBelow
    <3>2. Height[b] < Height[c]
      BY Zenon, <1>4, <2>1, Below DEF ChainBelow
    <3>3. Height[b] \in Nat /\ Height[c] \in Nat
      BY Zenon, <2>1, Tree
    <3> QED BY SMTT(30), <3>1, <3>2, <3>3
  <2>3. c \in mapBlocksUnlinked
    BY Zenon, <2>1, <2>2
  <2>4. Parent[c] \in Blocks /\ Ancestors[c] = Ancestors[Parent[c]] \cup {c}
    BY Zenon, <1>1, <2>3, Tree
  <2>5. Parent[c] \in NowLinked(b)
    BY Zenon, <1>4, <2>1, <2>4 DEF NowLinked
  <2> QED BY Zenon, <2>3, <2>5
<1>5. ASSUME NEW c \in NowLinked(b), NEW d \in Ancestors[c]
      PROVE  d \in linked \cup NowLinked(b)
  <2>1. c \in Blocks /\ b \in Ancestors[c] /\ Ancestors[c] \ Ancestors[b] \subseteq mapBlocksUnlinked
    BY Zenon DEF NowLinked
  <2>2. d \in Blocks /\ Ancestors[d] \subseteq Ancestors[c]
    BY Zenon, <2>1, ChainOf
  <2>3. CASE d \in Ancestors[b]
    <3>1. Ancestors[b] = Ancestors[Parent[b]] \cup {b}
      BY Zenon, Tree
    <3>2. Ancestors[Parent[b]] \subseteq linked
      BY Zenon DEF Indexed, LinkedChains
    <3> QED BY Zenon, <1>2, <2>3, <3>1, <3>2
  <2>4. CASE d \notin Ancestors[b]
    <3>1. b \in Ancestors[d]
      BY Zenon, <2>1, <2>4, AboveInChain
    <3> QED BY Zenon, <2>1, <2>2, <3>1 DEF NowLinked
  <2> QED BY Zenon, <2>3, <2>4
<1>6. ASSUME NEW c \in WaitingFor(NowLinked(b))
      PROVE  c \in NowLinked(b)
  <2>1. c \in mapBlocksUnlinked /\ Parent[c] \in NowLinked(b)
    BY Zenon DEF WaitingFor
  <2>2. c \in Blocks /\ Ancestors[c] = Ancestors[Parent[c]] \cup {c}
    BY Zenon, <1>1, <2>1, Tree
  <2> QED BY Zenon, <2>1, <2>2 DEF NowLinked
<1>7. NowLinked(b) \subseteq mapBlocksUnlinked \cup {b} /\ NowLinked(b) \cap linked = {}
  BY Zenon, <1>1, <1>4
<1>8. NowLinked(b) \cap mapBlocksUnlinked \subseteq WaitingFor(NowLinked(b))
  BY Zenon, <1>1, <1>4 DEF WaitingFor
<1>9. Cardinality(NowLinked(b)) \in Nat
  <2>1. IsFiniteSet(Blocks)
    BY Zenon, TreeAssumption
  <2>2. IsFiniteSet(NowLinked(b))
    BY Zenon, <1>3, <2>1, FS_Subset
  <2> QED BY Zenon, <2>2, FS_CardinalityType
<1> QED BY Zenon, <1>2, <1>5, <1>6, <1>7, <1>8, <1>9

\* The new sequence numbers: above all earlier ones, and no two alike.
SpacedIds(S, ids, next) ==
    /\ ids \in [Blocks -> 0 .. MaxSequenceId]
    /\ ids \in [Blocks -> Nat]
    /\ next \in 1 .. MaxSequenceId + 1
    /\ \A c \in linked : ids[c] = nSequenceId[c]
    /\ \A c \in linked \cup S : ids[c] < next
    /\ \A c, d \in linked \cup S : c # d => ids[c] # ids[d]

LEMMA NewIds ==
    ASSUME Indexed, NEW S \in SUBSET (Blocks \ linked), Cardinality(S) \in Nat,
           NEW id \in SequenceIds(S), NEW next, next = nBlockSequenceId + Cardinality(S),
           next <= MaxSequenceId + 1,
           NEW ids, ids = [c \in Blocks |-> IF c \in S THEN id[c] ELSE nSequenceId[c]]
    PROVE  SpacedIds(S, ids, next)
<1>1. /\ nBlockSequenceId \in Nat /\ nBlockSequenceId >= 1 /\ MaxSequenceId \in Nat
      /\ nSequenceId \in [Blocks -> 0 .. MaxSequenceId] /\ linked \subseteq Blocks
  <2>1. nBlockSequenceId \in 1 .. MaxSequenceId + 1 /\ MaxSequenceId \in Nat
    BY Zenon, NodeFacts DEF Indexed, TypeOK
  <2>2. nBlockSequenceId \in Nat /\ nBlockSequenceId >= 1
    BY SMTT(30), <2>1
  <2> QED BY Zenon, <2>1, <2>2, Basics DEF Indexed, TypeOK
<1>2. /\ id \in [S -> nBlockSequenceId .. nBlockSequenceId + Cardinality(S) - 1]
      /\ \A c, d \in S : c # d => id[c] # id[d]
  BY Zenon DEF SequenceIds
<1>3. ASSUME NEW c \in S
      PROVE  /\ ids[c] = id[c] /\ id[c] \in Nat
             /\ nBlockSequenceId <= id[c] /\ id[c] < next /\ id[c] <= MaxSequenceId
  <2>1. id[c] \in nBlockSequenceId .. nBlockSequenceId + Cardinality(S) - 1 /\ ids[c] = id[c]
    BY Zenon, <1>2
  <2> QED BY SMTT(30), <1>1, <2>1
<1>4. ASSUME NEW c \in linked
      PROVE  /\ ids[c] = nSequenceId[c] /\ nSequenceId[c] \in Nat
             /\ nSequenceId[c] < nBlockSequenceId /\ nSequenceId[c] < next
  <2>1. /\ ids[c] = nSequenceId[c] /\ nSequenceId[c] \in 0 .. MaxSequenceId
        /\ nSequenceId[c] < nBlockSequenceId
    BY Zenon, <1>1 DEF Indexed, Numbered
  <2> QED BY SMTT(30), <1>1, <2>1
<1>5. ids \in [Blocks -> 0 .. MaxSequenceId]
  <2> SUFFICES ASSUME NEW c \in Blocks
               PROVE  (IF c \in S THEN id[c] ELSE nSequenceId[c]) \in 0 .. MaxSequenceId
    BY Zenon
  <2>1. CASE c \in S
    BY SMTT(30), <1>1, <1>3, <2>1
  <2>2. CASE c \notin S
    BY Zenon, <1>1, <2>2
  <2> QED BY Zenon, <2>1, <2>2
<1>6. ids \in [Blocks -> Nat]
  BY SMTT(30), <1>5
<1>7. next \in 1 .. MaxSequenceId + 1
  BY SMTT(30), <1>1
<1>8. ASSUME NEW c \in linked \cup S, NEW d \in linked \cup S, c # d
      PROVE  ids[c] # ids[d]
  <2>1. CASE c \in S /\ d \in S
    BY Zenon, <1>2, <1>3, <1>8, <2>1
  <2>2. CASE c \in linked /\ d \in linked
    BY Zenon, <1>4, <1>8, <2>2 DEF Indexed, Numbered
  <2>3. CASE c \in linked /\ d \in S
    BY SMTT(30), <1>1, <1>3, <1>4, <2>3
  <2>4. CASE c \in S /\ d \in linked
    BY SMTT(30), <1>1, <1>3, <1>4, <2>4
  <2> QED BY Zenon, <2>1, <2>2, <2>3, <2>4
<1> QED BY Zenon, <1>3, <1>4, <1>5, <1>6, <1>7, <1>8 DEF SpacedIds

LEMMA LinkStep ==
    ASSUME IInv, node' = node, ~fRequestShutdown, entering + looping < Threads,
           NEW b \in Blocks \ BadBlocks, b # Genesis, b \notin haveData,
           mapBlockIndex' = mapBlockIndex \cup {b}, ReceivedBlockTransactions(b),
           Parent[b] \in linked, entering' = entering + 1,
           UNCHANGED <<tip, looping, fRequestShutdown, rpcs, prunes>>
    PROVE  IInv'
<1> DEFINE S == NowLinked(b)
<1>1. /\ Indexed /\ node \in Nodes /\ Sound(tip) /\ tip \in linked /\ tip \in Blocks
      /\ entering \in Nat /\ looping \in Nat /\ Threads \in Nat
  BY Zenon, Basics, NodeFacts DEF IInv, Offered
<1>2. /\ haveData' = haveData \cup {b} /\ received' = received \cup {b} /\ Link(b)
      /\ UNCHANGED <<haveUndo, failedValid, failedChild, scriptsValid>>
  BY Zenon DEF ReceivedBlockTransactions
<1>3. /\ b \in S /\ S \subseteq mapBlocksUnlinked \cup {b} /\ S \cap linked = {}
      /\ \A c \in S : Ancestors[c] \subseteq linked \cup S
      /\ WaitingFor(S) \subseteq S /\ S \cap mapBlocksUnlinked \subseteq WaitingFor(S)
      /\ Cardinality(S) \in Nat
  BY Zenon, <1>1, NowLinkedIs
<1>4. S \in SUBSET (Blocks \ linked)
  BY Zenon, <1>3 DEF NowLinked
<1>5. PICK id \in SequenceIds(S) :
        /\ nBlockSequenceId + Cardinality(S) <= MaxSequenceId + 1
        /\ nSequenceId' = [c \in Blocks |-> IF c \in S THEN id[c] ELSE nSequenceId[c]]
        /\ nBlockSequenceId' = nBlockSequenceId + Cardinality(S)
        /\ linked' = linked \cup S
        /\ setBlockIndexCandidates' = setBlockIndexCandidates \cup AsGoodAsTip(S, nSequenceId')
        /\ mapBlocksUnlinked' = mapBlocksUnlinked \ WaitingFor(S)
  BY Zenon, <1>2 DEF Link
<1>6. /\ nSequenceId' \in [Blocks -> 0 .. MaxSequenceId]
      /\ nSequenceId' \in [Blocks -> Nat]
      /\ nBlockSequenceId' \in 1 .. MaxSequenceId + 1
      /\ \A c \in linked : nSequenceId'[c] = nSequenceId[c]
      /\ \A c \in linked \cup S : nSequenceId'[c] < nBlockSequenceId'
      /\ \A c, d \in linked \cup S : c # d => nSequenceId'[c] # nSequenceId'[d]
  <2> HIDE DEF S
  <2>1. nBlockSequenceId' <= MaxSequenceId + 1
    BY Zenon, <1>5
  <2>2. SpacedIds(S, nSequenceId', nBlockSequenceId')
    BY Zenon, <1>1, <1>3, <1>4, <1>5, <2>1, NewIds
  <2> QED BY Zenon, <2>2 DEF SpacedIds
<1> HIDE DEF S
<1>7. Failed' = Failed /\ \A x, y \in linked : Worse(x, y)' <=> Worse(x, y)
  BY Zenon, <1>2, <1>6 DEF Failed, Worse, WorseBy
<1>8. /\ entering' \in 0 .. Threads /\ entering' + looping <= Threads
      /\ entering' + looping # 0
  BY SMTT(30), <1>1
<1>9. /\ S \subseteq received \cup {b} /\ S \subseteq Blocks
      /\ AsGoodAsTip(S, nSequenceId') \subseteq S
  BY Zenon, <1>1, <1>3, <1>4 DEF Indexed, TypeOK, AsGoodAsTip
<1>10. TypeOK'
  BY Zenon, <1>1, <1>2, <1>5, <1>6, <1>8, <1>9, SameNode DEF Indexed, TypeOK
<1>11. Stored' /\ ActiveConnected'
  BY Zenon, <1>1, <1>2, <1>8, SameNode DEF Indexed, Stored, ActiveConnected
<1>12. LinkedChains'
  BY Zenon, <1>1, <1>3, <1>5 DEF Indexed, LinkedChains, WaitingFor
<1>13. Numbered'
  BY Zenon, <1>5, <1>6 DEF Numbered
<1>14. MarksCaused'
  BY Zenon, <1>1, <1>2, <1>7, SameNode DEF Indexed, MarksCaused, FailedHasInvalidAncestor
<1>15. Waiting'
  <2> SUFFICES ASSUME NoRpcs, NEW x \in received' \ linked'
               PROVE  x \in mapBlocksUnlinked' \/ Parent[x] \in failedValid' \cap BadBlocks
    BY Zenon, <1>2, <1>5, SameNode DEF IInv, Waiting
  <2>1. x \in received \ linked /\ x \notin S
    BY Zenon, <1>2, <1>3, <1>5
  <2>2. x \in mapBlocksUnlinked \/ Parent[x] \in failedValid \cap BadBlocks
    BY Zenon, <2>1 DEF IInv, Waiting
  <2> QED BY Zenon, <1>2, <1>3, <1>5, <2>1, <2>2
<1>16. NotWorse'
  <2> SUFFICES ASSUME NEW c \in setBlockIndexCandidates'
               PROVE  ~Worse(c, tip)'
    BY Zenon DEF NotWorse, Worse
  <2>1. CASE c \in setBlockIndexCandidates
    BY Zenon, <1>1, <1>7, <2>1, Basics DEF IInv, NotWorse
  <2>2. CASE c \in AsGoodAsTip(S, nSequenceId')
    BY Zenon, <2>2 DEF AsGoodAsTip, Worse
  <2> QED BY Zenon, <1>5, <2>1, <2>2
<1>17. Offered'
  <2>1. Sound(tip)' /\ Settled'
    BY Zenon, <1>1, <1>2, <1>7, <1>8 DEF Sound, Settled
  <2>2. PICK r \in Blocks : Reference(r)
    BY Zenon DEF IInv, Offered
  <2>3. r \in linked /\ ~Worse(r, tip)'
    BY Zenon, <1>1, <1>7, <2>2, Basics DEF Reference
  <2>4. ASSUME NEW c \in linked' \ Failed', ~Worse(c, r)'
        PROVE  c \in setBlockIndexCandidates'
    <3>1. CASE c \in linked
      BY Zenon, <1>5, <1>7, <2>2, <2>3, <2>4, <3>1 DEF Reference
    <3>2. CASE c \in S
      <4>1. c \in Blocks
        BY Zenon, <1>9, <3>2
      <4>2. ~WorseBy(nSequenceId', c, r) /\ ~WorseBy(nSequenceId', r, tip)
        BY Zenon, <2>3, <2>4 DEF Worse
      <4>3. ~WorseBy(nSequenceId', c, tip)
        BY Zenon, <1>1, <1>6, <2>2, <4>1, <4>2, WorseOrder
      <4> QED BY Zenon, <1>5, <3>2, <4>3 DEF AsGoodAsTip
    <3> QED BY Zenon, <1>5, <3>1, <3>2
  <2>5. Reference(r)'
    BY Zenon, <1>2, <1>5, <1>7, <2>2, <2>3, <2>4 DEF Reference, Sound, Worse
  <2> QED BY Zenon, <2>1, <2>2, <2>5 DEF Offered
<1> QED BY Zenon, <1>10, <1>11, <1>12, <1>13, <1>14, <1>15, <1>16, <1>17 DEF IInv, Indexed

LEMMA ProcessNewBlockStep ==
    ASSUME IInv, node' = node, NEW b \in Arriving, NEW fRequested \in BOOLEAN,
           ProcessNewBlock(b, fRequested)
    PROVE  IInv'
<1>1. b \in Blocks /\ b # Genesis /\ mapBlockIndex \subseteq Blocks
  BY Zenon, Basics, NodeFacts DEF IInv, Indexed, TypeOK
<1>2. /\ ~fRequestShutdown /\ entering + looping < Threads
      /\ mapBlockIndex' = mapBlockIndex \cup {b}
      /\ UNCHANGED <<tip, looping, fRequestShutdown, rpcs, prunes>>
  BY Zenon DEF ProcessNewBlock
<1>3. CASE /\ entering' = entering + 1
           /\ UNCHANGED <<status, order, setBlockIndexCandidates, mapBlocksUnlinked>>
  BY Zenon, <1>1, <1>2, <1>3, HeaderKnown
<1>4. CASE /\ b \notin haveData /\ b \in BadBlocks
           /\ failedValid' = failedValid \cup {b}
           /\ UNCHANGED <<haveData, haveUndo, failedChild, received, scriptsValid, linked,
                          order, setBlockIndexCandidates, mapBlocksUnlinked, entering>>
  BY Zenon, <1>1, <1>2, <1>4, BadBlockStep
<1>5. CASE /\ b \notin haveData /\ b \notin BadBlocks
           /\ ReceivedBlockTransactions(b) /\ entering' = entering + 1
  BY Zenon, <1>1, <1>2, <1>5, LinkStep, ParkStep
<1> QED BY Zenon, <1>3, <1>4, <1>5 DEF ProcessNewBlock, Ignored

LEMMA AcceptBlockHeaderStep ==
    ASSUME IInv, node' = node, NEW b \in Arriving, AcceptBlockHeader(b)
    PROVE  IInv'
<1>1. b \in Blocks /\ mapBlockIndex \subseteq Blocks
  BY Zenon, Basics, NodeFacts DEF IInv, Indexed, TypeOK
<1> QED BY Zenon, <1>1, HeaderKnown DEF AcceptBlockHeader

-----------------------------------------------------------------------------
(* The RPCs.                                                                *)

\* Where invalidateblock takes the tip: nothing from b upwards is active any more.
LEMMA TipAfterInvalidate ==
    ASSUME Indexed, NEW b \in Blocks \ {Genesis}, NEW t,
           t = IF ActiveFrom(b) = {} THEN tip ELSE Parent[b]
    PROVE  /\ Undisconnectable(ActiveFrom(b)) = {}
           /\ ActiveFrom(b) \subseteq linked
           /\ t \in Ancestors[tip] /\ t \in Ancestors[t] /\ t \in linked /\ t \in Blocks
           /\ Ancestors[t] \subseteq Ancestors[tip]
           /\ Ancestors[t] \cap (ActiveFrom(b) \cup {b}) = {}
<1>1. tip \in Blocks /\ Ancestors[tip] \subseteq linked /\ b \in Ancestors[b]
  BY Zenon, Basics, Tree
<1>2. Undisconnectable(ActiveFrom(b)) = {}
  <2> SUFFICES ASSUME NEW c \in ActiveFrom(b)
               PROVE  c \in haveData /\ c \in haveUndo
    BY Zenon DEF Undisconnectable
  <2>1. c \in Ancestors[tip] /\ c # Genesis
    BY Zenon, Tree DEF ActiveFrom
  <2> QED BY Zenon, <2>1 DEF Indexed, ActiveConnected, Stored, TypeOK
<1>3. CASE ActiveFrom(b) = {}
  <2>1. b \notin Ancestors[tip]
    BY Zenon, <1>1, <1>3 DEF ActiveFrom
  <2>2. t = tip /\ tip \in Ancestors[tip]
    BY Zenon, <1>1, <1>3, Tree
  <2> QED BY Zenon, <1>1, <1>2, <1>3, <2>1, <2>2
<1>4. CASE ActiveFrom(b) # {}
  <2>1. PICK c \in Ancestors[tip] : b \in Ancestors[c]
    BY Zenon, <1>4 DEF ActiveFrom
  <2>2. b \in Ancestors[tip]
    BY Zenon, <1>1, <2>1, ChainOf
  <2>3. Ancestors[b] \subseteq Ancestors[tip]
    BY Zenon, <1>1, <2>2, ChainOf
  <2>4. /\ t = Parent[b] /\ Parent[b] \in Blocks /\ Parent[b] \in Ancestors[Parent[b]]
        /\ Ancestors[b] = Ancestors[Parent[b]] \cup {b} /\ b \notin Ancestors[Parent[b]]
    BY Zenon, <1>4, Tree
  <2>5. ASSUME NEW d \in Ancestors[t], d \in ActiveFrom(b)
        PROVE  FALSE
    <3>1. Ancestors[d] \subseteq Ancestors[t] /\ b \in Ancestors[d]
      BY Zenon, <2>4, <2>5, ChainOf DEF ActiveFrom
    <3> QED BY Zenon, <2>4, <3>1
  <2> QED BY Zenon, <1>1, <1>2, <2>3, <2>4, <2>5 DEF ActiveFrom
<1> QED BY Zenon, <1>3, <1>4

LEMMA InvalidateBlockStep ==
    ASSUME IInv, node' = node, NEW b \in Invalidated, InvalidateBlock(b)
    PROVE  IInv'
<1> DEFINE A == ActiveFrom(b)
<1>1. /\ Indexed /\ node \in Nodes /\ b \in Blocks \ {Genesis} /\ tip \in Blocks /\ tip \in linked
      /\ entering \in Nat /\ looping \in Nat /\ Threads \in Nat /\ MaxRpcs \in Nat
      /\ nSequenceId \in [Blocks -> Nat]
  BY Zenon, Basics, NodeFacts DEF IInv
<1>2. Undisconnectable(A) = {}
  BY Zenon, <1>1, TipAfterInvalidate
<1>3. /\ ~fRequestShutdown /\ entering + looping < Threads /\ rpcs < MaxRpcs
      /\ b \in mapBlockIndex
      /\ failedValid' = failedValid \cup {b} /\ failedChild' = failedChild \cup A
      /\ tip' = IF A = {} THEN tip ELSE Parent[b]
      /\ setBlockIndexCandidates' = (setBlockIndexCandidates \ (A \cup {b}))
                                       \cup Reoffered(tip', A \cup {b})
      /\ fRequestShutdown' = FALSE /\ entering' = entering + 1 /\ rpcs' = rpcs + 1
      /\ UNCHANGED <<mapBlockIndex, haveData, haveUndo, received, scriptsValid, linked, order,
                     mapBlocksUnlinked, looping, prunes>>
  <2>1. {c \in A : \A d \in {} : Height[c] >= Height[d]} = A
    BY Zenon
  <2> QED BY Zenon, <1>2, <2>1 DEF InvalidateBlock
<1>4. /\ A \subseteq linked
      /\ tip' \in Ancestors[tip] /\ tip' \in Ancestors[tip'] /\ tip' \in linked /\ tip' \in Blocks
      /\ Ancestors[tip'] \subseteq Ancestors[tip]
      /\ Ancestors[tip'] \cap (A \cup {b}) = {}
  BY Zenon, <1>1, <1>3, TipAfterInvalidate
<1>5. \A c \in A : b \in Ancestors[c]
  BY Zenon DEF ActiveFrom
<1> HIDE DEF A
<1>6. Failed' = Failed \cup A \cup {b} /\ \A x, y : Worse(x, y)' <=> WorseBy(nSequenceId, x, y)
  BY Zenon, <1>3 DEF Failed, Worse, WorseBy, order
<1>7. /\ entering' \in 0 .. Threads /\ entering' + looping <= Threads
      /\ entering' + looping # 0
  BY SMTT(30), <1>1, <1>3
<1>8. rpcs' \in 0 .. MaxRpcs /\ ~NoRpcs
  <2>1. rpcs \in 0 .. MaxRpcs
    BY Zenon, <1>1 DEF Indexed, TypeOK
  <2> QED BY SMTT(30), <1>1, <1>3, <2>1 DEF NoRpcs
<1>9. Reoffered(tip', A \cup {b}) = {c \in linked \ Failed' : ~Worse(c, tip')}
  BY Zenon, <1>1, <1>6, Basics DEF Reoffered
<1>10. TypeOK'
  BY Zenon, <1>1, <1>3, <1>4, <1>7, <1>8, <1>9, SameNode DEF Indexed, TypeOK, order
<1>11. Stored' /\ LinkedChains' /\ Numbered' /\ ActiveConnected'
  BY Zenon, <1>1, <1>3, <1>4, <1>7, SameNode
     DEF Indexed, Stored, LinkedChains, Numbered, ActiveConnected, order
<1>12. MarksCaused'
  <2>1. failedValid' \subseteq Causes'
    BY Zenon, <1>1, <1>3, SameNode DEF Indexed, MarksCaused, Causes
  <2>2. b \in Ancestors[b]
    BY Zenon, <1>1, Tree
  <2>3. \A c \in Failed' : Ancestors[c] \cap failedValid' # {}
    BY Zenon, <1>1, <1>3, <1>5, <1>6, <2>2 DEF Indexed, MarksCaused, FailedHasInvalidAncestor
  <2> QED BY Zenon, <2>1, <2>3 DEF MarksCaused, FailedHasInvalidAncestor
<1>13. Waiting'
  BY Zenon, <1>8, SameNode DEF Waiting
<1>14. NotWorse'
  <2> SUFFICES ASSUME NEW c \in setBlockIndexCandidates'
               PROVE  ~WorseBy(nSequenceId, c, tip')
    BY Zenon, <1>6 DEF NotWorse, Worse
  <2>1. CASE c \in setBlockIndexCandidates
    <3>1. c \in Blocks /\ ~WorseBy(nSequenceId, c, tip)
      BY Zenon, <1>1, <2>1, Basics DEF IInv, NotWorse, Worse
    <3> QED BY Zenon, <1>1, <1>4, <3>1, WorseBelow
  <2>2. CASE c \in Reoffered(tip', A \cup {b})
    BY Zenon, <1>9, <2>2 DEF Worse
  <2> QED BY Zenon, <1>3, <2>1, <2>2
<1>15. Offered'
  <2>1. Sound(tip) /\ ~WorseBy(nSequenceId, tip', tip')
    BY Zenon, <1>1, <1>3, <1>4, WorseOrder DEF IInv, Offered
  <2>2. Sound(tip)' /\ Settled'
    BY Zenon, <1>3, <1>4, <1>6, <1>7, <2>1 DEF Sound, Settled
  <2>3. tip' \in setBlockIndexCandidates'
    <3>1. tip' \notin Failed'
      BY Zenon, <1>4, <2>2 DEF Sound
    <3> QED BY Zenon, <1>3, <1>4, <1>9, <2>1, <3>1 DEF Worse
  <2>4. ASSUME NEW c \in linked' \ Failed', ~WorseBy(nSequenceId, c, tip')
        PROVE  c \in setBlockIndexCandidates'
    BY Zenon, <1>3, <1>9, <2>4 DEF Worse
  <2>5. Reference(tip)'
    BY Zenon, <1>6, <2>1, <2>2, <2>3, <2>4 DEF Reference, Worse
  <2> QED BY Zenon, <1>4, <2>2, <2>5 DEF Offered
<1> QED BY Zenon, <1>10, <1>11, <1>12, <1>13, <1>14, <1>15 DEF IInv, Indexed

LEMMA ReconsiderBlockStep ==
    ASSUME IInv, RpcsAtRoots, node' = node, NEW b \in Reconsidered, ReconsiderBlock(b)
    PROVE  IInv'
<1> DEFINE C == Cleared(b)
<1>1. /\ Indexed /\ node \in Nodes /\ b \in Blocks \ {Genesis} /\ tip \in Blocks /\ tip \in linked
      /\ entering \in Nat /\ looping \in Nat /\ Threads \in Nat /\ MaxRpcs \in Nat
      /\ nSequenceId \in [Blocks -> Nat]
  BY Zenon, Basics, NodeFacts DEF IInv
<1>2. /\ ~fRequestShutdown /\ entering + looping < Threads /\ rpcs < MaxRpcs
      /\ failedValid' = failedValid \ (C \cup Ancestors[b])
      /\ failedChild' = failedChild \ (C \cup Ancestors[b])
      /\ setBlockIndexCandidates' = setBlockIndexCandidates \cup BetterThanTip(C)
      /\ entering' = entering + 1 /\ rpcs' = rpcs + 1
      /\ UNCHANGED <<mapBlockIndex, haveData, haveUndo, received, scriptsValid, linked, order,
                     mapBlocksUnlinked, tip, looping, fRequestShutdown, prunes>>
  BY Zenon DEF ReconsiderBlock
<1>3. Failed' = Failed \ (C \cup Ancestors[b]) /\ \A x, y : Worse(x, y)' <=> Worse(x, y)
  BY Zenon, <1>2 DEF Failed, Worse, WorseBy, order
<1>4. /\ entering' \in 0 .. Threads /\ entering' + looping <= Threads
      /\ entering' + looping # 0
  BY SMTT(30), <1>1, <1>2
<1>5. rpcs' \in 0 .. MaxRpcs /\ ~NoRpcs
  <2>1. rpcs \in 0 .. MaxRpcs
    BY Zenon, <1>1 DEF Indexed, TypeOK
  <2> QED BY SMTT(30), <1>1, <1>2, <2>1 DEF NoRpcs
<1>6. \A a \in failedValid : a \in Ancestors[b] => a = b
  BY Zenon, <1>1, <1>5 DEF RpcsAtRoots, Indexed, MarksCaused
<1>7. Failed \subseteq Blocks
  BY Zenon, <1>1 DEF Indexed, TypeOK, Failed
<1>8. Failed \cap Ancestors[b] \subseteq C
  <2> SUFFICES ASSUME NEW c \in Failed, c \in Ancestors[b]
               PROVE  b \in Ancestors[c]
    BY Zenon DEF Cleared
  <2>1. PICK a \in failedValid : a \in Ancestors[c]
    BY Zenon, <1>1 DEF Indexed, MarksCaused, FailedHasInvalidAncestor
  <2>2. a \in Ancestors[b]
    BY Zenon, <1>1, <2>1, ChainOf
  <2> QED BY Zenon, <1>6, <2>1, <2>2
<1>9. BetterThanTip(C) = {c \in C \cap linked : Worse(tip, c)}
  BY Zenon, <1>1, Basics DEF BetterThanTip
<1>10. TypeOK'
  BY Zenon, <1>1, <1>2, <1>4, <1>5, <1>9, SameNode DEF Indexed, TypeOK, order
<1>11. Stored' /\ LinkedChains' /\ Numbered' /\ ActiveConnected'
  BY Zenon, <1>1, <1>2, <1>4, SameNode
     DEF Indexed, Stored, LinkedChains, Numbered, ActiveConnected, order
<1>12. MarksCaused'
  <2>1. failedValid' \subseteq Causes'
    BY Zenon, <1>1, <1>2, SameNode DEF Indexed, MarksCaused
  <2>2. ASSUME NEW c \in Failed'
        PROVE  Ancestors[c] \cap failedValid' # {}
    <3>1. c \in Failed /\ c \in Blocks /\ b \notin Ancestors[c]
      BY Zenon, <1>3, <1>7 DEF Cleared
    <3>2. PICK a \in failedValid : a \in Ancestors[c]
      BY Zenon, <1>1, <3>1 DEF Indexed, MarksCaused, FailedHasInvalidAncestor
    <3>3. b \notin Ancestors[a]
      BY Zenon, <3>1, <3>2, ChainOf
    <3>4. a \notin Ancestors[b]
      BY Zenon, <1>6, <3>1, <3>2
    <3> QED BY Zenon, <1>2, <3>2, <3>3, <3>4 DEF Cleared
  <2> QED BY Zenon, <2>1, <2>2 DEF MarksCaused, FailedHasInvalidAncestor
<1>13. Waiting'
  BY Zenon, <1>5, SameNode DEF Waiting
<1>14. ASSUME NEW c \in BetterThanTip(C)
       PROVE  ~Worse(c, tip)
  <2>1. c \in Blocks /\ WorseBy(nSequenceId, tip, c)
    BY Zenon, <1>1, <1>9, Basics DEF Worse
  <2>2. ~WorseBy(nSequenceId, c, tip)
    BY Zenon, <1>1, <2>1, WorseOrder
  <2> QED BY Zenon, <2>2 DEF Worse
<1>15. NotWorse'
  <2>1. \A c \in setBlockIndexCandidates' : ~Worse(c, tip)
    BY Zenon, <1>2, <1>14 DEF IInv, NotWorse
  <2> QED BY Zenon, <1>2, <1>3, <2>1 DEF NotWorse, Worse
<1>16. Offered'
  <2>1. Sound(tip) /\ tip \notin Failed
    BY Zenon, <1>1, <1>2, Tree DEF IInv, Offered, Sound
  <2>2. Sound(tip)' /\ Settled'
    BY Zenon, <1>2, <1>3, <1>4, <2>1 DEF Sound, Settled
  <2>3. PICK r \in Blocks : Reference(r)
    BY Zenon, <1>2 DEF IInv, Offered
  <2>4. ASSUME NEW c \in linked \ Failed', ~Worse(c, r)
        PROVE  c \in setBlockIndexCandidates'
    <3>1. CASE c \notin Failed
      BY Zenon, <1>2, <2>3, <2>4, <3>1 DEF Reference
    <3>2. CASE c \in Failed
      <4>1. c \in C /\ c # tip /\ c \in Blocks
        BY Zenon, <1>3, <1>7, <1>8, <2>1, <3>2
      <4>2. ~WorseBy(nSequenceId, c, r) /\ ~WorseBy(nSequenceId, r, tip)
        BY Zenon, <2>3, <2>4 DEF Reference, Worse
      <4>3. ~WorseBy(nSequenceId, c, tip)
        BY Zenon, <1>1, <2>3, <4>1, <4>2, WorseOrder
      <4>4. nSequenceId[c] # nSequenceId[tip]
        BY Zenon, <1>1, <4>1 DEF Indexed, Numbered
      <4>5. WorseBy(nSequenceId, tip, c)
        BY Zenon, <1>1, <4>1, <4>3, <4>4, WorseOrder
      <4> QED BY Zenon, <1>2, <1>9, <4>1, <4>5 DEF Worse
    <3> QED BY Zenon, <3>1, <3>2
  <2>5. Sound(r)'
    BY Zenon, <1>2, <1>3, <2>3 DEF Reference, Sound
  <2>6. Reference(r)'
    BY Zenon, <1>2, <1>3, <2>3, <2>4, <2>5 DEF Reference, Sound, Worse
  <2> QED BY Zenon, <2>2, <2>3, <2>6 DEF Offered
<1> QED BY Zenon, <1>10, <1>11, <1>12, <1>13, <1>15, <1>16 DEF IInv, Indexed

-----------------------------------------------------------------------------
(* A round of ActivateBestChain.                                            *)

LEMMA LeaveCounts ==
    ASSUME entering \in Nat, looping \in Nat, Threads \in Nat, entering + looping <= Threads,
           NEW first \in BOOLEAN, IF first THEN entering > 0 ELSE looping > 0, Leave(first)
    PROVE  /\ entering' \in 0 .. Threads /\ looping' \in 0 .. Threads
           /\ entering' + looping' <= Threads
BY SMTT(30) DEF Leave

LEMMA StayCounts ==
    ASSUME entering \in Nat, looping \in Nat, Threads \in Nat, entering + looping <= Threads,
           NEW first \in BOOLEAN, IF first THEN entering > 0 ELSE looping > 0, Stay(first)
    PROVE  /\ entering' \in 0 .. Threads /\ looping' \in 0 .. Threads
           /\ entering' + looping' <= Threads
           /\ looping' # 0 /\ entering' + looping' # 0
BY SMTT(30) DEF Stay

\* FindMostWorkChain always finds a chain: the reference tip at least can be used.
LEMMA Chosen ==
    ASSUME IInv, ~fRequestShutdown, NEW m, m = Best(UsableCandidates)
    PROVE  /\ UsableCandidates # {}
           /\ m \in setBlockIndexCandidates /\ m \in linked /\ m \in Blocks
           /\ Ancestors[m] \cap Failed = {} /\ ~Worse(m, tip)
           /\ \A c \in setBlockIndexCandidates :
                Ancestors[c] \cap Failed = {} => c = m \/ Worse(c, m)
           /\ m # tip => m \notin Ancestors[tip]
<1>1. /\ Indexed /\ Stored /\ Sound(tip) /\ setBlockIndexCandidates \subseteq linked
      /\ linked \subseteq Blocks /\ tip \in Blocks /\ nSequenceId \in [Blocks -> Nat]
  BY Zenon, Basics DEF IInv, Indexed, Offered
<1>2. \A c \in setBlockIndexCandidates : c \in UsableCandidates <=> Ancestors[c] \cap Failed = {}
  BY Zenon, <1>1, UsableIff DEF UsableCandidates
<1>3. UsableCandidates # {} /\ UsableCandidates \in SUBSET linked
  BY Zenon, <1>1, <1>2 DEF UsableCandidates, IInv, Offered, Reference, Sound
<1>4. m \in UsableCandidates /\ \A d \in UsableCandidates \ {m} : Worse(d, m)
  BY Zenon, <1>1, <1>3, BestIs
<1>5. m \in setBlockIndexCandidates /\ m \in linked /\ m \in Blocks
  BY Zenon, <1>1, <1>4 DEF UsableCandidates
<1>6. Ancestors[m] \cap Failed = {} /\ ~Worse(m, tip)
  BY Zenon, <1>2, <1>4, <1>5 DEF IInv, NotWorse
<1>7. ASSUME m # tip, m \in Ancestors[tip]
      PROVE  FALSE
  <2>1. WorseBy(nSequenceId, m, tip)
    BY Zenon, <1>1, <1>5, <1>7, WorseBelow
  <2> QED BY Zenon, <1>6, <2>1 DEF Worse
<1> QED BY Zenon, <1>2, <1>3, <1>4, <1>5, <1>6, <1>7

\* The marks FindMostWorkChain makes spare every chain without a mark.
LEMMA SparedChain ==
    ASSUME Indexed, NEW c \in Blocks, Ancestors[c] \cap Failed = {}
    PROVE  Ancestors[c] \cap MarkedChildren = {} /\ c \notin Dropped
<1>1. ASSUME NEW d \in Ancestors[c], d \in MarkedChildren
      PROVE  FALSE
  <2>1. PICK o \in Failed : o \in Ancestors[d]
    BY Zenon, <1>1, Passed
  <2>2. Ancestors[d] \subseteq Ancestors[c]
    BY Zenon, ChainOf
  <2> QED BY Zenon, <2>1, <2>2
<1>2. c \in Ancestors[c]
  BY Zenon, Tree
<1> QED BY Zenon, <1>1, <1>2, Passed

\* The marks of a round: children of marked blocks, and what ConnectBlock finds invalid.
LEMMA RoundMarks ==
    ASSUME IInv, node' = node, NEW I \in SUBSET (linked \cap BadScripts),
           failedChild' = failedChild \cup MarkedChildren,
           failedValid' = failedValid \cup I,
           mapBlocksUnlinked' = mapBlocksUnlinked \cup SetAside,
           UNCHANGED <<linked, received>>
    PROVE  /\ MarksCaused' /\ Waiting'
           /\ Failed' = Failed \cup MarkedChildren \cup I
           /\ mapBlocksUnlinked' = mapBlocksUnlinked
           /\ failedChild' \subseteq failedChild \cup linked
           /\ failedValid' \subseteq failedValid \cup linked
<1>1. Indexed /\ linked \subseteq Blocks
  BY Zenon, Basics DEF IInv
<1>2. Failed' = Failed \cup MarkedChildren \cup I /\ mapBlocksUnlinked' = mapBlocksUnlinked
  BY Zenon, <1>1, Passed DEF Failed
<1>3. MarkedChildren \subseteq linked
  BY Zenon, <1>1, Passed
<1>4. failedValid' \subseteq Causes'
  BY Zenon, <1>1, SameNode DEF Indexed, MarksCaused, Causes
<1>5. ASSUME NEW c \in Failed'
      PROVE  Ancestors[c] \cap failedValid' # {}
  <2>1. CASE c \in Failed
    BY Zenon, <1>1, <2>1 DEF Indexed, MarksCaused, FailedHasInvalidAncestor
  <2>2. CASE c \in MarkedChildren
    <3>1. PICK o \in Failed : o \in Ancestors[c]
      BY Zenon, <1>1, <2>2, Passed
    <3>2. Ancestors[o] \subseteq Ancestors[c]
      BY Zenon, <1>1, <1>3, <2>2, <3>1, ChainOf
    <3>3. Ancestors[o] \cap failedValid # {}
      BY Zenon, <1>1, <3>1 DEF Indexed, MarksCaused, FailedHasInvalidAncestor
    <3> QED BY Zenon, <3>2, <3>3
  <2>3. CASE c \in I
    BY Zenon, <1>1, <2>3, Tree
  <2> QED BY Zenon, <1>2, <2>1, <2>2, <2>3
<1>6. MarksCaused'
  BY Zenon, <1>4, <1>5 DEF MarksCaused, FailedHasInvalidAncestor
<1>7. Waiting'
  <2> SUFFICES ASSUME NoRpcs
               PROVE  /\ failedValid' \subseteq linked \cup BadBlocks
                      /\ failedChild' \subseteq linked
                      /\ \A b \in received \ linked :
                           b \in mapBlocksUnlinked \/ Parent[b] \in failedValid' \cap BadBlocks
    BY Zenon, <1>2, SameNode DEF Waiting
  <2> QED BY Zenon, <1>3 DEF IInv, Waiting
<1> QED BY Zenon, <1>2, <1>3, <1>6, <1>7

\* FindMostWorkChain comes back to the tip: nothing better can be used.
LEMMA RestStep ==
    ASSUME IInv, node' = node, ~fRequestShutdown, NEW first \in BOOLEAN,
           IF first THEN entering > 0 ELSE looping > 0,
           failedChild' = failedChild \cup MarkedChildren,
           mapBlocksUnlinked' = mapBlocksUnlinked \cup SetAside,
           ~FoundOther,
           setBlockIndexCandidates' = setBlockIndexCandidates \ Dropped, Leave(first),
           UNCHANGED <<haveUndo, failedValid, scriptsValid, tip, fRequestShutdown, mapBlockIndex,
                       haveData, received, linked, order, rpcs, prunes>>
    PROVE  IInv'
<1>1. /\ Indexed /\ node \in Nodes /\ Sound(tip) /\ tip \in Blocks /\ linked \subseteq Blocks
      /\ entering \in Nat /\ looping \in Nat /\ Threads \in Nat /\ entering + looping <= Threads
      /\ nSequenceId \in [Blocks -> Nat] /\ setBlockIndexCandidates \subseteq linked
  BY Zenon, Basics, NodeFacts DEF IInv, Offered, Indexed, Stored
<1>2. tip \in setBlockIndexCandidates
      /\ \A c \in setBlockIndexCandidates :
           Ancestors[c] \cap Failed = {} => c = tip \/ Worse(c, tip)
  BY Zenon, Chosen DEF FoundOther
<1>3. /\ entering' \in 0 .. Threads /\ looping' \in 0 .. Threads
      /\ entering' + looping' <= Threads
  BY Zenon, <1>1, LeaveCounts
<1>4. /\ MarksCaused' /\ Waiting'
      /\ Failed' = Failed \cup MarkedChildren
      /\ mapBlocksUnlinked' = mapBlocksUnlinked
      /\ failedChild' \subseteq failedChild \cup linked
  <2>1. failedValid' = failedValid \cup {} /\ {} \in SUBSET (linked \cap BadScripts)
    BY Zenon
  <2>2. /\ MarksCaused' /\ Waiting'
        /\ Failed' = Failed \cup MarkedChildren \cup {}
        /\ mapBlocksUnlinked' = mapBlocksUnlinked
        /\ failedChild' \subseteq failedChild \cup linked
    BY Zenon, <2>1, RoundMarks
  <2> QED BY Zenon, <2>2
<1>5. \A x, y : Worse(x, y)' <=> Worse(x, y)
  BY Zenon DEF Worse, WorseBy, order
<1>6. TypeOK'
  BY Zenon, <1>1, <1>3, <1>4, SameNode DEF Indexed, TypeOK, order
<1>7. Stored' /\ LinkedChains' /\ Numbered' /\ ActiveConnected'
  BY Zenon, <1>1, <1>3, <1>4, SameNode
     DEF Indexed, Stored, LinkedChains, Numbered, ActiveConnected, order
<1>8. NotWorse'
  BY Zenon, <1>5 DEF IInv, NotWorse, Worse
<1>9. Offered'
  <2>1. Ancestors[tip] \cap MarkedChildren = {} /\ tip \notin Dropped
    BY Zenon, <1>1, SparedChain DEF Sound
  <2>2. Sound(tip)'
    BY Zenon, <1>1, <1>4, <2>1 DEF Sound
  <2>3. Reference(tip)
    BY Zenon, <1>2 DEF IInv, Offered, Reference, Sound
  <2>4. Dropped \subseteq Failed'
    BY Zenon, <1>1, <1>4, Passed
  <2>5. Reference(tip)'
    BY Zenon, <1>4, <1>5, <2>1, <2>2, <2>3, <2>4 DEF Reference, Worse
  <2>6. Settled'
    <3> SUFFICES ASSUME NEW c \in setBlockIndexCandidates, Ancestors[c] \cap Failed = {}
                 PROVE  ~WorseBy(nSequenceId, tip, c)
      BY Zenon, <1>4 DEF Settled, Worse, order
    <3>1. c \in Blocks /\ (c = tip \/ WorseBy(nSequenceId, c, tip))
      BY Zenon, <1>1, <1>2 DEF Worse
    <3> QED BY Zenon, <1>1, <3>1, WorseOrder
  <2> QED BY Zenon, <1>1, <2>2, <2>5, <2>6 DEF Offered
<1> QED BY Zenon, <1>4, <1>6, <1>7, <1>8, <1>9 DEF IInv, Indexed

\* The reorganisation is too long, and the node stops; nothing else can go wrong.
LEMMA GiveUpStep ==
    ASSUME IInv, node' = node, ~fRequestShutdown, NEW first \in BOOLEAN,
           IF first THEN entering > 0 ELSE looping > 0,
           failedChild' = failedChild \cup MarkedChildren,
           mapBlocksUnlinked' = mapBlocksUnlinked \cup SetAside,
           NEW m \in linked, ~CanSwitch(m), GiveUp(m, first),
           UNCHANGED <<mapBlockIndex, haveData, received, linked, order, rpcs, prunes>>
    PROVE  IInv'
<1>1. /\ Indexed /\ node \in Nodes /\ tip \in Blocks /\ m \in Blocks
      /\ entering \in Nat /\ looping \in Nat /\ Threads \in Nat /\ entering + looping <= Threads
      /\ MAX_REORG_LENGTH \in Nat
  BY Zenon, Basics, NodeFacts DEF IInv, Indexed, Stored
<1>2. Undisconnectable(ToDisconnect(m)) = {}
  <2> SUFFICES ASSUME NEW c \in ToDisconnect(m)
               PROVE  c \in haveData /\ c \in haveUndo
    BY Zenon DEF Undisconnectable
  <2>1. c \in Ancestors[tip] /\ c # Genesis
    BY Zenon, <1>1, Below DEF ToDisconnect, ChainBelow
  <2> QED BY Zenon, <1>1, <2>1 DEF Indexed, ActiveConnected, Stored, TypeOK
<1>3. Cardinality(ToDisconnect(m)) > MAX_REORG_LENGTH
  <2>1. IsFiniteSet(Blocks) /\ ToDisconnect(m) \in SUBSET Blocks
    BY Zenon, <1>1, TreeAssumption, Tree DEF ToDisconnect
  <2>2. Cardinality(ToDisconnect(m)) \in Nat
    BY Zenon, <2>1, FS_Subset, FS_CardinalityType
  <2>3. ~(Cardinality(ToDisconnect(m)) <= MAX_REORG_LENGTH)
    BY Zenon, <1>2 DEF CanSwitch
  <2> QED BY SMTT(30), <1>1, <2>2, <2>3
<1>4. /\ tip' = tip /\ fRequestShutdown' = TRUE /\ Leave(first)
      /\ setBlockIndexCandidates' = setBlockIndexCandidates \ Dropped
      /\ UNCHANGED <<haveUndo, scriptsValid, failedValid>>
  BY Zenon, <1>3 DEF GiveUp
<1>5. /\ entering' \in 0 .. Threads /\ looping' \in 0 .. Threads
      /\ entering' + looping' <= Threads
  BY Zenon, <1>1, <1>4, LeaveCounts
<1>6. /\ MarksCaused' /\ Waiting'
      /\ mapBlocksUnlinked' = mapBlocksUnlinked
      /\ failedChild' \subseteq failedChild \cup linked
  <2>1. failedValid' = failedValid \cup {} /\ {} \in SUBSET (linked \cap BadScripts)
    BY Zenon, <1>4
  <2> QED BY Zenon, <2>1, RoundMarks
<1>7. TypeOK'
  BY Zenon, <1>1, <1>4, <1>5, <1>6, SameNode DEF Indexed, TypeOK, order
<1>8. Stored' /\ LinkedChains' /\ Numbered' /\ ActiveConnected'
  BY Zenon, <1>1, <1>4, <1>5, <1>6, SameNode
     DEF Indexed, Stored, LinkedChains, Numbered, ActiveConnected, order
<1>9. NotWorse'
  BY Zenon, <1>4 DEF IInv, NotWorse, Worse, WorseBy, order
<1>10. Offered'
  BY Zenon, <1>4 DEF Offered
<1> QED BY Zenon, <1>6, <1>7, <1>8, <1>9, <1>10 DEF IInv, Indexed

\* The candidates C and the reference tip after a step towards m that ends in t with
\* the failed blocks F and the connected blocks V.
OffersAfter(m, t, F, C, V) ==
    /\ \A c \in C : ~Worse(c, t)
    /\ \E r \in Blocks :
         /\ r \in C /\ Ancestors[r] \ {Genesis} \subseteq V /\ Ancestors[r] \cap F = {}
         /\ \A c \in linked \ F : ~Worse(c, r) => c \in C
         /\ t = m => r = t
         /\ ~Worse(r, t)

\* The reference tip is now the new tip if that is better, else the old one.
LEMMA SwitchOffers ==
    ASSUME IInv, ~fRequestShutdown, NEW m \in linked, NEW t, t = NewTip(m),
           m \notin Ancestors[tip], Ancestors[m] \cap Failed = {},
           \A c \in setBlockIndexCandidates :
              Ancestors[c] \cap Failed = {} => c = m \/ Worse(c, m),
           NEW I, I = Invalid(m), NEW F, F = Failed \cup MarkedChildren \cup I,
           NEW C, C = setBlockIndexCandidates \ (Dropped \cup I \cup WorseThanNewTip(m)),
           NEW V, V = scriptsValid \cup Connected(m)
    PROVE  OffersAfter(m, t, F, C, V)
<1>1. /\ Indexed /\ Sound(tip) /\ tip \in Blocks /\ linked \subseteq Blocks
      /\ nSequenceId \in [Blocks -> Nat] /\ setBlockIndexCandidates \subseteq linked
      /\ node \in Nodes
  BY Zenon, Basics DEF IInv, Offered
<1>2. /\ t \in linked /\ t \in Blocks /\ t \in Ancestors[t]
      /\ Ancestors[t] \ {Genesis} \subseteq V /\ Ancestors[t] \cap F = {}
      /\ Connected(m) = {} => t \in Ancestors[tip]
      /\ I \subseteq BadScripts
  BY Zenon, <1>1, Reached, Tree
<1>3. ASSUME NEW c \in setBlockIndexCandidates, Connected(m) = {}
      PROVE  ~Worse(c, t)
  <2>1. c \in Blocks /\ ~WorseBy(nSequenceId, c, tip)
    BY Zenon, <1>1 DEF IInv, NotWorse, Worse
  <2> QED BY Zenon, <1>1, <1>2, <1>3, <2>1, WorseBelow DEF Worse
<1>4. \A c \in C : ~Worse(c, t)
  BY Zenon, <1>3 DEF WorseThanNewTip
<1>5. Dropped \cup I \subseteq F
  BY Zenon, <1>1, Passed
<1>6. ASSUME NEW c \in setBlockIndexCandidates \ F, ~Worse(c, t)
      PROVE  c \in C
  BY Zenon, <1>5, <1>6 DEF WorseThanNewTip
<1>7. PICK r \in Blocks : Reference(r)
  BY Zenon DEF IInv, Offered
<1>8. ~WorseBy(nSequenceId, t, t)
  BY Zenon, <1>1, <1>2, WorseOrder
<1>9. CASE Worse(r, t)
  <2>1. ~WorseBy(nSequenceId, t, r)
    BY Zenon, <1>1, <1>2, <1>9, WorseOrder DEF Worse
  <2>2. ASSUME NEW c \in linked \ F, ~Worse(c, t)
        PROVE  c \in C
    <3>1. c \in Blocks /\ ~WorseBy(nSequenceId, c, t)
      BY Zenon, <1>1, <2>2 DEF Worse
    <3>2. ~WorseBy(nSequenceId, c, r)
      BY Zenon, <1>1, <1>2, <2>1, <3>1, WorseOrder
    <3>3. c \in setBlockIndexCandidates
      BY Zenon, <1>7, <3>2 DEF Reference, Worse
    <3> QED BY Zenon, <1>6, <2>2, <3>3
  <2>3. t \in C
    BY Zenon, <1>2, <1>8, <2>2 DEF Worse
  <2> QED BY Zenon, <1>2, <1>4, <1>8, <2>2, <2>3 DEF OffersAfter, Worse
<1>10. CASE ~Worse(r, t)
  <2>1. /\ r \in setBlockIndexCandidates /\ Ancestors[r] \ {Genesis} \subseteq scriptsValid
        /\ Ancestors[r] \cap Failed = {} /\ r \in Ancestors[r]
    BY Zenon, <1>7, Tree DEF Reference, Sound
  <2>2. Ancestors[r] \cap MarkedChildren = {}
    BY Zenon, <1>1, <2>1, SparedChain
  <2>3. Ancestors[r] \cap I = {}
    <3>1. Genesis \notin BadScripts
      BY Zenon, <1>1, NodeFacts
    <3> QED BY Zenon, <1>1, <1>2, <2>1, <3>1 DEF Indexed, Stored
  <2>4. Ancestors[r] \cap F = {} /\ r \in C
    BY Zenon, <1>6, <1>10, <2>1, <2>2, <2>3
  <2>5. ASSUME NEW c \in linked \ F, ~Worse(c, r)
        PROVE  c \in C
    <3>1. c \in Blocks /\ ~WorseBy(nSequenceId, c, r) /\ ~WorseBy(nSequenceId, r, t)
      BY Zenon, <1>1, <1>10, <2>5 DEF Worse
    <3>2. ~WorseBy(nSequenceId, c, t)
      BY Zenon, <1>1, <1>2, <3>1, WorseOrder
    <3>3. c \in setBlockIndexCandidates
      BY Zenon, <1>7, <2>5 DEF Reference
    <3> QED BY Zenon, <1>6, <3>2, <3>3 DEF Worse
  <2>6. t = m => r = t
    BY Zenon, <1>10, <2>1
  <2> QED BY Zenon, <1>4, <1>10, <2>1, <2>4, <2>5, <2>6 DEF OffersAfter
<1> QED BY Zenon, <1>9, <1>10

\* The switch itself.
LEMMA SwitchStep ==
    ASSUME IInv, node' = node, ~fRequestShutdown, NEW first \in BOOLEAN,
           IF first THEN entering > 0 ELSE looping > 0,
           failedChild' = failedChild \cup MarkedChildren,
           mapBlocksUnlinked' = mapBlocksUnlinked \cup SetAside,
           NEW m \in linked, m \notin Ancestors[tip], Ancestors[m] \cap Failed = {},
           \A c \in setBlockIndexCandidates :
              Ancestors[c] \cap Failed = {} => c = m \/ Worse(c, m),
           Switch(m, first),
           UNCHANGED <<mapBlockIndex, haveData, received, linked, order, rpcs, prunes>>
    PROVE  IInv'
<1>1. /\ Indexed /\ node \in Nodes /\ Sound(tip) /\ linked \subseteq Blocks
      /\ entering \in Nat /\ looping \in Nat /\ Threads \in Nat /\ entering + looping <= Threads
      /\ nSequenceId \in [Blocks -> Nat] /\ linked \subseteq haveData
  BY Zenon, Basics, NodeFacts DEF IInv, Offered, Indexed, Stored
<1>2. /\ tip' = NewTip(m)
      /\ haveUndo' = haveUndo \cup Connected(m)
      /\ scriptsValid' = scriptsValid \cup Connected(m)
      /\ failedValid' = failedValid \cup Invalid(m)
      /\ setBlockIndexCandidates' = setBlockIndexCandidates
            \ (Dropped \cup Invalid(m) \cup WorseThanNewTip(m))
      /\ Stay(first) \/ (NewTip(m) = m /\ Leave(first))
      /\ fRequestShutdown' = fRequestShutdown
  BY Zenon DEF Switch
<1>3. /\ tip' \in Blocks
      /\ Connected(m) \subseteq linked /\ Connected(m) \cap BadScripts = {}
      /\ Ancestors[tip'] \ {Genesis} \subseteq scriptsValid'
      /\ Ancestors[tip'] \cap (Failed \cup MarkedChildren \cup Invalid(m)) = {}
      /\ Invalid(m) \in SUBSET (linked \cap BadScripts)
  BY Zenon, <1>1, <1>2, Reached
<1>4. /\ entering' \in 0 .. Threads /\ looping' \in 0 .. Threads
      /\ entering' + looping' <= Threads
      /\ looping' = 0 => tip' = m
      /\ entering' + looping' = 0 => tip' = m
  BY Zenon, <1>1, <1>2, LeaveCounts, StayCounts
<1>5. /\ MarksCaused' /\ Waiting'
      /\ Failed' = Failed \cup MarkedChildren \cup Invalid(m)
      /\ mapBlocksUnlinked' = mapBlocksUnlinked
      /\ failedChild' \subseteq failedChild \cup linked
      /\ failedValid' \subseteq failedValid \cup linked
  BY Zenon, <1>2, <1>3, RoundMarks
<1>6. TypeOK'
  BY Zenon, <1>1, <1>2, <1>3, <1>4, <1>5, SameNode DEF Indexed, TypeOK, order
<1>7. Stored' /\ LinkedChains' /\ Numbered' /\ ActiveConnected'
  BY Zenon, <1>1, <1>2, <1>3, <1>4, <1>5, SameNode
     DEF Indexed, Stored, LinkedChains, Numbered, ActiveConnected, order
<1>8. /\ \A c \in setBlockIndexCandidates' : ~Worse(c, tip')
      /\ \E r \in Blocks :
           /\ r \in setBlockIndexCandidates'
           /\ Ancestors[r] \ {Genesis} \subseteq scriptsValid' /\ Ancestors[r] \cap Failed' = {}
           /\ \A c \in linked \ Failed' : ~Worse(c, r) => c \in setBlockIndexCandidates'
           /\ tip' = m => r = tip'
           /\ ~Worse(r, tip')
  <2>1. OffersAfter(m, tip', Failed', setBlockIndexCandidates', scriptsValid')
    BY Zenon, <1>2, <1>5, SwitchOffers
  <2> QED BY Zenon, <2>1 DEF OffersAfter
<1>9. NotWorse'
  BY Zenon, <1>8 DEF NotWorse, Worse, order
<1>10. Offered'
  <2>1. Sound(tip)'
    BY Zenon, <1>3, <1>5 DEF Sound
  <2>2. \E r \in Blocks : Reference(r)'
    BY Zenon, <1>4, <1>8 DEF Reference, Sound, Worse, order
  <2>3. Settled'
    <3> SUFFICES ASSUME tip' = m, NEW c \in setBlockIndexCandidates', Ancestors[c] \cap Failed' = {}
                 PROVE  ~WorseBy(nSequenceId, m, c)
      BY Zenon, <1>4 DEF Settled, Worse, order
    <3>1. c \in setBlockIndexCandidates /\ c \in Blocks /\ Ancestors[c] \cap Failed = {}
      BY Zenon, <1>1, <1>2, <1>5, Basics
    <3>2. c = m \/ WorseBy(nSequenceId, c, m)
      BY Zenon, <3>1 DEF Worse
    <3>3. m \in Blocks
      BY Zenon, <1>1
    <3>4. CASE c = m
      BY Zenon, <1>1, <3>3, <3>4, WorseOrder
    <3>5. CASE WorseBy(nSequenceId, c, m)
      BY Zenon, <1>1, <3>1, <3>3, <3>5, WorseOrder
    <3> QED BY Zenon, <3>2, <3>4, <3>5
  <2> QED BY Zenon, <2>1, <2>2, <2>3 DEF Offered
<1> QED BY Zenon, <1>5, <1>6, <1>7, <1>9, <1>10 DEF IInv, Indexed

LEMMA ActivateBestChainStep ==
    ASSUME IInv, node' = node, NEW first \in BOOLEAN, ActivateBestChain(first)
    PROVE  IInv'
<1>1. /\ ~fRequestShutdown
      /\ IF first THEN entering > 0 ELSE looping > 0
      /\ failedChild' = failedChild \cup MarkedChildren
      /\ mapBlocksUnlinked' = mapBlocksUnlinked \cup SetAside
      /\ UNCHANGED <<mapBlockIndex, haveData, received, linked, order, rpcs, prunes>>
  BY Zenon DEF ActivateBestChain
<1>2. CASE /\ ~FoundOther
           /\ setBlockIndexCandidates' = setBlockIndexCandidates \ Dropped
           /\ Leave(first)
           /\ UNCHANGED <<haveUndo, failedValid, scriptsValid, tip, fRequestShutdown>>
  BY Zenon, <1>1, <1>2, RestStep
<1>3. ASSUME NEW m, m = Best(UsableCandidates), m # tip,
             IF CanSwitch(m) THEN Switch(m, first) ELSE GiveUp(m, first)
      PROVE  IInv'
  <2>1. /\ m \in linked /\ Ancestors[m] \cap Failed = {} /\ m \notin Ancestors[tip]
        /\ \A c \in setBlockIndexCandidates :
             Ancestors[c] \cap Failed = {} => c = m \/ Worse(c, m)
    BY Zenon, <1>1, <1>3, Chosen
  <2>2. CASE CanSwitch(m)
    BY Zenon, <1>1, <1>3, <2>1, <2>2, SwitchStep
  <2>3. CASE ~CanSwitch(m)
    BY Zenon, <1>1, <1>3, <2>1, <2>3, GiveUpStep
  <2> QED BY Zenon, <2>2, <2>3
<1> QED BY Zenon, <1>2, <1>3 DEF ActivateBestChain, FoundOther

-----------------------------------------------------------------------------
(* The invariant holds throughout.                                          *)

LEMMA InitIInv == ASSUME Init PROVE IInv
<1> USE DEF Init
<1>1. /\ Genesis \in Blocks /\ Ancestors[Genesis] = {Genesis} /\ node \in Nodes
      /\ Threads \in Nat /\ MaxRpcs \in Nat /\ MaxPrunes \in Nat
      /\ MaxSequenceId \in Nat /\ MaxSequenceId >= 1
      /\ Genesis \notin BadBlocks
  BY Zenon, Tree, NodeFacts
<1>2. /\ 0 \in 0 .. Threads /\ 0 \in 0 .. MaxRpcs /\ 0 \in 0 .. MaxPrunes /\ 0 + 0 <= Threads
      /\ 2 \in 1 .. MaxSequenceId + 1 /\ 0 \in 0 .. MaxSequenceId /\ 1 \in 0 .. MaxSequenceId
      /\ 1 < 2
  BY SMTT(30), <1>1
<1>3. Failed = {}
  BY Zenon DEF Failed
<1>4. nSequenceId \in [Blocks -> 0 .. MaxSequenceId] /\ nSequenceId[Genesis] = 1
  BY Zenon, <1>1, <1>2
<1>5. TypeOK
  BY Zenon, <1>1, <1>2, <1>4 DEF TypeOK
<1>6. Stored /\ LinkedChains /\ Numbered /\ ActiveConnected /\ MarksCaused
  BY Zenon, <1>1, <1>2, <1>3, <1>4
     DEF Stored, LinkedChains, Numbered, ActiveConnected, MarksCaused, FailedHasInvalidAncestor
<1>7. Waiting
  BY Zenon DEF Waiting
<1>8. ~Worse(Genesis, Genesis)
  <2>1. nSequenceId \in [Blocks -> Nat]
    BY SMTT(30), <1>4
  <2> QED BY Zenon, <1>1, <2>1, WorseOrder DEF Worse
<1>9. NotWorse
  BY Zenon, <1>8 DEF NotWorse
<1>10. Offered
  <2>1. Sound(Genesis) /\ Reference(Genesis)
    BY Zenon, <1>1, <1>3, <1>8 DEF Sound, Reference
  <2>2. Settled
    BY Zenon, <1>8 DEF Settled
  <2> QED BY Zenon, <1>1, <2>1, <2>2 DEF Offered
<1> QED BY Zenon, <1>5, <1>6, <1>7, <1>9, <1>10 DEF IInv, Indexed

LEMMA NextIInv == ASSUME IInv, Covered, [Next]_vars PROVE IInv'
<1>1. CASE UNCHANGED vars
  <2>1. /\ node' = node /\ mapBlockIndex' = mapBlockIndex /\ mapBlockIndex \subseteq Blocks
        /\ UNCHANGED <<status, order, setBlockIndexCandidates, mapBlocksUnlinked, tip,
                       looping, fRequestShutdown, rpcs, prunes>>
        /\ entering' = entering
    BY Zenon, <1>1 DEF vars, IInv, Indexed, TypeOK
  <2> QED BY Zenon, <2>1, HeaderKnown
<1>2. CASE Next
  <2>1. node' = node
    BY Zenon, <1>2 DEF Next
  <2>2. ASSUME NEW b \in Arriving, AcceptBlockHeader(b)
        PROVE  IInv'
    BY Zenon, <2>1, <2>2, AcceptBlockHeaderStep
  <2>3. ASSUME NEW b \in Arriving, NEW fRequested \in BOOLEAN, ProcessNewBlock(b, fRequested)
        PROVE  IInv'
    BY Zenon, <2>1, <2>3, ProcessNewBlockStep
  <2>4. ASSUME NEW b \in Invalidated, InvalidateBlock(b)
        PROVE  IInv'
    BY Zenon, <2>1, <2>4, InvalidateBlockStep
  <2>5. ASSUME NEW b \in Reconsidered, ReconsiderBlock(b)
        PROVE  IInv'
    BY Zenon, <2>1, <2>5, ReconsiderBlockStep DEF Covered
  <2>6. ASSUME NEW first \in BOOLEAN, ActivateBestChain(first)
        PROVE  IInv'
    BY Zenon, <2>1, <2>6, ActivateBestChainStep
  <2>7. ASSUME NEW file, PruneOneBlockFile(file)
        PROVE  IInv'
    <3>1. prunes \in 0 .. MaxPrunes /\ prunes < MaxPrunes /\ MaxPrunes = 0
      BY Zenon, <2>7 DEF PruneOneBlockFile, IInv, Indexed, TypeOK, Covered, NoPruning
    <3> QED BY SMTT(30), <3>1
  <2> QED BY Zenon, <1>2, <2>2, <2>3, <2>4, <2>5, <2>6, <2>7 DEF Next, Steps, Activate
<1> QED BY Zenon, <1>1, <1>2

-----------------------------------------------------------------------------
(* What the invariant says.                                                 *)

LEMMA IInvBest == ASSUME IInv PROVE BestValidChain
<1>1. /\ Indexed /\ node \in Nodes /\ tip \in Blocks /\ Ancestors[tip] \subseteq received
      /\ linked \subseteq Blocks /\ entering \in Nat /\ looping \in Nat
      /\ nSequenceId \in [Blocks -> Nat]
  BY Zenon, Basics DEF IInv
<1>2. ActiveChainValid
  <2>1. Ancestors[tip] \ {Genesis} \subseteq scriptsValid
    BY Zenon, <1>1 DEF Indexed, ActiveConnected
  <2>2. Genesis \notin BadScripts
    BY Zenon, <1>1, NodeFacts
  <2>3. Ancestors[tip] \cap (BadScripts \cup BadBlocks) = {}
    BY Zenon, <1>1, <2>1, <2>2 DEF Indexed, Stored
  <2>4. ~fRequestShutdown => Ancestors[tip] \cap Failed = {}
    BY Zenon DEF IInv, Offered, Sound
  <2> QED BY Zenon, <2>1, <2>3, <2>4 DEF ActiveChainValid
<1>3. ReorgPossible
  <2>1. \A b \in Ancestors[tip] \ {Genesis} : b \in haveData /\ b \in haveUndo
    BY Zenon, <1>1 DEF Indexed, ActiveConnected, Stored, TypeOK
  <2> QED BY Zenon, <2>1 DEF ReorgPossible, Undisconnectable
<1>4. SettledOnBest
  <2> SUFFICES ASSUME entering + looping = 0, ~fRequestShutdown,
                      NEW b \in linked, Unusable(b) = {}, Worse(tip, b)
               PROVE  FALSE
    BY Zenon DEF SettledOnBest, OnBest
  <2>1. looping = 0
    BY SMTT(30), <1>1
  <2>2. Sound(tip) /\ Reference(tip) /\ Settled /\ Stored
    BY Zenon, <1>1, <2>1 DEF IInv, Offered, Reference, Indexed
  <2>3. Ancestors[b] \cap Failed = {} /\ b \notin Failed
    BY Zenon, <1>1, <2>2, UsableIff, Tree
  <2>4. ~Worse(b, tip)
    BY Zenon, <1>1, WorseOrder DEF Worse
  <2> QED BY Zenon, <2>2, <2>3, <2>4 DEF Reference, Settled
<1> QED BY Zenon, <1>2, <1>3, <1>4 DEF BestValidChain

\* A block all of whose ancestors came is linked: the lowest one that is not would
\* wait for a parent that is.
LEMMA IInvLinked == ASSUME IInv, NoRpcs PROVE LinkedExactly
<1>1. /\ Indexed /\ linked \subseteq Blocks /\ linked \subseteq received
  BY Zenon, Basics DEF IInv
<1>2. ASSUME NEW b \in Blocks, Processed(b)
      PROVE  b \in linked
  <2> DEFINE U == Ancestors[b] \ linked
  <2> SUFFICES ASSUME b \notin linked PROVE FALSE
    OBVIOUS
  <2>1. U \in SUBSET Blocks /\ U # {} /\ b \in Ancestors[b]
    BY Zenon, Tree
  <2>2. PICK d \in U : \A c \in U : Height[d] <= Height[c]
    <3> HIDE DEF U
    <3> QED BY Zenon, <2>1, LowestExists
  <2>3. d \in Blocks /\ d # Genesis /\ d \in received /\ d \notin linked /\ d \in Ancestors[b]
    BY Zenon, <1>1, <1>2, Tree DEF Processed, Indexed, LinkedChains
  <2>4. /\ Parent[d] \in Ancestors[Parent[d]] /\ Ancestors[d] = Ancestors[Parent[d]] \cup {d}
        /\ Height[d] = Height[Parent[d]] + 1 /\ Height[Parent[d]] \in Nat
    BY Zenon, <2>3, Tree
  <2>5. Parent[d] \in Ancestors[b]
    BY Zenon, <2>3, <2>4, ChainOf
  <2>6. ~(Height[d] <= Height[Parent[d]])
    BY SMTT(30), <2>4
  <2>7. Parent[d] \in linked
    BY Zenon, <2>2, <2>5, <2>6
  <2>8. Parent[d] \notin BadBlocks
    BY Zenon, <1>1, <2>7 DEF Indexed, Stored
  <2>9. d \in mapBlocksUnlinked
    BY Zenon, <2>3, <2>8 DEF IInv, Waiting
  <2> QED BY Zenon, <1>1, <2>7, <2>9 DEF Indexed, LinkedChains
<1>3. \A b \in linked : Processed(b)
  BY Zenon, <1>1 DEF Processed, Indexed, LinkedChains
<1> QED BY Zenon, <1>1, <1>2, <1>3 DEF LinkedExactly

LEMMA IInvCandidates == ASSUME IInv PROVE CandidatesExact
<1>1. /\ Indexed /\ TypeOK /\ linked \subseteq Blocks /\ linked \subseteq received
      /\ received \subseteq Blocks /\ setBlockIndexCandidates \subseteq linked
      /\ FailedHasInvalidAncestor /\ haveData = received
  BY Zenon, Basics DEF IInv, Indexed, MarksCaused, Stored
<1>2. CandidatesComplete
  <2> SUFFICES ASSUME looping = 0, ~fRequestShutdown,
                      NEW b \in linked, ~Worse(b, tip), NoneInvalid(b)
               PROVE  b \in setBlockIndexCandidates
    BY Zenon DEF CandidatesComplete
  <2>1. Reference(tip)
    BY Zenon DEF IInv, Offered, Reference
  <2>2. b \notin Failed
    BY Zenon, <1>1 DEF FailedHasInvalidAncestor, NoneInvalid
  <2> QED BY Zenon, <2>1, <2>2 DEF Reference
<1>3. CandidatesNotWorse
  BY Zenon, <1>1 DEF CandidatesNotWorse, Processed, Indexed, LinkedChains, IInv, NotWorse
<1>4. ASSUME NoRpcs
      PROVE  UnlinkedExactly
  <2>1. LinkedExactly /\ mapBlocksUnlinked \cap linked = {} /\ mapBlocksUnlinked \subseteq Blocks
    BY Zenon, <1>1, <1>4, IInvLinked DEF Indexed, LinkedChains, TypeOK
  <2>2. \A b \in Blocks : b \in linked <=> Ancestors[b] \subseteq received
    BY Zenon, <1>1, <2>1 DEF LinkedExactly, Processed
  <2>3. \A b \in mapBlocksUnlinked : ~Complete(b)
    BY Zenon, <1>1, <2>1, <2>2 DEF Complete
  <2>4. ASSUME NEW b \in haveData \ {Genesis}, NoneInvalid(b), ~Processed(b) \/ ~Complete(b)
        PROVE  b \in mapBlocksUnlinked
    <3>1. b \in Blocks /\ b \in received \ linked
      BY Zenon, <1>1, <2>2, <2>4 DEF Processed, Complete
    <3>2. b \in mapBlocksUnlinked \/ Parent[b] \in failedValid
      BY Zenon, <1>4, <3>1 DEF IInv, Waiting
    <3>3. Parent[b] \in Ancestors[Parent[b]] /\ Ancestors[b] = Ancestors[Parent[b]] \cup {b}
      BY Zenon, <3>1, Tree
    <3> QED BY Zenon, <2>4, <3>2, <3>3 DEF NoneInvalid
  <2> QED BY Zenon, <2>3, <2>4 DEF UnlinkedExactly
<1> QED BY Zenon, <1>1, <1>2, <1>3, <1>4, IInvLinked DEF CandidatesExact

-----------------------------------------------------------------------------
(* The theorems.  They are about every tree of blocks, every node and every *)
(* interleaving of any number of threads.  Two assumptions on the node are  *)
(* what the proof needs beyond the model's own: it prunes nothing, and it   *)
(* reconsiders only blocks below which nothing was found or made invalid.   *)
(* ReconsiderBlock clears the marks of the ancestors of its argument too,   *)
(* and offers only its descendants.                                         *)

\* The invariant holds in every reachable state of such a node.
THEOREM Invariance == Spec => [](Covered => IInv)
<1>1. Init => (Covered => IInv)
  BY Zenon, InitIInv
<1>2. (Covered => IInv) /\ [Next]_vars => (Covered => IInv)'
  <2> SUFFICES ASSUME Covered => IInv, [Next]_vars, Covered'
               PROVE  IInv'
    BY Zenon
  <2>1. node' = node
    BY Zenon DEF Next, vars
  <2>2. Covered
    BY Zenon, <2>1, SameNode
  <2> QED BY Zenon, <2>2, NextIInv
<1> QED BY <1>1, <1>2, PTL DEF Spec

\* The active chain is valid, can be taken back, and is the best one the node can
\* use whenever no thread is in ActivateBestChain: a block that ProcessNewBlock,
\* invalidateblock or reconsiderblock made the best is never forgotten.
THEOREM BestChain == Spec => [](Covered => BestValidChain)
<1>1. (Covered => IInv) => (Covered => BestValidChain)
  BY Zenon, IInvBest
<1> QED BY <1>1, Invariance, PTL

\* setBlockIndexCandidates, mapBlocksUnlinked, nChainTx and the failure marks are what
\* CheckBlockIndex asserts of them after every critical section.
THEOREM Candidates == Spec => [](Covered => CandidatesExact)
<1>1. (Covered => IInv) => (Covered => CandidatesExact)
  BY Zenon, IInvCandidates
<1> QED BY <1>1, Invariance, PTL
=============================================================================
