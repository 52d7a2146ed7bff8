------------------------ MODULE BlockDownloadLemmas ------------------------
(***************************************************************************)
(* Lemmas about the operators of BlockDownload, for every set of peers,    *)
(* every tree of blocks and every choice of the limits: chains and their   *)
(* forks, what marking blocks as received and in flight does to the books, *)
(* what FindNextBlocksToDownload finds, and which headers are accepted.    *)
(*                                                                         *)
(* The loops of the code are recursive functions.  That such a function    *)
(* exists, and that what each round keeps holds at the end, is proved once *)
(* (Recursion, Rounds) by taking the first round where it fails.           *)
(***************************************************************************)
EXTENDS BlockDownload, FiniteSetTheorems, WellFoundedInduction, TLAPS

-----------------------------------------------------------------------------
(* Numbers and loops.                                                      *)

\* A set of natural numbers has a least element.
LEMMA LeastNumber ==
    ASSUME NEW S \in SUBSET Nat, S # {}
    PROVE  \E n \in S : \A m \in S : n <= m
<1> DEFINE R == OpToRel(<, Nat)
<1>1. PICK n \in S : \A m \in S : <<m, n>> \notin R
  <2>1. IsWellFoundedOn(R, Nat)
    BY Zenon, NatLessThanWellFounded
  <2> HIDE DEF R
  <2> QED BY Zenon, <2>1, WFMin
<1>2. \A m \in S : ~(m < n)
  BY Zenon, <1>1 DEF OpToRel
<1> QED BY SMTT(30), <1>2

\* What holds before a loop of n rounds and is kept by each round holds at the
\* end: W[i] is the set of values allowed after i rounds.
LEMMA Rounds ==
    ASSUME NEW n \in Nat, NEW f, NEW W, f[0] \in W[0],
           \A i \in 1..n : f[i - 1] \in W[i - 1] => f[i] \in W[i]
    PROVE  f[n] \in W[n]
<1> DEFINE S == {i \in 0..n : f[i] \notin W[i]}
<1> SUFFICES ASSUME S # {} PROVE FALSE
  BY SMTT(30)
<1>1. PICK k \in S : \A m \in S : k <= m
  <2>1. S \in SUBSET Nat
    BY SMTT(30)
  <2> HIDE DEF S
  <2> QED BY Zenon, <2>1, LeastNumber
<1>2. k \in 1..n
  BY SMTT(30)
<1>3. f[k - 1] \in W[k - 1]
  <2>1. k - 1 \in 0..n /\ ~(k <= k - 1)
    BY SMTT(30), <1>2
  <2>2. k - 1 \notin S
    BY Zenon, <1>1, <2>1
  <2> QED BY Zenon, <2>1, <2>2
<1> QED BY Zenon, <1>2, <1>3

\* A loop of n rounds: W[i] is what is allowed after i rounds, step[i] what round i
\* does with that.
IsLoop(n, base, W, step) ==
    /\ n \in Nat
    /\ base \in W[0]
    /\ \A i \in 1..n : \A w \in W[i - 1] : step[i][w] \in W[i]

IsRun(g, n, base, W, step) ==
    /\ g = [i \in 0..n |-> g[i]]
    /\ g[0] = base
    /\ \A i \in 1..n : g[i] = step[i][g[i - 1]]
    /\ \A i \in 0..n : g[i] \in W[i]

\* A loop has a run.
LEMMA Recursion ==
    ASSUME NEW n, NEW base, NEW W, NEW step, IsLoop(n, base, W, step)
    PROVE  \E g : IsRun(g, n, base, W, step)
<1> USE DEF IsLoop, IsRun
<1> DEFINE Run(m, g) == IsRun(g, m, base, W, step)
           S == {m \in 0..n : ~\E g : Run(m, g)}
<1> SUFFICES ASSUME S # {} PROVE FALSE
  <2>1. n \in 0..n
    BY SMTT(30)
  <2> QED BY Zenon, <2>1
<1>1. PICK k \in S : \A m \in S : k <= m
  <2>1. S \in SUBSET Nat
    BY SMTT(30)
  <2> HIDE DEF S
  <2> QED BY Zenon, <2>1, LeastNumber
<1>2. k \in 0..n /\ ~\E g : Run(k, g)
  BY Zenon
<1>3. k # 0
  <2> DEFINE g == [i \in 0..0 |-> base]
  <2>1. Run(0, g)
    BY SMTT(30)
  <2> QED BY Zenon, <1>2, <2>1
<1>4. PICK g : Run(k - 1, g)
  <2>1. k - 1 \in 0..n /\ ~(k <= k - 1)
    BY SMTT(30), <1>2, <1>3
  <2>2. k - 1 \notin S
    BY Zenon, <1>1, <2>1
  <2> QED BY Zenon, <2>1, <2>2
<1> DEFINE h == [i \in 0..k |-> IF i <= k - 1 THEN g[i] ELSE step[k][g[k - 1]]]
<1>5. k \in 1..n /\ g[k - 1] \in W[k - 1]
  BY SMTT(30), <1>2, <1>3, <1>4
<1>6. step[k][g[k - 1]] \in W[k]
  BY Zenon, <1>5
<1>7. \A i \in 0..k : h[i] \in W[i]
  BY SMTT(30), <1>2, <1>3, <1>4, <1>5, <1>6
<1>8. h[0] = base
  BY SMTT(30), <1>2, <1>3, <1>4
<1>9. ASSUME NEW i \in 1..k
      PROVE  h[i] = step[i][h[i - 1]]
  <2>1. CASE i <= k - 1
    <3>1. i \in 1..(k - 1) /\ h[i] = g[i] /\ h[i - 1] = g[i - 1]
      BY SMTT(30), <1>5, <2>1
    <3> QED BY Zenon, <1>4, <3>1
  <2>2. CASE ~(i <= k - 1)
    <3>1. i = k /\ h[i] = step[k][g[k - 1]] /\ h[i - 1] = g[k - 1]
      BY SMTT(30), <1>5, <2>2
    <3> QED BY Zenon, <3>1
  <2> QED BY Zenon, <2>1, <2>2
<1>10. h = [i \in 0..k |-> h[i]]
  BY Zenon
<1> HIDE DEF h
<1> QED BY Zenon, <1>2, <1>7, <1>8, <1>9, <1>10

-----------------------------------------------------------------------------
(* The tree of blocks.                                                     *)

\* What the tree assumption says of a block and of its parent.
LEMMA Tree ==
    /\ Genesis \in Blocks
    /\ Ancestors[Genesis] = {Genesis}
    /\ Height[Genesis] = 0
    /\ \A b \in Blocks : Height[b] \in Nat /\ Ancestors[b] \subseteq Blocks /\ b \in Ancestors[b]
    /\ \A b \in Blocks \ {Genesis} :
         /\ Parent[b] \in Blocks
         /\ Ancestors[b] = Ancestors[Parent[b]] \cup {b}
         /\ Height[b] = Height[Parent[b]] + 1
BY SMTT(30), TreeAssumption

\* A chain starts at the genesis block, has a block at every height up to that of
\* its last one, and contains the chains of its blocks.
ChainOf(b) ==
    /\ Genesis \in Ancestors[b]
    /\ \A c \in Ancestors[b] : Ancestors[c] \subseteq Ancestors[b] /\ Height[c] <= Height[b]
    /\ \A h \in 0..Height[b] : \E a \in Ancestors[b] : Height[a] = h

\* No block is the lowest one without these properties.
LEMMA Chains == \A b \in Blocks : ChainOf(b)
<1> DEFINE H == {Height[b] : b \in {x \in Blocks : ~ChainOf(x)}}
<1> SUFFICES ASSUME H # {} PROVE FALSE
  BY Zenon
<1>1. PICK n \in H : \A m \in H : n <= m
  <2>1. H \in SUBSET Nat
    BY Zenon, Tree
  <2> HIDE DEF H
  <2> QED BY Zenon, <2>1, LeastNumber
<1>2. PICK b \in Blocks : ~ChainOf(b) /\ Height[b] = n
  BY Zenon
<1>3. b # Genesis
  <2>1. ChainOf(Genesis)
    BY SMTT(30), Tree DEF ChainOf
  <2> QED BY Zenon, <1>2, <2>1
<1> DEFINE p == Parent[b]
<1>4. p \in Blocks /\ Ancestors[b] = Ancestors[p] \cup {b} /\ b \in Ancestors[b] /\ Height[b] = Height[p] + 1
  BY Zenon, <1>2, <1>3, Tree
<1>5. ChainOf(p)
  <2>1. Height[p] \in Nat /\ ~(n <= Height[p])
    BY SMTT(30), <1>2, <1>4, Tree
  <2> QED BY Zenon, <1>1, <1>4, <2>1
<1> HIDE DEF p
<1>6. Genesis \in Ancestors[b]
  BY Zenon, <1>4, <1>5 DEF ChainOf
<1>7. ASSUME NEW c \in Ancestors[b]
      PROVE  Ancestors[c] \subseteq Ancestors[b]
  BY Zenon, <1>4, <1>5 DEF ChainOf
<1>8. ASSUME NEW c \in Ancestors[b]
      PROVE  Height[c] <= Height[b]
  <2>1. c = b \/ Height[c] <= Height[p]
    BY Zenon, <1>4, <1>5 DEF ChainOf
  <2>2. c \in Blocks /\ Height[c] \in Nat /\ Height[p] \in Nat
    BY Zenon, <1>4, Tree
  <2> QED BY SMTT(30), <1>4, <2>1, <2>2
<1>9. ASSUME NEW h \in 0..Height[b]
      PROVE  \E a \in Ancestors[b] : Height[a] = h
  <2>1. h = Height[b] \/ h \in 0..Height[p]
    BY SMTT(30), <1>4, Tree
  <2> QED BY Zenon, <1>4, <1>5, <2>1 DEF ChainOf
<1> QED BY Zenon, <1>2, <1>6, <1>7, <1>8, <1>9 DEF ChainOf

\* GetAncestor gives the block of the chain at a height.
LEMMA AncestorAt ==
    ASSUME NEW b \in Blocks, NEW h \in 0..Height[b]
    PROVE  GetAncestor[b][h] \in Ancestors[b] /\ GetAncestor[b][h] \in Blocks
<1>1. GetAncestor[b][h] = CHOOSE a \in Ancestors[b] : Height[a] = h
  BY Zenon DEF GetAncestor
<1>2. \E a \in Ancestors[b] : Height[a] = h
  BY Zenon, Chains DEF ChainOf
<1>3. GetAncestor[b][h] \in Ancestors[b]
  BY Zenon, <1>1, <1>2
<1> QED BY Zenon, <1>3, Tree

\* LastCommonAncestor gives a block of both chains.
LEMMA Fork ==
    ASSUME NEW a \in Blocks, NEW b \in Blocks
    PROVE  /\ LastCommonAncestor[a][b] \in Blocks
           /\ LastCommonAncestor[a][b] \in Ancestors[a] /\ LastCommonAncestor[a][b] \in Ancestors[b]
           /\ Height[LastCommonAncestor[a][b]] <= Height[b]
<1> DEFINE C == Ancestors[a] \cap Ancestors[b]
           D == {Height[a] - Height[c] : c \in C}
<1>1. \A c \in C : Height[c] \in Nat /\ Height[c] <= Height[a]
  BY Zenon, Tree, Chains DEF ChainOf
<1>2. Height[a] \in Nat /\ Genesis \in C
  BY Zenon, Tree, Chains DEF ChainOf
<1>3. PICK n \in D : \A m \in D : n <= m
  <2>1. D \in SUBSET Nat
    BY SMTT(30), <1>1, <1>2
  <2>2. D # {}
    BY Zenon, <1>2
  <2> HIDE DEF D
  <2> QED BY Zenon, <2>1, <2>2, LeastNumber
<1>4. PICK x \in C : n = Height[a] - Height[x]
  BY Zenon
<1>5. \A y \in C : n <= Height[a] - Height[y]
  BY Zenon, <1>3
<1>6. \A y \in C : Height[y] <= Height[x]
  <2> HIDE DEF C
  <2> QED BY SMTT(30), <1>1, <1>2, <1>4, <1>5
<1>7. LastCommonAncestor[a][b] = CHOOSE y \in C : \A z \in C : Height[z] <= Height[y]
  BY Zenon DEF LastCommonAncestor
<1>8. LastCommonAncestor[a][b] \in C
  <2> HIDE DEF C
  <2> QED BY Zenon, <1>6, <1>7
<1> QED BY Zenon, <1>8, Tree, Chains DEF ChainOf

-----------------------------------------------------------------------------
(* The books.                                                              *)

Entries == [hash : Blocks, fValidatedHeaders : BOOLEAN, left : Int]

NodeStates ==
    [fDisconnect : BOOLEAN, nMisbehavior : Nat, fShouldBan : BOOLEAN,
     pindexBestKnownBlock : Blocks \cup {None}, hashLastUnknownBlock : Blocks \cup {None},
     pindexLastCommonBlock : Blocks \cup {None},
     fSyncStarted : BOOLEAN, nStallingSince : Int \cup {None}, fPreferredDownload : BOOLEAN,
     vBlocksInFlight : Seq(Entries), nBlocksInFlight : Int, nBlocksInFlightValidHeaders : Int]

Hashes(list) == {list[i].hash : i \in DOMAIN list}

Validated(list) ==
    {b \in Blocks : \E i \in DOMAIN list : list[i].hash = b /\ list[i].fValidatedHeaders}

Distinct(list) == \A i, j \in DOMAIN list : list[i].hash = list[j].hash => i = j

\* The counters of a peer count its list.
Counted(s) ==
    /\ Distinct(s.vBlocksInFlight)
    /\ s.nBlocksInFlight = Len(s.vBlocksInFlight)
    /\ s.nBlocksInFlightValidHeaders = Cardinality(Validated(s.vBlocksInFlight))

\* The chain of the last common block is stored.
Linked(s) == s.pindexLastCommonBlock # None => Ancestors[s.pindexLastCommonBlock] \subseteq haveData

Queued(b) == {h \in Blocks : \E p \in Peers : h \in Validated(b.node[p].vBlocksInFlight)}

\* The books agree with each other and with the connections.
Exact(b) ==
    /\ \A p \in Peers : Counted(b.node[p]) /\ Linked(b.node[p])
    /\ \A p \in Peers : \A h \in Blocks : b.inFlight[h] = p <=> h \in Hashes(b.node[p].vBlocksInFlight)
    /\ b.queued >= Cardinality(Queued(b))
    /\ \A p \in Peers : conn[p] = "closed" => b.node[p] = CNodeState

GoodBooks ==
    {b \in [node : [Peers -> NodeStates], inFlight : [Blocks -> Peers \cup {None}], queued : Int] : Exact(b)}

\* Erasing an entry of a list without repetition takes its block out.
LEMMA ErasedList ==
    ASSUME NEW list \in Seq(Entries), Distinct(list), NEW at \in DOMAIN list
    PROVE  /\ Erase(list, at) \in Seq(Entries)
           /\ Len(Erase(list, at)) = Len(list) - 1
           /\ Distinct(Erase(list, at))
           /\ Hashes(Erase(list, at)) = Hashes(list) \ {list[at].hash}
           /\ Validated(Erase(list, at)) = Validated(list) \ {list[at].hash}
<1> DEFINE short == Erase(list, at)
           Old(i) == IF i < at THEN i ELSE i + 1
<1>1. Len(list) \in Nat /\ DOMAIN list = 1..Len(list) /\ Len(list) - 1 \in Nat
  BY SMTT(30)
<1>2. short = [i \in 1..(Len(list) - 1) |-> IF i < at THEN list[i] ELSE list[i + 1]]
  BY Zenon DEF Erase
<1>3. \A i \in 1..Len(list) : list[i] \in Entries
  BY SMTT(30)
<1>4. short \in Seq(Entries) /\ Len(short) = Len(list) - 1 /\ DOMAIN short = 1..(Len(list) - 1)
  BY SMTT(30), <1>1, <1>2, <1>3
<1>5. \A i \in DOMAIN short : Old(i) \in DOMAIN list /\ Old(i) # at /\ short[i] = list[Old(i)]
  BY SMTT(30), <1>1, <1>2, <1>4
<1>6. \A j \in DOMAIN list : j # at => \E i \in DOMAIN short : j = Old(i)
  <2> SUFFICES ASSUME NEW j \in DOMAIN list, j # at
               PROVE  \E i \in DOMAIN short : j = Old(i)
    BY Zenon
  <2>1. CASE j < at
    BY SMTT(30), <1>1, <1>4, <2>1
  <2>2. CASE ~(j < at)
    <3>1. j - 1 \in DOMAIN short /\ j = Old(j - 1)
      BY SMTT(30), <1>1, <1>4, <2>2
    <3> QED BY Zenon, <3>1
  <2> QED BY Zenon, <2>1, <2>2
<1>7. \A i, j \in DOMAIN short : Old(i) = Old(j) => i = j
  BY SMTT(30), <1>1, <1>4
<1> HIDE DEF Old, short
<1>8. Distinct(short)
  BY Zenon, <1>5, <1>7 DEF Distinct
<1>9. Hashes(short) = Hashes(list) \ {list[at].hash}
  <2>1. ASSUME NEW i \in DOMAIN short
        PROVE  short[i].hash \in Hashes(list) \ {list[at].hash}
    BY Zenon, <1>5 DEF Hashes, Distinct
  <2>2. ASSUME NEW j \in DOMAIN list, list[j].hash # list[at].hash
        PROVE  list[j].hash \in Hashes(short)
    <3>1. PICK i \in DOMAIN short : j = Old(i)
      BY Zenon, <1>6, <2>2
    <3> QED BY Zenon, <1>5, <3>1 DEF Hashes
  <2> QED BY Zenon, <2>1, <2>2 DEF Hashes
<1>10. Validated(short) = Validated(list) \ {list[at].hash}
  <2>1. Validated(short) \subseteq Validated(list) \ {list[at].hash}
    BY Zenon, <1>5 DEF Validated, Distinct
  <2>2. ASSUME NEW h \in Validated(list), h # list[at].hash
        PROVE  h \in Validated(short)
    <3>1. PICK j \in DOMAIN list : list[j].hash = h /\ list[j].fValidatedHeaders
      BY Zenon DEF Validated
    <3>2. PICK i \in DOMAIN short : j = Old(i)
      BY Zenon, <1>6, <2>2, <3>1
    <3>3. short[i].hash = h /\ short[i].fValidatedHeaders /\ h \in Blocks
      BY Zenon, <1>5, <3>1, <3>2 DEF Validated
    <3> QED BY Zenon, <3>3 DEF Validated
  <2> QED BY Zenon, <2>1, <2>2
<1> QED BY Zenon, <1>4, <1>8, <1>9, <1>10 DEF short

\* Appending an entry for another block puts that one in.
LEMMA AppendedList ==
    ASSUME NEW list \in Seq(Entries), Distinct(list), NEW e \in Entries, e.hash \notin Hashes(list)
    PROVE  /\ Append(list, e) \in Seq(Entries)
           /\ Len(Append(list, e)) = Len(list) + 1
           /\ Distinct(Append(list, e))
           /\ Hashes(Append(list, e)) = Hashes(list) \cup {e.hash}
           /\ Validated(Append(list, e)) = Validated(list) \cup (IF e.fValidatedHeaders THEN {e.hash} ELSE {})
<1> DEFINE long == Append(list, e)
           n == Len(list) + 1
<1>1. /\ long \in Seq(Entries) /\ Len(long) = n
      /\ DOMAIN long = DOMAIN list \cup {n} /\ n \notin DOMAIN list /\ n \in DOMAIN long
      /\ long[n] = e /\ \A i \in DOMAIN list : long[i] = list[i]
  BY SMTT(30)
<1>2. e.hash \in Blocks
  BY SMTT(30) DEF Entries
<1> HIDE DEF long, n
<1>3. \A i \in DOMAIN list : list[i].hash # e.hash
  BY Zenon DEF Hashes
<1>4. Distinct(long)
  BY Zenon, <1>1, <1>3 DEF Distinct
<1>5. Hashes(long) = Hashes(list) \cup {e.hash}
  <2>1. Hashes(long) \subseteq Hashes(list) \cup {e.hash}
    BY Zenon, <1>1 DEF Hashes
  <2>2. Hashes(list) \cup {e.hash} \subseteq Hashes(long)
    BY Zenon, <1>1 DEF Hashes
  <2> QED BY Zenon, <2>1, <2>2
<1>6. Validated(long) = Validated(list) \cup (IF e.fValidatedHeaders THEN {e.hash} ELSE {})
  <2>1. ASSUME NEW h \in Validated(long)
        PROVE  h \in Validated(list) \cup (IF e.fValidatedHeaders THEN {e.hash} ELSE {})
    <3>1. PICK i \in DOMAIN long : long[i].hash = h /\ long[i].fValidatedHeaders /\ h \in Blocks
      BY Zenon DEF Validated
    <3>2. CASE i \in DOMAIN list
      BY Zenon, <1>1, <3>1, <3>2 DEF Validated
    <3>3. CASE i = n
      BY Zenon, <1>1, <3>1, <3>3
    <3> QED BY Zenon, <1>1, <3>2, <3>3
  <2>2. Validated(list) \cup (IF e.fValidatedHeaders THEN {e.hash} ELSE {}) \subseteq Validated(long)
    BY Zenon, <1>1, <1>2 DEF Validated
  <2> QED BY Zenon, <2>1, <2>2
<1> QED BY Zenon, <1>1, <1>4, <1>5, <1>6 DEF long, n

\* What is validated is a finite set of blocks.
LEMMA ValidatedFinite ==
    ASSUME NEW list
    PROVE  /\ Validated(list) \subseteq Blocks /\ IsFiniteSet(Validated(list))
           /\ Cardinality(Validated(list)) \in Nat
<1>1. Validated(list) \subseteq Blocks
  BY Zenon DEF Validated
<1>2. IsFiniteSet(Validated(list))
  BY Zenon, <1>1, FS_Subset, TreeAssumption
<1> QED BY Zenon, <1>1, <1>2, FS_CardinalityType

\* A block that counts as validated is in the list.
LEMMA ValidatedListed ==
    ASSUME NEW list
    PROVE  Validated(list) \subseteq Hashes(list)
BY Zenon DEF Validated, Hashes

\* A set without one of its elements.
LEMMA OneLess ==
    ASSUME NEW S, IsFiniteSet(S), NEW x \in S, NEW T \in SUBSET (S \ {x})
    PROVE  /\ Cardinality(S \ {x}) = Cardinality(S) - 1
           /\ Cardinality(T) <= Cardinality(S) - 1
<1>1. IsFiniteSet(S \ {x}) /\ Cardinality(S \ {x}) = Cardinality(S) - 1
  BY SMTT(30), FS_RemoveElement
<1>2. Cardinality(T) <= Cardinality(S \ {x})
  BY Zenon, <1>1, FS_Subset
<1> QED BY Zenon, <1>1, <1>2

\* A set with one more element.
LEMMA OneMore ==
    ASSUME NEW S, IsFiniteSet(S), NEW x
    PROVE  /\ IsFiniteSet(S \cup {x})
           /\ x \notin S => Cardinality(S \cup {x}) = Cardinality(S) + 1
           /\ Cardinality(S \cup {x}) <= Cardinality(S) + 1
<1>1. Cardinality(S) \in Nat
  BY Zenon, FS_CardinalityType
<1>2. /\ IsFiniteSet(S \cup {x})
      /\ Cardinality(S \cup {x}) = IF x \in S THEN Cardinality(S) ELSE Cardinality(S) + 1
  BY Zenon, FS_AddElement
<1> QED BY SMTT(30), <1>1, <1>2

\* What is queued is a finite set of blocks.
LEMMA QueuedFinite ==
    ASSUME NEW b
    PROVE  Queued(b) \subseteq Blocks /\ IsFiniteSet(Queued(b)) /\ Cardinality(Queued(b)) \in Nat
<1>1. Queued(b) \subseteq Blocks
  BY Zenon DEF Queued
<1>2. IsFiniteSet(Queued(b))
  BY Zenon, <1>1, FS_Subset, TreeAssumption
<1> QED BY Zenon, <1>1, <1>2, FS_CardinalityType

\* The fields of the books, and what Exact says of them.
LEMMA GoodFields ==
    ASSUME NEW b \in GoodBooks
    PROVE  /\ b.node \in [Peers -> NodeStates] /\ b.inFlight \in [Blocks -> Peers \cup {None}]
           /\ b.queued \in Int /\ Exact(b)
           /\ b = [node |-> b.node, inFlight |-> b.inFlight, queued |-> b.queued]
<1>1. b \in [node : [Peers -> NodeStates], inFlight : [Blocks -> Peers \cup {None}], queued : Int]
  BY Zenon DEF GoodBooks
<1>2. Exact(b)
  BY Zenon DEF GoodBooks
<1> QED BY SMTT(30), <1>1, <1>2

\* The fields of a CNodeState the books are about, and those that are counted.
LEMMA StateFields ==
    ASSUME NEW s \in NodeStates
    PROVE  /\ s.vBlocksInFlight \in Seq(Entries)
           /\ s.nBlocksInFlight \in Int /\ s.nBlocksInFlightValidHeaders \in Int
           /\ s.pindexBestKnownBlock \in Blocks \cup {None}
           /\ s.hashLastUnknownBlock \in Blocks \cup {None}
           /\ s.pindexLastCommonBlock \in Blocks \cup {None}
           /\ s.nStallingSince \in Int \cup {None} /\ s.nMisbehavior \in Nat
           /\ s.fSyncStarted \in BOOLEAN /\ s.fPreferredDownload \in BOOLEAN
           /\ s.fDisconnect \in BOOLEAN /\ s.fShouldBan \in BOOLEAN
BY SMTT(30) DEF NodeStates

\* A peer has as many blocks in flight as before, or fewer, and the flags that are
\* counted stay as they are.
Fewer(b, c) ==
    \A q \in Peers : /\ c.node[q].nBlocksInFlight <= b.node[q].nBlocksInFlight
                     /\ c.node[q].fSyncStarted = b.node[q].fSyncStarted
                     /\ c.node[q].fPreferredDownload = b.node[q].fPreferredDownload

\* MarkBlockAsReceived keeps the books, and the block is then not in flight.
LEMMA Received ==
    ASSUME NEW b \in GoodBooks, NEW hash \in Blocks
    PROVE  /\ MarkBlockAsReceived(b, hash) \in GoodBooks
           /\ MarkBlockAsReceived(b, hash).inFlight[hash] = None
           /\ Fewer(b, MarkBlockAsReceived(b, hash))
<1> DEFINE c == MarkBlockAsReceived(b, hash)
           p == b.inFlight[hash]
<1>1. CASE p = None
  <2>1. c = b
    BY Zenon, <1>1 DEF MarkBlockAsReceived
  <2>2. Fewer(b, b)
    BY SMTT(30), GoodFields, StateFields DEF Fewer
  <2> QED BY Zenon, <1>1, <2>1, <2>2
<1>2. CASE p # None
  <2> DEFINE s == b.node[p]
             list == s.vBlocksInFlight
             at == CHOOSE i \in DOMAIN list : list[i].hash = hash
             valid == Bit(list[at].fValidatedHeaders)
             t == [s EXCEPT !.nBlocksInFlightValidHeaders = @ - valid,
                            !.vBlocksInFlight = Erase(list, at),
                            !.nBlocksInFlight = @ - 1,
                            !.nStallingSince = None]
  <2>1. p \in Peers /\ s \in NodeStates /\ Exact(b)
    BY Zenon, <1>2, GoodFields
  <2>2. list \in Seq(Entries) /\ Distinct(list) /\ s.nBlocksInFlight = Len(list)
        /\ s.nBlocksInFlightValidHeaders = Cardinality(Validated(list)) /\ Linked(s)
        /\ s.nBlocksInFlight \in Int /\ s.nBlocksInFlightValidHeaders \in Int
    BY Zenon, <2>1, StateFields DEF Exact, Counted
  <2>3. at \in DOMAIN list /\ list[at].hash = hash
    <3>1. hash \in Hashes(list)
      BY Zenon, <2>1 DEF Exact
    <3> QED BY Zenon, <3>1 DEF Hashes
  <2>4. c = [node |-> [b.node EXCEPT ![p].nBlocksInFlightValidHeaders = @ - valid,
                                     ![p].vBlocksInFlight = Erase(list, at),
                                     ![p].nBlocksInFlight = @ - 1,
                                     ![p].nStallingSince = None],
             inFlight |-> [b.inFlight EXCEPT ![hash] = None],
             queued |-> b.queued - valid]
    BY Zenon, <1>2 DEF MarkBlockAsReceived
  <2> HIDE DEF valid, at
  <2>5. valid \in {0, 1} /\ valid = IF hash \in Validated(list) THEN 1 ELSE 0
    <3>1. list[at].fValidatedHeaders <=> hash \in Validated(list)
      BY Zenon, <2>2, <2>3 DEF Validated, Distinct
    <3>2. valid = IF list[at].fValidatedHeaders THEN 1 ELSE 0
      BY Zenon DEF Bit, valid
    <3> QED BY Zenon, <3>1, <3>2
  <2> DEFINE short == Erase(list, at)
  <2>6. /\ short \in Seq(Entries) /\ Len(short) = Len(list) - 1 /\ Distinct(short)
        /\ Hashes(short) = Hashes(list) \ {hash} /\ Validated(short) = Validated(list) \ {hash}
    BY Zenon, <2>2, <2>3, ErasedList
  <2>0. b.node[p] = s /\ s.vBlocksInFlight = list
    BY Zenon
  <2> HIDE DEF short, list, s
  <2>7. /\ t \in NodeStates
        /\ t.vBlocksInFlight = short /\ t.nBlocksInFlight = s.nBlocksInFlight - 1
        /\ t.nBlocksInFlightValidHeaders = s.nBlocksInFlightValidHeaders - valid
        /\ t.pindexLastCommonBlock = s.pindexLastCommonBlock
        /\ t.fSyncStarted = s.fSyncStarted /\ t.fPreferredDownload = s.fPreferredDownload
    <3>1. s.nBlocksInFlightValidHeaders - valid \in Int /\ s.nBlocksInFlight - 1 \in Int
      BY SMTT(30), <2>2, <2>5
    <3> QED BY Zenon, <2>1, <2>6, <3>1 DEF NodeStates, short
  <2>8. /\ c.node = [b.node EXCEPT ![p] = t]
        /\ c.inFlight = [b.inFlight EXCEPT ![hash] = None] /\ c.queued = b.queued - valid
        /\ c = [node |-> c.node, inFlight |-> c.inFlight, queued |-> c.queued]
    <3>1. b.node \in [Peers -> NodeStates]
      BY Zenon, GoodFields
    <3> DEFINE new == [b.node EXCEPT ![p].nBlocksInFlightValidHeaders = @ - valid,
                                     ![p].vBlocksInFlight = Erase(list, at),
                                     ![p].nBlocksInFlight = @ - 1,
                                     ![p].nStallingSince = None]
    <3>2. new = [b.node EXCEPT ![p] = t]
      BY Zenon, <2>1, <3>1 DEF s, short
    <3>3. c = [node |-> new, inFlight |-> [b.inFlight EXCEPT ![hash] = None], queued |-> b.queued - valid]
      BY Zenon, <2>4
    <3> HIDE DEF new, c, t
    <3>4. /\ c.node = new /\ c.inFlight = [b.inFlight EXCEPT ![hash] = None] /\ c.queued = b.queued - valid
          /\ c = [node |-> c.node, inFlight |-> c.inFlight, queued |-> c.queued]
      BY Zenon, <3>3
    <3> QED BY Zenon, <3>2, <3>4
  <2> HIDE DEF t, c
  <2>9. /\ c.node \in [Peers -> NodeStates] /\ c.node[p] = t
        /\ \A q \in Peers : q # p => c.node[q] = b.node[q]
        /\ c.inFlight \in [Blocks -> Peers \cup {None}] /\ c.inFlight[hash] = None
        /\ \A h \in Blocks : h # hash => c.inFlight[h] = b.inFlight[h]
        /\ c.queued \in Int
    BY SMTT(30), <2>1, <2>5, <2>7, <2>8, GoodFields
  <2>10. c \in [node : [Peers -> NodeStates], inFlight : [Blocks -> Peers \cup {None}], queued : Int]
    BY SMTT(30), <2>8, <2>9
  <2>11. Fewer(b, c)
    <3>1. \A q \in Peers : b.node[q].nBlocksInFlight \in Int
      BY Zenon, GoodFields, StateFields
    <3>2. t.nBlocksInFlight <= s.nBlocksInFlight
      BY SMTT(30), <2>2, <2>7
    <3>3. \A q \in Peers : c.node[q].nBlocksInFlight <= b.node[q].nBlocksInFlight
      BY SMTT(30), <2>0, <2>9, <3>1, <3>2
    <3> QED BY Zenon, <2>0, <2>7, <2>9, <3>3 DEF Fewer
  <2>12. Counted(t) /\ Linked(t)
    <3>1. Cardinality(Validated(short)) = Cardinality(Validated(list)) - valid
      <4>1. CASE hash \in Validated(list)
        BY SMTT(30), <2>5, <2>6, <4>1, OneLess, ValidatedFinite
      <4>2. CASE hash \notin Validated(list)
        <5>1. Validated(short) = Validated(list)
          BY Zenon, <2>6, <4>2
        <5> QED BY SMTT(30), <2>5, <4>2, <5>1, ValidatedFinite
      <4> QED BY Zenon, <4>1, <4>2
    <3>2. t.nBlocksInFlightValidHeaders = Cardinality(Validated(short)) /\ t.nBlocksInFlight = Len(short)
      BY Zenon, <2>2, <2>6, <2>7, <3>1
    <3> QED BY Zenon, <2>2, <2>6, <2>7, <3>2 DEF Counted, Linked
  <2>13. ASSUME NEW q \in Peers
         PROVE  Counted(c.node[q]) /\ Linked(c.node[q])
    BY Zenon, <2>1, <2>9, <2>12 DEF Exact
  <2>14. ASSUME NEW q \in Peers, NEW h \in Blocks
         PROVE  c.inFlight[h] = q <=> h \in Hashes(c.node[q].vBlocksInFlight)
    <3>1. b.inFlight[h] = q <=> h \in Hashes(b.node[q].vBlocksInFlight)
      BY Zenon, <2>1 DEF Exact
    <3>2. CASE h = hash
      <4>1. q # p => h \notin Hashes(c.node[q].vBlocksInFlight)
        BY Zenon, <2>9, <3>1, <3>2
      <4>2. q = p => h \notin Hashes(c.node[q].vBlocksInFlight)
        BY Zenon, <2>6, <2>7, <2>9, <3>2
      <4>3. c.inFlight[h] # q
        BY Zenon, <2>9, <3>2, PeerAssumption
      <4> QED BY Zenon, <4>1, <4>2, <4>3
    <3>3. CASE h # hash
      BY Zenon, <2>0, <2>6, <2>7, <2>9, <3>1, <3>3
    <3> QED BY Zenon, <3>2, <3>3
  <2>15. c.queued >= Cardinality(Queued(c))
    <3>1. Queued(c) \subseteq Queued(b)
      <4>1. \A q \in Peers : Validated(c.node[q].vBlocksInFlight) \subseteq Validated(b.node[q].vBlocksInFlight)
        BY Zenon, <2>0, <2>6, <2>7, <2>9
      <4> QED BY Zenon, <4>1 DEF Queued
    <3>2. /\ IsFiniteSet(Queued(b)) /\ Cardinality(Queued(b)) \in Nat /\ Cardinality(Queued(c)) \in Nat
          /\ b.queued \in Int /\ b.queued >= Cardinality(Queued(b)) /\ c.queued = b.queued - valid
      BY Zenon, <2>1, <2>8, GoodFields, QueuedFinite DEF Exact
    <3>3. CASE hash \in Validated(list)
      <4>1. hash \in Queued(b)
        BY Zenon, <2>0, <2>1, <3>3 DEF Queued
      <4>2. hash \notin Queued(c)
        <5>1. ASSUME NEW q \in Peers PROVE hash \notin Validated(c.node[q].vBlocksInFlight)
          <6>1. CASE q = p
            BY Zenon, <2>6, <2>7, <2>9, <6>1
          <6>2. CASE q # p
            <7>1. hash \notin Hashes(b.node[q].vBlocksInFlight)
              BY Zenon, <2>1, <6>2 DEF Exact
            <7> QED BY Zenon, <2>9, <6>2, <7>1, ValidatedListed
          <6> QED BY Zenon, <6>1, <6>2
        <5> QED BY Zenon, <5>1 DEF Queued
      <4>3. Cardinality(Queued(c)) <= Cardinality(Queued(b)) - 1
        BY Zenon, <3>1, <3>2, <4>1, <4>2, OneLess
      <4> QED BY SMTT(30), <2>5, <3>2, <3>3, <4>3
    <3>4. CASE hash \notin Validated(list)
      <4>1. Cardinality(Queued(c)) <= Cardinality(Queued(b))
        BY Zenon, <3>1, <3>2, FS_Subset
      <4> QED BY SMTT(30), <2>5, <3>2, <3>4, <4>1
    <3> QED BY Zenon, <3>3, <3>4
  <2>16. ASSUME NEW q \in Peers, conn[q] = "closed"
         PROVE  c.node[q] = CNodeState
    <3>1. b.node[q] = CNodeState
      BY Zenon, <2>1, <2>16 DEF Exact
    <3>2. q # p
      <4>1. CNodeState.vBlocksInFlight = <<>>
        BY SMTT(30) DEF CNodeState
      <4>2. q = p => list = <<>>
        BY Zenon, <2>0, <3>1, <4>1
      <4> QED BY SMTT(30), <2>3, <4>2
    <3> QED BY Zenon, <2>9, <3>1, <3>2
  <2>17. Exact(c)
    BY Zenon, <2>13, <2>14, <2>15, <2>16 DEF Exact
  <2> QED BY Zenon, <2>9, <2>10, <2>11, <2>17 DEF GoodBooks, c
<1> QED BY Zenon, <1>1, <1>2

\* A peer has at most k blocks more in flight than before, the others no more.
Grown(b, c, p, k) ==
    \A q \in Peers : /\ c.node[q].nBlocksInFlight <= b.node[q].nBlocksInFlight + (IF q = p THEN k ELSE 0)
                     /\ c.node[q].fSyncStarted = b.node[q].fSyncStarted
                     /\ c.node[q].fPreferredDownload = b.node[q].fPreferredDownload

\* MarkBlockAsInFlight keeps the books and adds one block to those of the peer.
LEMMA InFlight ==
    ASSUME NEW b0 \in GoodBooks, NEW p \in Peers, conn[p] # "closed", NEW hash \in Blocks,
           NEW fValidatedHeaders \in BOOLEAN
    PROVE  /\ MarkBlockAsInFlight(b0, p, hash, fValidatedHeaders) \in GoodBooks
           /\ Grown(b0, MarkBlockAsInFlight(b0, p, hash, fValidatedHeaders), p, 1)
<1> DEFINE b == MarkBlockAsReceived(b0, hash)
           c == MarkBlockAsInFlight(b0, p, hash, fValidatedHeaders)
           s == b.node[p]
           list == s.vBlocksInFlight
           e == [hash |-> hash, fValidatedHeaders |-> fValidatedHeaders, left |-> GetBlockTimeout(b.queued)]
           long == Append(list, e)
           valid == Bit(fValidatedHeaders)
           t == [s EXCEPT !.vBlocksInFlight = Append(@, e),
                          !.nBlocksInFlight = @ + 1,
                          !.nBlocksInFlightValidHeaders = @ + valid]
           new == [b.node EXCEPT ![p].vBlocksInFlight = Append(@, e),
                                 ![p].nBlocksInFlight = @ + 1,
                                 ![p].nBlocksInFlightValidHeaders = @ + valid]
<1>1. b \in GoodBooks /\ b.inFlight[hash] = None /\ Fewer(b0, b)
  BY Zenon, Received
<1>2. c = [node |-> new, inFlight |-> [b.inFlight EXCEPT ![hash] = p], queued |-> b.queued + valid]
  BY Zenon DEF MarkBlockAsInFlight
<1> HIDE DEF b, c
<1>3. /\ b.node \in [Peers -> NodeStates] /\ b.inFlight \in [Blocks -> Peers \cup {None}]
      /\ b.queued \in Int /\ Exact(b)
  BY Zenon, <1>1, GoodFields
<1>4. new = [b.node EXCEPT ![p] = t]
  BY Zenon, <1>3
<1>5. valid \in {0, 1} /\ valid = IF fValidatedHeaders THEN 1 ELSE 0
  BY SMTT(30) DEF Bit
<1>6. e \in Entries /\ e.hash = hash /\ e.fValidatedHeaders = fValidatedHeaders
  <2>1. GetBlockTimeout(b.queued) \in Int
    BY SMTT(30), <1>3, LimitAssumption DEF GetBlockTimeout
  <2> QED BY Zenon, <2>1 DEF Entries
<1>7. /\ s \in NodeStates /\ list \in Seq(Entries) /\ Distinct(list) /\ s.nBlocksInFlight = Len(list)
      /\ s.nBlocksInFlightValidHeaders = Cardinality(Validated(list)) /\ Linked(s)
      /\ s.nBlocksInFlight \in Int /\ s.nBlocksInFlightValidHeaders \in Int
  BY Zenon, <1>3, StateFields DEF Exact, Counted
<1>8. \A q \in Peers : hash \notin Hashes(b.node[q].vBlocksInFlight)
  BY Zenon, <1>1, <1>3, PeerAssumption DEF Exact
<1>0. b.node[p] = s /\ s.vBlocksInFlight = list /\ hash \notin Hashes(list)
  BY Zenon, <1>8
<1> HIDE DEF e, valid, new, s, list
<1>9. /\ long \in Seq(Entries) /\ Len(long) = Len(list) + 1 /\ Distinct(long)
      /\ Hashes(long) = Hashes(list) \cup {hash}
      /\ Validated(long) = Validated(list) \cup (IF fValidatedHeaders THEN {hash} ELSE {})
  BY Zenon, <1>0, <1>6, <1>7, AppendedList
<1>10. /\ t \in NodeStates
       /\ t.vBlocksInFlight = long /\ t.nBlocksInFlight = s.nBlocksInFlight + 1
       /\ t.nBlocksInFlightValidHeaders = s.nBlocksInFlightValidHeaders + valid
       /\ t.pindexLastCommonBlock = s.pindexLastCommonBlock
       /\ t.fSyncStarted = s.fSyncStarted /\ t.fPreferredDownload = s.fPreferredDownload
  <2>1. s.nBlocksInFlightValidHeaders + valid \in Int /\ s.nBlocksInFlight + 1 \in Int
    BY SMTT(30), <1>5, <1>7
  <2>2. long = Append(s.vBlocksInFlight, e)
    BY Zenon, <1>0
  <2> HIDE DEF long
  <2> QED BY Zenon, <1>7, <1>9, <2>1, <2>2 DEF NodeStates
<1> HIDE DEF t, long
<1>11. /\ c.node = [b.node EXCEPT ![p] = t] /\ c.inFlight = [b.inFlight EXCEPT ![hash] = p]
       /\ c.queued = b.queued + valid
       /\ c = [node |-> c.node, inFlight |-> c.inFlight, queued |-> c.queued]
  BY Zenon, <1>2, <1>4
<1>12. /\ c.node \in [Peers -> NodeStates] /\ c.node[p] = t
       /\ \A q \in Peers : q # p => c.node[q] = b.node[q]
       /\ c.inFlight \in [Blocks -> Peers \cup {None}] /\ c.inFlight[hash] = p
       /\ \A h \in Blocks : h # hash => c.inFlight[h] = b.inFlight[h]
       /\ c.queued \in Int
  BY SMTT(30), <1>3, <1>5, <1>10, <1>11
<1>13. c \in [node : [Peers -> NodeStates], inFlight : [Blocks -> Peers \cup {None}], queued : Int]
  BY SMTT(30), <1>11, <1>12
<1>14. Grown(b0, c, p, 1)
  <2>1. /\ \A q \in Peers : b.node[q].nBlocksInFlight \in Int /\ b0.node[q].nBlocksInFlight \in Int
        /\ \A q \in Peers : b.node[q].nBlocksInFlight <= b0.node[q].nBlocksInFlight
    BY Zenon, <1>1, GoodFields, StateFields DEF Fewer
  <2>2. \A q \in Peers : c.node[q].nBlocksInFlight <= b0.node[q].nBlocksInFlight + (IF q = p THEN 1 ELSE 0)
    BY SMTT(30), <1>0, <1>10, <1>12, <2>1
  <2>3. ASSUME NEW q \in Peers
        PROVE  /\ c.node[q].fSyncStarted = b.node[q].fSyncStarted
               /\ c.node[q].fPreferredDownload = b.node[q].fPreferredDownload
    BY Zenon, <1>0, <1>10, <1>12
  <2> QED BY Zenon, <1>1, <2>2, <2>3 DEF Grown, Fewer
<1>15. Counted(t) /\ Linked(t)
  <2>1. Cardinality(Validated(long)) = Cardinality(Validated(list)) + valid
    <3>1. hash \notin Validated(list) /\ IsFiniteSet(Validated(list)) /\ Cardinality(Validated(list)) \in Nat
      BY Zenon, <1>0, ValidatedListed, ValidatedFinite
    <3>2. CASE fValidatedHeaders
      <4>1. Validated(long) = Validated(list) \cup {hash}
        BY Zenon, <1>9, <3>2
      <4> QED BY Zenon, <1>5, <3>1, <3>2, <4>1, OneMore
    <3>3. CASE ~fValidatedHeaders
      <4>1. Validated(long) = Validated(list)
        BY Zenon, <1>9, <3>3
      <4> QED BY SMTT(30), <1>5, <3>1, <3>3, <4>1
    <3> QED BY Zenon, <3>2, <3>3
  <2>2. t.nBlocksInFlightValidHeaders = Cardinality(Validated(long)) /\ t.nBlocksInFlight = Len(long)
    BY Zenon, <1>7, <1>9, <1>10, <2>1
  <2> QED BY Zenon, <1>7, <1>9, <1>10, <2>2 DEF Counted, Linked
<1>16. ASSUME NEW q \in Peers
       PROVE  Counted(c.node[q]) /\ Linked(c.node[q])
  BY Zenon, <1>3, <1>12, <1>15 DEF Exact
<1>17. ASSUME NEW q \in Peers, NEW h \in Blocks
       PROVE  c.inFlight[h] = q <=> h \in Hashes(c.node[q].vBlocksInFlight)
  <2>1. b.inFlight[h] = q <=> h \in Hashes(b.node[q].vBlocksInFlight)
    BY Zenon, <1>3 DEF Exact
  <2>2. CASE h = hash
    BY Zenon, <1>8, <1>9, <1>10, <1>12, <2>2
  <2>3. CASE h # hash
    BY Zenon, <1>0, <1>9, <1>10, <1>12, <2>1, <2>3
  <2> QED BY Zenon, <2>2, <2>3
<1>18. c.queued >= Cardinality(Queued(c))
  <2>1. /\ IsFiniteSet(Queued(b)) /\ Cardinality(Queued(b)) \in Nat /\ Cardinality(Queued(c)) \in Nat
        /\ b.queued >= Cardinality(Queued(b))
    BY Zenon, <1>3, QueuedFinite DEF Exact
  <2>2. Queued(c) \subseteq Queued(b) \cup (IF fValidatedHeaders THEN {hash} ELSE {})
    <3>1. \A q \in Peers : Validated(c.node[q].vBlocksInFlight)
                             \subseteq Validated(b.node[q].vBlocksInFlight) \cup (IF fValidatedHeaders THEN {hash} ELSE {})
      BY Zenon, <1>0, <1>9, <1>10, <1>12
    <3> QED BY Zenon, <3>1 DEF Queued
  <2>3. CASE fValidatedHeaders
    <3>1. IsFiniteSet(Queued(b) \cup {hash}) /\ Cardinality(Queued(b) \cup {hash}) <= Cardinality(Queued(b)) + 1
      BY Zenon, <2>1, OneMore
    <3>2. Cardinality(Queued(c)) <= Cardinality(Queued(b) \cup {hash}) /\ Cardinality(Queued(b) \cup {hash}) \in Nat
      BY Zenon, <2>2, <2>3, <3>1, FS_Subset, FS_CardinalityType
    <3> QED BY SMTT(30), <1>3, <1>5, <1>11, <2>1, <2>3, <3>1, <3>2
  <2>4. CASE ~fValidatedHeaders
    <3>1. Cardinality(Queued(c)) <= Cardinality(Queued(b))
      BY Zenon, <2>1, <2>2, <2>4, FS_Subset
    <3> QED BY SMTT(30), <1>3, <1>5, <1>11, <2>1, <2>4, <3>1
  <2> QED BY Zenon, <2>3, <2>4
<1>19. ASSUME NEW q \in Peers, conn[q] = "closed"
       PROVE  c.node[q] = CNodeState
  BY Zenon, <1>3, <1>12, <1>19 DEF Exact
<1>20. Exact(c)
  BY Zenon, <1>16, <1>17, <1>18, <1>19 DEF Exact
<1> QED BY Zenon, <1>13, <1>14, <1>20 DEF GoodBooks, c

\* SendMessages marks every block it asks for.
LEMMA AllInFlight ==
    ASSUME NEW b \in GoodBooks, NEW p \in Peers, conn[p] # "closed", NEW vBlocks \in Seq(Blocks)
    PROVE  /\ MarkBlocksAsInFlight(b, p, vBlocks) \in GoodBooks
           /\ Grown(b, MarkBlocksAsInFlight(b, p, vBlocks), p, Len(vBlocks))
<1> DEFINE n == Len(vBlocks)
           W == [i \in 0..n |-> {c \in GoodBooks : Grown(b, c, p, i)}]
           step == [i \in 1..n |-> [c \in W[i - 1] |-> MarkBlockAsInFlight(c, p, vBlocks[i], TRUE)]]
           f == CHOOSE h : h = [i \in 0..n |-> IF i = 0 THEN b ELSE MarkBlockAsInFlight(h[i - 1], p, vBlocks[i], TRUE)]
<1>1. n \in Nat /\ \A i \in 1..n : vBlocks[i] \in Blocks /\ i - 1 \in 0..n /\ i \in 0..n /\ i # 0 /\ i \in Int
  BY SMTT(30)
<1>2. b \in W[0]
  <2>1. \A q \in Peers : b.node[q].nBlocksInFlight \in Int
    BY Zenon, GoodFields, StateFields
  <2>2. Grown(b, b, p, 0)
    BY SMTT(30), <2>1 DEF Grown
  <2>3. 0 \in 0..n
    BY SMTT(30), <1>1
  <2> QED BY Zenon, <2>2, <2>3
<1>3. ASSUME NEW i \in 1..n, NEW c \in W[i - 1]
      PROVE  MarkBlockAsInFlight(c, p, vBlocks[i], TRUE) \in W[i]
  <2> DEFINE d == MarkBlockAsInFlight(c, p, vBlocks[i], TRUE)
  <2>1. c \in GoodBooks /\ Grown(b, c, p, i - 1)
    BY Zenon, <1>1
  <2>2. d \in GoodBooks /\ Grown(c, d, p, 1)
    BY Zenon, <1>1, <2>1, InFlight
  <2> HIDE DEF d
  <2>3. \A q \in Peers : b.node[q].nBlocksInFlight \in Int /\ c.node[q].nBlocksInFlight \in Int
                         /\ d.node[q].nBlocksInFlight \in Int
    BY Zenon, <2>1, <2>2, GoodFields, StateFields
  <2>4. \A q \in Peers : d.node[q].nBlocksInFlight <= b.node[q].nBlocksInFlight + (IF q = p THEN i ELSE 0)
    <3>1. \A q \in Peers : /\ c.node[q].nBlocksInFlight <= b.node[q].nBlocksInFlight + (IF q = p THEN i - 1 ELSE 0)
                           /\ d.node[q].nBlocksInFlight <= c.node[q].nBlocksInFlight + (IF q = p THEN 1 ELSE 0)
      BY Zenon, <2>1, <2>2 DEF Grown
    <3>2. \A x, y, z \in Int : x <= y + (i - 1) /\ z <= x + 1 => z <= y + i
      BY SMTT(30), <1>1
    <3> TAKE q \in Peers
    <3>3. CASE q = p
      BY Zenon, <2>3, <3>1, <3>2, <3>3
    <3>4. CASE q # p
      <4>1. /\ c.node[q].nBlocksInFlight <= b.node[q].nBlocksInFlight + 0
            /\ d.node[q].nBlocksInFlight <= c.node[q].nBlocksInFlight + 0
        BY Zenon, <3>1, <3>4
      <4>2. d.node[q].nBlocksInFlight <= b.node[q].nBlocksInFlight + 0
        BY SMTT(30), <2>3, <4>1
      <4> QED BY Zenon, <3>4, <4>2
    <3> QED BY Zenon, <3>3, <3>4
  <2>5. \A q \in Peers : /\ d.node[q].fSyncStarted = b.node[q].fSyncStarted
                         /\ d.node[q].fPreferredDownload = b.node[q].fPreferredDownload
    BY Zenon, <2>1, <2>2 DEF Grown
  <2>6. Grown(b, d, p, i)
    BY Zenon, <2>4, <2>5 DEF Grown
  <2>7. d \in W[i]
    BY Zenon, <1>1, <2>2, <2>6
  <2> QED BY Zenon, <2>7 DEF d
<1>4. \A i \in 0..n : W[i] \subseteq GoodBooks /\ \A c \in W[i] : Grown(b, c, p, i)
  BY Zenon
<1>5. \A i \in 1..n : \A c \in W[i - 1] : step[i][c] = MarkBlockAsInFlight(c, p, vBlocks[i], TRUE)
  BY Zenon
<1>6. n \in 0..n
  BY SMTT(30), <1>1
<1> HIDE DEF W, step, n
<1>7. \E g : g = [i \in 0..n |-> IF i = 0 THEN b ELSE MarkBlockAsInFlight(g[i - 1], p, vBlocks[i], TRUE)]
  <2>1. PICK g : IsRun(g, n, b, W, step)
    <3>1. IsLoop(n, b, W, step)
      BY Zenon, <1>1, <1>2, <1>3, <1>5 DEF IsLoop
    <3> QED BY Zenon, <3>1, Recursion
  <2>2. ASSUME NEW i \in 0..n
        PROVE  g[i] = IF i = 0 THEN b ELSE MarkBlockAsInFlight(g[i - 1], p, vBlocks[i], TRUE)
    <3>1. i = 0 \/ i \in 1..n
      BY SMTT(30), <1>1
    <3> QED BY Zenon, <1>1, <1>5, <2>1, <3>1 DEF IsRun
  <2>3. g = [i \in 0..n |-> IF i = 0 THEN b ELSE MarkBlockAsInFlight(g[i - 1], p, vBlocks[i], TRUE)]
    BY Zenon, <2>1, <2>2 DEF IsRun
  <2> QED BY Zenon, <2>3
<1>8. f = [i \in 0..n |-> IF i = 0 THEN b ELSE MarkBlockAsInFlight(f[i - 1], p, vBlocks[i], TRUE)]
  BY Zenon, <1>7
<1>9. MarkBlocksAsInFlight(b, p, vBlocks) = f[n]
  BY Zenon DEF MarkBlocksAsInFlight, n
<1> HIDE DEF f
<1>10. f[0] = b /\ \A i \in 1..n : f[i] = MarkBlockAsInFlight(f[i - 1], p, vBlocks[i], TRUE)
  <2>1. 0 \in 0..n
    BY SMTT(30), <1>1
  <2> QED BY Zenon, <1>1, <1>8, <2>1
<1>11. f[n] \in W[n]
  <2>1. f[0] \in W[0] /\ \A i \in 1..n : f[i - 1] \in W[i - 1] => f[i] \in W[i]
    BY Zenon, <1>2, <1>3, <1>10
  <2> QED BY Zenon, <1>1, <2>1, Rounds
<1> QED BY Zenon, <1>4, <1>6, <1>9, <1>11 DEF n

-----------------------------------------------------------------------------
(* Changes of one peer's state that leave its blocks in flight alone.      *)

\* The state still has the same blocks in flight; the time left may differ.
SameInFlight(s, t) ==
    /\ t.nBlocksInFlight = s.nBlocksInFlight
    /\ t.nBlocksInFlightValidHeaders = s.nBlocksInFlightValidHeaders
    /\ Len(t.vBlocksInFlight) = Len(s.vBlocksInFlight)
    /\ DOMAIN t.vBlocksInFlight = DOMAIN s.vBlocksInFlight
    /\ \A i \in DOMAIN s.vBlocksInFlight :
         /\ t.vBlocksInFlight[i].hash = s.vBlocksInFlight[i].hash
         /\ t.vBlocksInFlight[i].fValidatedHeaders = s.vBlocksInFlight[i].fValidatedHeaders

Kept(s, t) ==
    /\ t \in NodeStates
    /\ SameInFlight(s, t)
    /\ t.pindexLastCommonBlock = s.pindexLastCommonBlock
    /\ t.fSyncStarted = s.fSyncStarted
    /\ t.fPreferredDownload = s.fPreferredDownload

LEMMA KeptTwice ==
    ASSUME NEW s, NEW t, NEW u, Kept(s, t), Kept(t, u)
    PROVE  Kept(s, u)
<1>1. SameInFlight(s, u)
  BY Zenon DEF Kept, SameInFlight
<1> QED BY Zenon, <1>1 DEF Kept

LEMMA KeptSelf ==
    ASSUME NEW s \in NodeStates
    PROVE  Kept(s, s)
BY Zenon DEF Kept, SameInFlight

\* The sets of blocks of a list depend on its hashes and marks only.
LEMMA SameLists ==
    ASSUME NEW s, NEW t, SameInFlight(s, t)
    PROVE  /\ Hashes(t.vBlocksInFlight) = Hashes(s.vBlocksInFlight)
           /\ Validated(t.vBlocksInFlight) = Validated(s.vBlocksInFlight)
           /\ Counted(s) => Counted(t)
<1>1. Hashes(t.vBlocksInFlight) = Hashes(s.vBlocksInFlight)
  <2>1. ASSUME NEW i \in DOMAIN t.vBlocksInFlight
        PROVE  t.vBlocksInFlight[i].hash \in Hashes(s.vBlocksInFlight)
    BY Zenon DEF Hashes, SameInFlight
  <2>2. ASSUME NEW i \in DOMAIN s.vBlocksInFlight
        PROVE  s.vBlocksInFlight[i].hash \in Hashes(t.vBlocksInFlight)
    BY Zenon DEF Hashes, SameInFlight
  <2> QED BY Zenon, <2>1, <2>2 DEF Hashes
<1>2. Validated(t.vBlocksInFlight) = Validated(s.vBlocksInFlight)
  BY Zenon DEF Validated, SameInFlight
<1>3. Distinct(s.vBlocksInFlight) => Distinct(t.vBlocksInFlight)
  BY Zenon DEF Distinct, SameInFlight
<1> QED BY Zenon, <1>1, <1>2, <1>3 DEF Counted, SameInFlight

\* Such a change of a connected peer keeps the books.
LEMMA Changed ==
    ASSUME NEW b \in GoodBooks, NEW p \in Peers, conn[p] # "closed",
           NEW t \in NodeStates, SameInFlight(b.node[p], t), Linked(t)
    PROVE  /\ [b EXCEPT !.node[p] = t] \in GoodBooks
           /\ [b EXCEPT !.node[p] = t].node = [b.node EXCEPT ![p] = t]
           /\ [b EXCEPT !.node[p] = t].inFlight = b.inFlight
           /\ [b EXCEPT !.node[p] = t].queued = b.queued
<1> DEFINE c == [b EXCEPT !.node[p] = t]
<1>1. /\ b.node \in [Peers -> NodeStates] /\ b.inFlight \in [Blocks -> Peers \cup {None}]
      /\ b.queued \in Int /\ Exact(b)
      /\ b = [node |-> b.node, inFlight |-> b.inFlight, queued |-> b.queued]
  BY Zenon, GoodFields
<1>2. c = [node |-> [b.node EXCEPT ![p] = t], inFlight |-> b.inFlight, queued |-> b.queued]
  BY SMTT(30), <1>1
<1> HIDE DEF c
<1>3. /\ c.node = [b.node EXCEPT ![p] = t] /\ c.inFlight = b.inFlight /\ c.queued = b.queued
      /\ c = [node |-> c.node, inFlight |-> c.inFlight, queued |-> c.queued]
  BY Zenon, <1>2
<1>4. /\ c.node \in [Peers -> NodeStates] /\ c.node[p] = t
      /\ \A q \in Peers : q # p => c.node[q] = b.node[q]
  BY Zenon, <1>1, <1>3
<1>5. c \in [node : [Peers -> NodeStates], inFlight : [Blocks -> Peers \cup {None}], queued : Int]
  BY SMTT(30), <1>1, <1>3, <1>4
<1>6. /\ Hashes(t.vBlocksInFlight) = Hashes(b.node[p].vBlocksInFlight)
      /\ Validated(t.vBlocksInFlight) = Validated(b.node[p].vBlocksInFlight)
      /\ Counted(t)
  <2> DEFINE s == b.node[p]
  <2>1. SameInFlight(s, t) /\ Counted(s)
    BY Zenon, <1>1 DEF Exact
  <2> HIDE DEF s
  <2>2. /\ Hashes(t.vBlocksInFlight) = Hashes(s.vBlocksInFlight)
        /\ Validated(t.vBlocksInFlight) = Validated(s.vBlocksInFlight)
        /\ Counted(t)
    BY Zenon, <2>1, SameLists
  <2> QED BY Zenon, <2>2 DEF s
<1>7. ASSUME NEW q \in Peers
      PROVE  /\ Hashes(c.node[q].vBlocksInFlight) = Hashes(b.node[q].vBlocksInFlight)
             /\ Validated(c.node[q].vBlocksInFlight) = Validated(b.node[q].vBlocksInFlight)
             /\ Counted(c.node[q]) /\ Linked(c.node[q])
  BY Zenon, <1>1, <1>4, <1>6 DEF Exact
<1>8. Queued(c) = Queued(b)
  BY Zenon, <1>7 DEF Queued
<1>9. Exact(c)
  <2>1. ASSUME NEW q \in Peers, NEW h \in Blocks
        PROVE  c.inFlight[h] = q <=> h \in Hashes(c.node[q].vBlocksInFlight)
    <3>1. b.inFlight[h] = q <=> h \in Hashes(b.node[q].vBlocksInFlight)
      BY Zenon, <1>1 DEF Exact
    <3>2. c.inFlight[h] = b.inFlight[h]
      BY Zenon, <1>3
    <3> QED BY Zenon, <1>7, <3>1, <3>2
  <2>2. c.queued >= Cardinality(Queued(c))
    BY Zenon, <1>1, <1>3, <1>8 DEF Exact
  <2>3. \A q \in Peers : conn[q] = "closed" => c.node[q] = CNodeState
    BY Zenon, <1>1, <1>4 DEF Exact
  <2> QED BY Zenon, <1>7, <2>1, <2>2, <2>3 DEF Exact
<1> QED BY Zenon, <1>3, <1>5, <1>9 DEF GoodBooks, c

LEMMA AnnouncedKept ==
    ASSUME NEW s \in NodeStates, NEW b \in Blocks
    PROVE  Kept(s, Announced(s, b))
<1> DEFINE t == [s EXCEPT !.pindexBestKnownBlock = b]
<1>1. Kept(s, t)
  <2>1. t \in NodeStates
    BY Zenon DEF NodeStates
  <2>2. /\ t.vBlocksInFlight = s.vBlocksInFlight /\ t.nBlocksInFlight = s.nBlocksInFlight
        /\ t.nBlocksInFlightValidHeaders = s.nBlocksInFlightValidHeaders
        /\ t.pindexLastCommonBlock = s.pindexLastCommonBlock
        /\ t.fSyncStarted = s.fSyncStarted /\ t.fPreferredDownload = s.fPreferredDownload
    BY Zenon DEF NodeStates
  <2> HIDE DEF t
  <2> QED BY Zenon, <2>1, <2>2 DEF Kept, SameInFlight
<1> QED BY Zenon, <1>1, KeptSelf DEF Announced

LEMMA UnknownKept ==
    ASSUME NEW s \in NodeStates, NEW b \in Blocks \cup {None}
    PROVE  Kept(s, [s EXCEPT !.hashLastUnknownBlock = b])
<1> DEFINE t == [s EXCEPT !.hashLastUnknownBlock = b]
<1>1. t \in NodeStates
  BY Zenon DEF NodeStates
<1>2. /\ t.vBlocksInFlight = s.vBlocksInFlight /\ t.nBlocksInFlight = s.nBlocksInFlight
      /\ t.nBlocksInFlightValidHeaders = s.nBlocksInFlightValidHeaders
      /\ t.pindexLastCommonBlock = s.pindexLastCommonBlock
      /\ t.fSyncStarted = s.fSyncStarted /\ t.fPreferredDownload = s.fPreferredDownload
  BY Zenon DEF NodeStates
<1> HIDE DEF t
<1>3. Kept(s, t)
  BY Zenon, <1>1, <1>2 DEF Kept, SameInFlight
<1> QED BY Zenon, <1>3 DEF t

\* What is known of a peer's best block is no business of the books.
LEMMA AvailabilityKept ==
    ASSUME NEW s \in NodeStates, NEW index \in SUBSET Blocks
    PROVE  Kept(s, ProcessBlockAvailability(s, index))
<1>1. CASE s.hashLastUnknownBlock \in index
  <2> DEFINE t == Announced(s, s.hashLastUnknownBlock)
  <2>1. Kept(s, t) /\ t \in NodeStates
    BY Zenon, <1>1, AnnouncedKept DEF Kept
  <2> HIDE DEF t
  <2>2. Kept(s, [t EXCEPT !.hashLastUnknownBlock = None])
    BY Zenon, <2>1, UnknownKept, KeptTwice
  <2> QED BY Zenon, <1>1, <2>2 DEF t, ProcessBlockAvailability
<1>2. CASE s.hashLastUnknownBlock \notin index
  BY Zenon, <1>2, KeptSelf DEF ProcessBlockAvailability
<1> QED BY Zenon, <1>1, <1>2

LEMMA UpdateKept ==
    ASSUME NEW s \in NodeStates, NEW hash \in Blocks, NEW index \in SUBSET Blocks
    PROVE  Kept(s, UpdateBlockAvailability(s, hash, index))
<1> DEFINE t == ProcessBlockAvailability(s, index)
<1>1. Kept(s, t) /\ t \in NodeStates
  BY Zenon, AvailabilityKept DEF Kept
<1>2. UpdateBlockAvailability(s, hash, index) =
        IF hash \in index THEN Announced(t, hash) ELSE [t EXCEPT !.hashLastUnknownBlock = hash]
  BY Zenon DEF UpdateBlockAvailability
<1> HIDE DEF t
<1>3. Kept(t, Announced(t, hash)) /\ Kept(t, [t EXCEPT !.hashLastUnknownBlock = hash])
  BY Zenon, <1>1, AnnouncedKept, UnknownKept
<1> QED BY Zenon, <1>1, <1>2, <1>3, KeptTwice

LEMMA MisbehavingKept ==
    ASSUME NEW s \in NodeStates, NEW howmuch \in Nat
    PROVE  Kept(s, Misbehaving(s, howmuch))
<1> DEFINE score == Smaller(s.nMisbehavior + howmuch, BanScore)
           ban == s.fShouldBan \/ (score = BanScore /\ s.nMisbehavior < BanScore)
           t == [s EXCEPT !.nMisbehavior = score, !.fShouldBan = ban]
<1>1. score \in Nat
  BY SMTT(30), StateFields, LimitAssumption DEF Smaller
<1>2. Misbehaving(s, howmuch) = t
  BY Zenon DEF Misbehaving
<1>3. ban \in BOOLEAN
  BY Zenon
<1> HIDE DEF score, ban
<1>4. t \in NodeStates
  BY Zenon, <1>1, <1>3 DEF NodeStates
<1>5. /\ t.vBlocksInFlight = s.vBlocksInFlight /\ t.nBlocksInFlight = s.nBlocksInFlight
      /\ t.nBlocksInFlightValidHeaders = s.nBlocksInFlightValidHeaders
      /\ t.pindexLastCommonBlock = s.pindexLastCommonBlock
      /\ t.fSyncStarted = s.fSyncStarted /\ t.fPreferredDownload = s.fPreferredDownload
  BY Zenon DEF NodeStates
<1> HIDE DEF t
<1> QED BY Zenon, <1>2, <1>4, <1>5 DEF Kept, SameInFlight

LEMMA DisconnectKept ==
    ASSUME NEW s \in NodeStates, NEW v \in BOOLEAN
    PROVE  Kept(s, [s EXCEPT !.fDisconnect = v])
<1> DEFINE t == [s EXCEPT !.fDisconnect = v]
<1>1. t \in NodeStates
  BY Zenon DEF NodeStates
<1>2. /\ t.vBlocksInFlight = s.vBlocksInFlight /\ t.nBlocksInFlight = s.nBlocksInFlight
      /\ t.nBlocksInFlightValidHeaders = s.nBlocksInFlightValidHeaders
      /\ t.pindexLastCommonBlock = s.pindexLastCommonBlock
      /\ t.fSyncStarted = s.fSyncStarted /\ t.fPreferredDownload = s.fPreferredDownload
  BY Zenon DEF NodeStates
<1> HIDE DEF t
<1>3. Kept(s, t)
  BY Zenon, <1>1, <1>2 DEF Kept, SameInFlight
<1> QED BY Zenon, <1>3 DEF t

\* The timeouts change the time left of the oldest entry only.
LEMMA TimeoutsKept ==
    ASSUME NEW s \in NodeStates, NEW queued \in Int
    PROVE  Kept(s, CheckTimeouts(s, queued))
<1> DEFINE stalls == ~s.fDisconnect /\ s.nStallingSince # None /\ s.nStallingSince > BLOCK_STALLING_TIMEOUT
           list == s.vBlocksInFlight
           left == Smaller(list[1].left, GetBlockTimeout(queued - s.nBlocksInFlightValidHeaders))
           t == [s EXCEPT !.vBlocksInFlight[1].left = left, !.fDisconnect = (left < 0)]
           new == [list EXCEPT ![1].left = left]
<1>1. CheckTimeouts(s, queued) = IF stalls THEN [s EXCEPT !.fDisconnect = TRUE]
                                 ELSE IF s.fDisconnect \/ s.vBlocksInFlight = <<>> THEN s ELSE t
  BY Zenon DEF CheckTimeouts
<1>2. Kept(s, [s EXCEPT !.fDisconnect = TRUE]) /\ Kept(s, s)
  BY Zenon, DisconnectKept, KeptSelf
<1>3. ASSUME list # <<>>
      PROVE  Kept(s, t)
  <2>1. list \in Seq(Entries) /\ 1 \in DOMAIN list /\ list[1] \in Entries /\ s.nBlocksInFlightValidHeaders \in Int
    BY SMTT(30), <1>3, StateFields
  <2>2. left \in Int
    <3>1. list[1].left \in Int
      BY SMTT(30), <2>1 DEF Entries
    <3> QED BY SMTT(30), <2>1, <3>1, LimitAssumption DEF Smaller, GetBlockTimeout
  <2> HIDE DEF left
  <2>3. [list[1] EXCEPT !.left = left] \in Entries
        /\ [list[1] EXCEPT !.left = left].hash = list[1].hash
        /\ [list[1] EXCEPT !.left = left].fValidatedHeaders = list[1].fValidatedHeaders
    BY Zenon, <2>1, <2>2 DEF Entries
  <2>4. new = [list EXCEPT ![1] = [list[1] EXCEPT !.left = left]]
    BY Zenon, <2>1
  <2>5. /\ new \in Seq(Entries) /\ Len(new) = Len(list) /\ DOMAIN new = DOMAIN list
        /\ new[1] = [list[1] EXCEPT !.left = left]
        /\ \A i \in DOMAIN list : i # 1 => new[i] = list[i]
    <3> DEFINE e == [list[1] EXCEPT !.left = left]
    <3>1. e \in Entries /\ new = [list EXCEPT ![1] = e]
      BY Zenon, <2>3, <2>4
    <3> HIDE DEF e, new
    <3>2. /\ new \in Seq(Entries) /\ Len(new) = Len(list) /\ DOMAIN new = DOMAIN list
          /\ new[1] = e /\ \A i \in DOMAIN list : i # 1 => new[i] = list[i]
      BY SMTT(30), <2>1, <3>1
    <3> QED BY Zenon, <3>2 DEF e
  <2>6. \A i \in DOMAIN list : new[i].hash = list[i].hash /\ new[i].fValidatedHeaders = list[i].fValidatedHeaders
    BY Zenon, <2>3, <2>5
  <2>7. t = [s EXCEPT !.vBlocksInFlight = new, !.fDisconnect = (left < 0)]
    BY Zenon DEF NodeStates
  <2>8. (left < 0) \in BOOLEAN
    BY SMTT(30), <2>2
  <2> HIDE DEF new
  <2>9. t \in NodeStates
    BY Zenon, <2>5, <2>7, <2>8 DEF NodeStates
  <2>10. /\ t.vBlocksInFlight = new /\ t.nBlocksInFlight = s.nBlocksInFlight
         /\ t.nBlocksInFlightValidHeaders = s.nBlocksInFlightValidHeaders
         /\ t.pindexLastCommonBlock = s.pindexLastCommonBlock
         /\ t.fSyncStarted = s.fSyncStarted /\ t.fPreferredDownload = s.fPreferredDownload
    BY Zenon, <2>7 DEF NodeStates
  <2> HIDE DEF t
  <2> QED BY Zenon, <2>5, <2>6, <2>9, <2>10 DEF Kept, SameInFlight
<1> QED BY Zenon, <1>1, <1>2, <1>3

\* A tick changes times only.
LEMMA LaterKept ==
    ASSUME NEW s \in NodeStates
    PROVE  Kept(s, Later(s))
<1> DEFINE list == s.vBlocksInFlight
           since == IF s.nStallingSince = None THEN None ELSE Smaller(s.nStallingSince + 1, BLOCK_STALLING_TIMEOUT + 1)
           new == [i \in DOMAIN list |-> Aged(list[i])]
           t == [s EXCEPT !.nStallingSince = since, !.vBlocksInFlight = new]
<1>1. Later(s) = t
  BY Zenon DEF Later
<1>2. since \in Int \cup {None}
  BY SMTT(30), StateFields, LimitAssumption DEF Smaller
<1>3. list \in Seq(Entries)
  BY Zenon, StateFields
<1>4. \A e \in Entries : Aged(e) \in Entries /\ Aged(e).hash = e.hash /\ Aged(e).fValidatedHeaders = e.fValidatedHeaders
  <2> SUFFICES ASSUME NEW e \in Entries
               PROVE  Aged(e) \in Entries /\ Aged(e).hash = e.hash /\ Aged(e).fValidatedHeaders = e.fValidatedHeaders
    BY Zenon
  <2>1. (IF e.left < 0 THEN e.left ELSE e.left - 1) \in Int
    BY SMTT(30) DEF Entries
  <2> QED BY Zenon, <2>1 DEF Entries, Aged
<1> HIDE DEF since
<1>5. /\ new \in Seq(Entries) /\ Len(new) = Len(list) /\ DOMAIN new = DOMAIN list
      /\ \A i \in DOMAIN list : new[i] = Aged(list[i]) /\ list[i] \in Entries
  BY SMTT(30), <1>3, <1>4
<1>6. \A i \in DOMAIN list : new[i].hash = list[i].hash /\ new[i].fValidatedHeaders = list[i].fValidatedHeaders
  BY Zenon, <1>4, <1>5
<1> HIDE DEF new
<1>7. t \in NodeStates
  BY Zenon, <1>2, <1>5 DEF NodeStates
<1>8. /\ t.vBlocksInFlight = new /\ t.nBlocksInFlight = s.nBlocksInFlight
      /\ t.nBlocksInFlightValidHeaders = s.nBlocksInFlightValidHeaders
      /\ t.pindexLastCommonBlock = s.pindexLastCommonBlock
      /\ t.fSyncStarted = s.fSyncStarted /\ t.fPreferredDownload = s.fPreferredDownload
  BY Zenon DEF NodeStates
<1> HIDE DEF t
<1> QED BY Zenon, <1>1, <1>5, <1>6, <1>7, <1>8 DEF Kept, SameInFlight

-----------------------------------------------------------------------------
(* FindNextBlocksToDownload.                                               *)

\* A peer that may be named as the one that holds the window up.
Connected(q) == q \in Peers /\ conn[q] # "closed"

\* mapBlocksInFlight names connected peers.
BlocksOnTheWay == \A b \in Blocks : mapBlocksInFlight[b] = None \/ Connected(mapBlocksInFlight[b])

\* What holds of the walk after each block: everything up to the last common block
\* is stored, and as long as it goes on there is room for one more request.
GoodWalks(count) ==
    {w \in [last : Blocks, vBlocks : Seq(Blocks), waitingfor : Peers \cup {None},
            staller : Peers \cup {None}, done : BOOLEAN] :
        /\ Ancestors[w.last] \subseteq haveData
        /\ Len(w.vBlocks) <= count
        /\ w.done \/ Len(w.vBlocks) < count
        /\ w.waitingfor = None \/ Connected(w.waitingfor)
        /\ w.staller = None \/ Connected(w.staller)}

LEMMA Considered ==
    ASSUME NEW count \in Nat, NEW w \in GoodWalks(count), NEW b \in Blocks, NEW p \in Peers,
           NEW nWindowEnd \in Int, BlocksOnTheWay
    PROVE  Consider(w, b, p, nWindowEnd, count) \in GoodWalks(count)
<1> DEFINE new == Consider(w, b, p, nWindowEnd, count)
           Walks == [last : Blocks, vBlocks : Seq(Blocks), waitingfor : Peers \cup {None},
                     staller : Peers \cup {None}, done : BOOLEAN]
<1>1. /\ w \in Walks /\ Ancestors[w.last] \subseteq haveData /\ Len(w.vBlocks) <= count
      /\ w.done \/ Len(w.vBlocks) < count
      /\ w.waitingfor = None \/ Connected(w.waitingfor)
      /\ w.staller = None \/ Connected(w.staller)
  BY Zenon DEF GoodWalks
<1>2. /\ w.last \in Blocks /\ w.vBlocks \in Seq(Blocks) /\ w.waitingfor \in Peers \cup {None}
      /\ w.staller \in Peers \cup {None} /\ w.done \in BOOLEAN
  BY Zenon, <1>1
<1>3. ASSUME NEW u, NEW last, NEW vBlocks, NEW waitingfor, NEW staller, NEW done \in BOOLEAN,
             u = [last |-> last, vBlocks |-> vBlocks, waitingfor |-> waitingfor, staller |-> staller, done |-> done],
             last \in Blocks, Ancestors[last] \subseteq haveData, vBlocks \in Seq(Blocks),
             Len(vBlocks) <= count, done \/ Len(vBlocks) < count,
             waitingfor = None \/ Connected(waitingfor), staller = None \/ Connected(staller)
      PROVE  u \in GoodWalks(count)
  <2>1. waitingfor \in Peers \cup {None} /\ staller \in Peers \cup {None}
    BY Zenon, <1>3 DEF Connected
  <2>2. u \in Walks /\ u.last = last /\ u.vBlocks = vBlocks /\ u.waitingfor = waitingfor
        /\ u.staller = staller /\ u.done = done
    BY Zenon, <1>3, <2>1
  <2> QED BY Zenon, <1>3, <2>2 DEF GoodWalks
<1>4. w = [last |-> w.last, vBlocks |-> w.vBlocks, waitingfor |-> w.waitingfor, staller |-> w.staller, done |-> w.done]
  BY Zenon, <1>1
<1> HIDE DEF Walks
<1>5. CASE w.done \/ (b \notin failed /\ b \in haveData /\ ~(Ancestors[b] \subseteq haveData))
  <2>1. new = w
    BY Zenon, <1>5 DEF Consider
  <2> QED BY Zenon, <2>1
<1>6. CASE ~w.done /\ b \in failed
  <2>1. new = [last |-> w.last, vBlocks |-> w.vBlocks, waitingfor |-> w.waitingfor, staller |-> w.staller, done |-> TRUE]
    <3>1. new = [w EXCEPT !.done = TRUE]
      BY Zenon, <1>6 DEF Consider
    <3> QED BY Zenon, <1>1, <3>1 DEF Walks
  <2> QED BY Zenon, <1>1, <1>2, <1>3, <2>1
<1>7. CASE ~w.done /\ b \notin failed /\ b \in haveData /\ Ancestors[b] \subseteq haveData
  <2>1. new = [last |-> b, vBlocks |-> w.vBlocks, waitingfor |-> w.waitingfor, staller |-> w.staller, done |-> w.done]
    <3>1. new = [w EXCEPT !.last = b]
      BY Zenon, <1>7 DEF Consider
    <3> QED BY Zenon, <1>1, <3>1 DEF Walks
  <2> QED BY Zenon, <1>1, <1>2, <1>3, <1>7, <2>1
<1>8. CASE ~w.done /\ b \notin failed \cup haveData /\ mapBlocksInFlight[b] = None /\ Height[b] > nWindowEnd
  <2> DEFINE staller == IF w.vBlocks = <<>> /\ w.waitingfor # p THEN w.waitingfor ELSE w.staller
  <2>1. new = [last |-> w.last, vBlocks |-> w.vBlocks, waitingfor |-> w.waitingfor, staller |-> staller, done |-> TRUE]
    <3>1. new = [w EXCEPT !.done = TRUE,
                          !.staller = IF w.vBlocks = <<>> /\ w.waitingfor # p THEN w.waitingfor ELSE @]
      <4>1. ~(Height[b] <= nWindowEnd)
        BY SMTT(30), <1>8, Tree
      <4> QED BY Zenon, <1>8, <4>1 DEF Consider
    <3> QED BY Zenon, <1>1, <3>1 DEF Walks
  <2>2. staller = None \/ Connected(staller)
    BY Zenon, <1>1
  <2> HIDE DEF staller
  <2> QED BY Zenon, <1>1, <1>2, <1>3, <2>1, <2>2
<1>9. CASE ~w.done /\ b \notin failed \cup haveData /\ mapBlocksInFlight[b] = None /\ ~(Height[b] > nWindowEnd)
  <2> DEFINE vBlocks == Append(w.vBlocks, b)
             done == Len(w.vBlocks) + 1 = count
  <2>1. Height[b] <= nWindowEnd
    BY SMTT(30), <1>9, Tree
  <2>2. new = [last |-> w.last, vBlocks |-> vBlocks, waitingfor |-> w.waitingfor, staller |-> w.staller, done |-> done]
    <3>1. new = [w EXCEPT !.vBlocks = Append(@, b), !.done = (Len(w.vBlocks) + 1 = count)]
      BY Zenon, <1>9, <2>1 DEF Consider
    <3> QED BY Zenon, <1>1, <3>1 DEF Walks
  <2>3. vBlocks \in Seq(Blocks) /\ Len(vBlocks) <= count /\ (done \/ Len(vBlocks) < count)
    BY SMTT(30), <1>1, <1>2, <1>9
  <2>4. done \in BOOLEAN
    BY SMTT(30)
  <2> HIDE DEF vBlocks, done
  <2> QED BY Zenon, <1>1, <1>2, <1>3, <2>2, <2>3, <2>4
<1>10. CASE ~w.done /\ b \notin failed \cup haveData /\ mapBlocksInFlight[b] # None
  <2> DEFINE waitingfor == IF w.waitingfor = None THEN mapBlocksInFlight[b] ELSE w.waitingfor
  <2>1. new = [last |-> w.last, vBlocks |-> w.vBlocks, waitingfor |-> waitingfor, staller |-> w.staller, done |-> w.done]
    <3>1. new = IF w.waitingfor = None THEN [w EXCEPT !.waitingfor = mapBlocksInFlight[b]] ELSE w
      BY Zenon, <1>10 DEF Consider
    <3> QED BY Zenon, <1>1, <3>1 DEF Walks
  <2>2. waitingfor = None \/ Connected(waitingfor)
    BY Zenon, <1>1 DEF BlocksOnTheWay
  <2> HIDE DEF waitingfor
  <2> QED BY Zenon, <1>1, <1>2, <1>3, <2>1, <2>2
<1> QED BY Zenon, <1>5, <1>6, <1>7, <1>8, <1>9, <1>10

\* The walk ends in such a state too.
LEMMA Walked ==
    ASSUME NEW count \in Nat \ {0}, NEW last \in Blocks, Ancestors[last] \subseteq haveData,
           NEW vToFetch \in Seq(Blocks), NEW p \in Peers, NEW nWindowEnd \in Int, BlocksOnTheWay
    PROVE  Walk(last, vToFetch, p, nWindowEnd, count) \in GoodWalks(count)
<1> DEFINE n == Len(vToFetch)
           base == [last |-> last, vBlocks |-> <<>>, waitingfor |-> None, staller |-> None, done |-> FALSE]
           W == [i \in 0..n |-> GoodWalks(count)]
           step == [i \in 1..n |-> [w \in GoodWalks(count) |-> Consider(w, vToFetch[i], p, nWindowEnd, count)]]
           f == CHOOSE h : h = [i \in 0..n |-> IF i = 0 THEN base
                                               ELSE Consider(h[i - 1], vToFetch[i], p, nWindowEnd, count)]
<1>1. n \in Nat /\ 0 \in 0..n /\ n \in 0..n
      /\ \A i \in 1..n : vToFetch[i] \in Blocks /\ i - 1 \in 0..n /\ i \in 0..n /\ i # 0
  BY SMTT(30)
<1>2. base \in GoodWalks(count)
  <2>1. base.vBlocks = <<>> /\ <<>> \in Seq(Blocks) /\ Len(<<>>) <= count /\ Len(<<>>) < count
    BY SMTT(30)
  <2>2. /\ base \in [last : Blocks, vBlocks : Seq(Blocks), waitingfor : Peers \cup {None},
                     staller : Peers \cup {None}, done : BOOLEAN]
        /\ base.last = last /\ base.waitingfor = None /\ base.staller = None
    BY Zenon, <2>1
  <2> HIDE DEF base
  <2> QED BY Zenon, <2>1, <2>2 DEF GoodWalks
<1>3. \A i \in 0..n : W[i] = GoodWalks(count)
  BY Zenon
<1>4. \A i \in 1..n : \A w \in GoodWalks(count) :
        /\ step[i][w] = Consider(w, vToFetch[i], p, nWindowEnd, count)
        /\ Consider(w, vToFetch[i], p, nWindowEnd, count) \in GoodWalks(count)
  <2>1. count \in Nat
    BY Zenon
  <2> QED BY Zenon, <1>1, <2>1, Considered
<1> HIDE DEF W, step, n, base
<1>5. \E g : g = [i \in 0..n |-> IF i = 0 THEN base ELSE Consider(g[i - 1], vToFetch[i], p, nWindowEnd, count)]
  <2>1. PICK g : IsRun(g, n, base, W, step)
    <3>1. IsLoop(n, base, W, step)
      <4>1. base \in W[0] /\ \A i \in 1..n : W[i - 1] = GoodWalks(count) /\ W[i] = GoodWalks(count)
        BY Zenon, <1>1, <1>2, <1>3
      <4>2. ASSUME NEW i \in 1..n, NEW w \in W[i - 1]
            PROVE  step[i][w] \in W[i]
        <5>1. w \in GoodWalks(count) /\ W[i] = GoodWalks(count)
          BY Zenon, <4>1
        <5>2. step[i][w] \in GoodWalks(count)
          BY Zenon, <1>4, <5>1
        <5> QED BY Zenon, <5>1, <5>2
      <4> QED BY Zenon, <1>1, <4>1, <4>2 DEF IsLoop
    <3> QED BY Zenon, <3>1, Recursion
  <2>2. ASSUME NEW i \in 0..n
        PROVE  g[i] = IF i = 0 THEN base ELSE Consider(g[i - 1], vToFetch[i], p, nWindowEnd, count)
    <3>1. i = 0 \/ i \in 1..n
      BY SMTT(30), <1>1
    <3>2. CASE i = 0
      BY Zenon, <2>1, <3>2 DEF IsRun
    <3>3. CASE i \in 1..n
      <4>1. i # 0 /\ g[i - 1] \in GoodWalks(count) /\ g[i] = step[i][g[i - 1]]
        BY Zenon, <1>1, <1>3, <2>1, <3>3 DEF IsRun
      <4> QED BY Zenon, <1>4, <3>3, <4>1
    <3> QED BY Zenon, <3>1, <3>2, <3>3
  <2>3. g = [i \in 0..n |-> IF i = 0 THEN base ELSE Consider(g[i - 1], vToFetch[i], p, nWindowEnd, count)]
    BY Zenon, <2>1, <2>2 DEF IsRun
  <2> QED BY Zenon, <2>3
<1>6. f = [i \in 0..n |-> IF i = 0 THEN base ELSE Consider(f[i - 1], vToFetch[i], p, nWindowEnd, count)]
  BY Zenon, <1>5
<1>7. Walk(last, vToFetch, p, nWindowEnd, count) = f[n]
  BY Zenon DEF Walk, n, base
<1> HIDE DEF f
<1>8. f[0] = base /\ \A i \in 1..n : f[i] = Consider(f[i - 1], vToFetch[i], p, nWindowEnd, count)
  BY Zenon, <1>1, <1>6
<1>9. f[n] \in W[n]
  <2>1. f[0] \in W[0] /\ \A i \in 1..n : f[i - 1] \in W[i - 1] => f[i] \in W[i]
    BY Zenon, <1>1, <1>2, <1>3, <1>4, <1>8
  <2> QED BY Zenon, <1>1, <2>1, Rounds
<1> QED BY Zenon, <1>1, <1>3, <1>7, <1>9

\* FindNextBlocksToDownload moves pindexLastCommonBlock along stored chains only,
\* asks for at most count blocks and blames connected peers only.
LEMMA NextBlocks ==
    ASSUME NEW count \in Nat \ {0}, NEW s0 \in NodeStates, Linked(s0), NEW p \in Peers,
           BlocksOnTheWay, mapBlockIndex \subseteq Blocks, tip \in Blocks, Ancestors[tip] \subseteq haveData
    PROVE  LET r == FindNextBlocksToDownload(s0, p, count)
           IN  /\ r.state \in NodeStates /\ SameInFlight(s0, r.state) /\ Linked(r.state)
               /\ r.state.fSyncStarted = s0.fSyncStarted
               /\ r.state.fPreferredDownload = s0.fPreferredDownload
               /\ r.vBlocks \in Seq(Blocks) /\ Len(r.vBlocks) <= count
               /\ r.staller = None \/ Connected(r.staller)
<1> DEFINE s == ProcessBlockAvailability(s0, mapBlockIndex)
           best == s.pindexBestKnownBlock
           guess == IF s.pindexLastCommonBlock = None
                    THEN GetAncestor[tip][Smaller(Height[best], Height[tip])] ELSE s.pindexLastCommonBlock
           last == LastCommonAncestor[guess][best]
           nWindowEnd == Height[last] + BLOCK_DOWNLOAD_WINDOW
           nMaxHeight == Smaller(Height[best], nWindowEnd + 1)
           vToFetch == [i \in 1..(nMaxHeight - Height[last]) |-> GetAncestor[best][Height[last] + i]]
           walk == Walk(last, vToFetch, p, nWindowEnd, count)
           r == FindNextBlocksToDownload(s0, p, count)
           skip == best = None \/ (best # None /\ Height[best] < Height[tip])
           t == [s EXCEPT !.pindexLastCommonBlock = walk.last]
<1>1. Kept(s0, s) /\ s \in NodeStates
  BY Zenon, AvailabilityKept DEF Kept
<1>2. r = IF skip THEN [state |-> s, vBlocks |-> <<>>, staller |-> None]
          ELSE [state |-> t, vBlocks |-> walk.vBlocks, staller |-> walk.staller]
  BY Zenon DEF FindNextBlocksToDownload
<1>3. Linked(s)
  BY Zenon, <1>1 DEF Kept, Linked
<1> HIDE DEF s, r
<1>4. CASE skip
  <2>1. r.state = s /\ r.vBlocks = <<>> /\ r.staller = None
    BY Zenon, <1>2, <1>4
  <2>2. <<>> \in Seq(Blocks) /\ Len(<<>>) <= count
    BY SMTT(30)
  <2> QED BY Zenon, <1>1, <1>3, <2>1, <2>2 DEF Kept, r
<1>5. CASE ~skip
  <2>1. best \in Blocks /\ s.pindexLastCommonBlock \in Blocks \cup {None}
    BY Zenon, <1>1, <1>5, StateFields
  <2> HIDE DEF best
  <2>2. guess \in Blocks /\ Ancestors[guess] \subseteq haveData
    <3>1. CASE s.pindexLastCommonBlock = None
      <4>1. Smaller(Height[best], Height[tip]) \in 0..Height[tip]
        BY SMTT(30), <2>1, Tree DEF Smaller
      <4>2. guess \in Ancestors[tip] /\ guess \in Blocks
        BY Zenon, <3>1, <4>1, AncestorAt
      <4> QED BY Zenon, <4>2, Chains DEF ChainOf
    <3>2. CASE s.pindexLastCommonBlock # None
      BY Zenon, <1>3, <2>1, <3>2 DEF Linked
    <3> QED BY Zenon, <3>1, <3>2
  <2> HIDE DEF guess
  <2>3. /\ last \in Blocks /\ last \in Ancestors[guess] /\ Height[last] <= Height[best]
        /\ Ancestors[last] \subseteq haveData
    BY Zenon, <2>1, <2>2, Fork, Chains DEF ChainOf
  <2> HIDE DEF last
  <2>4. /\ nWindowEnd \in Int /\ Height[last] \in Nat /\ Height[best] \in Nat
        /\ nMaxHeight - Height[last] \in Nat /\ nMaxHeight <= Height[best]
    BY SMTT(30), <2>1, <2>3, Tree, LimitAssumption DEF Smaller
  <2> HIDE DEF nMaxHeight
  <2>5. vToFetch \in Seq(Blocks)
    <3>1. ASSUME NEW i \in 1..(nMaxHeight - Height[last])
          PROVE  GetAncestor[best][Height[last] + i] \in Blocks
      <4>1. Height[last] + i \in 0..Height[best]
        <5>1. nMaxHeight \in Int
          BY SMTT(30), <2>1, <2>3, Tree, LimitAssumption DEF Smaller, nMaxHeight
        <5> QED BY SMTT(30), <2>4, <5>1
      <4> QED BY Zenon, <2>1, <4>1, AncestorAt
    <3> QED BY SMTT(30), <2>4, <3>1
  <2> HIDE DEF vToFetch, nWindowEnd
  <2>6. walk \in GoodWalks(count)
    BY Zenon, <2>3, <2>4, <2>5, Walked
  <2> HIDE DEF walk
  <2>7. /\ walk.last \in Blocks /\ Ancestors[walk.last] \subseteq haveData
        /\ walk.vBlocks \in Seq(Blocks) /\ Len(walk.vBlocks) <= count
        /\ walk.staller = None \/ Connected(walk.staller)
    BY Zenon, <2>6 DEF GoodWalks
  <2>8. /\ t \in NodeStates
        /\ t.vBlocksInFlight = s.vBlocksInFlight /\ t.nBlocksInFlight = s.nBlocksInFlight
        /\ t.nBlocksInFlightValidHeaders = s.nBlocksInFlightValidHeaders
        /\ t.pindexLastCommonBlock = walk.last
        /\ t.fSyncStarted = s.fSyncStarted /\ t.fPreferredDownload = s.fPreferredDownload
    BY Zenon, <1>1, <2>7 DEF NodeStates
  <2> HIDE DEF t
  <2>9. SameInFlight(s0, t) /\ Linked(t) /\ t.fSyncStarted = s0.fSyncStarted
        /\ t.fPreferredDownload = s0.fPreferredDownload
    BY Zenon, <1>1, <2>7, <2>8 DEF Kept, SameInFlight, Linked
  <2>10. r.state = t /\ r.vBlocks = walk.vBlocks /\ r.staller = walk.staller
    <3> HIDE DEF skip
    <3> QED BY Zenon, <1>2, <1>5
  <2> QED BY Zenon, <2>7, <2>8, <2>9, <2>10 DEF r
<1> QED BY Zenon, <1>4, <1>5

-----------------------------------------------------------------------------
(* Headers.                                                                *)

GoodHeaders ==
    [ok : BOOLEAN, dos : Nat, last : Blocks \cup {None}, index : SUBSET Blocks, best : Blocks]

\* AcceptBlockHeader adds the block to the index, or fails.
LEMMA Accepted ==
    ASSUME NEW h \in GoodHeaders, NEW b \in Blocks
    PROVE  /\ AcceptBlockHeader(h, b) \in GoodHeaders
           /\ AcceptBlockHeader(h, b).ok => AcceptBlockHeader(h, b).last \in Blocks
<1> DEFINE new == AcceptBlockHeader(h, b)
           best == IF Height[h.best] < Height[b] THEN b ELSE h.best
<1>0. best \in Blocks
  BY Zenon DEF GoodHeaders
<1>1. CASE ~h.ok
  BY Zenon, <1>1 DEF AcceptBlockHeader
<1>2. CASE h.ok /\ b \in h.index /\ b \in failed
  <2>1. new = [h EXCEPT !.ok = FALSE]
    BY Zenon, <1>2 DEF AcceptBlockHeader
  <2> HIDE DEF new
  <2>2. new \in GoodHeaders /\ new.ok = FALSE
    BY Zenon, <2>1 DEF GoodHeaders
  <2> QED BY Zenon, <2>2 DEF new
<1>3. CASE h.ok /\ b \in h.index /\ b \notin failed
  <2>1. new = [h EXCEPT !.last = b]
    BY Zenon, <1>3 DEF AcceptBlockHeader
  <2> HIDE DEF new
  <2>2. new \in GoodHeaders /\ new.last = b
    BY Zenon, <2>1 DEF GoodHeaders
  <2> QED BY Zenon, <2>2 DEF new
<1>4. CASE h.ok /\ b \notin h.index /\ Parent[b] \notin h.index
  <2>1. new = [h EXCEPT !.ok = FALSE, !.dos = 1]
    BY Zenon, <1>4 DEF AcceptBlockHeader
  <2>2. 1 \in Nat
    BY SMTT(30)
  <2> HIDE DEF new
  <2>3. new \in GoodHeaders /\ new.ok = FALSE
    BY Zenon, <2>1, <2>2 DEF GoodHeaders
  <2> QED BY Zenon, <2>3 DEF new
<1>5. CASE h.ok /\ b \notin h.index /\ Parent[b] \in h.index \cap failed
  <2>1. new = [h EXCEPT !.ok = FALSE, !.dos = 10]
    BY Zenon, <1>5 DEF AcceptBlockHeader
  <2>2. 10 \in Nat
    BY SMTT(30)
  <2> HIDE DEF new
  <2>3. new \in GoodHeaders /\ new.ok = FALSE
    BY Zenon, <2>1, <2>2 DEF GoodHeaders
  <2> QED BY Zenon, <2>3 DEF new
<1>6. CASE h.ok /\ b \notin h.index /\ Parent[b] \in h.index /\ Parent[b] \notin failed
  <2>1. new = [h EXCEPT !.last = b, !.index = @ \cup {b},
                        !.best = IF Height[@] < Height[b] THEN b ELSE @]
    BY Zenon, <1>6 DEF AcceptBlockHeader
  <2> HIDE DEF new
  <2>2. new = [h EXCEPT !.last = b, !.index = h.index \cup {b}, !.best = best]
    BY Zenon, <2>1 DEF GoodHeaders
  <2> HIDE DEF best
  <2>3. h.index \cup {b} \in SUBSET Blocks
    BY Zenon DEF GoodHeaders
  <2>4. new \in GoodHeaders /\ new.last = b
    BY Zenon, <1>0, <2>2, <2>3 DEF GoodHeaders
  <2> QED BY Zenon, <2>4 DEF new
<1> QED BY Zenon, <1>1, <1>2, <1>3, <1>4, <1>5, <1>6

LEMMA AllAccepted ==
    ASSUME NEW h \in GoodHeaders, NEW headers \in Seq(Blocks)
    PROVE  /\ AcceptBlockHeaders(h, headers) \in GoodHeaders
           /\ Len(headers) > 0 /\ AcceptBlockHeaders(h, headers).ok => AcceptBlockHeaders(h, headers).last \in Blocks
<1> DEFINE n == Len(headers)
           W == [i \in 0..n |-> {x \in GoodHeaders : i > 0 /\ x.ok => x.last \in Blocks}]
           step == [i \in 1..n |-> [x \in W[i - 1] |-> AcceptBlockHeader(x, headers[i])]]
           f == CHOOSE a : a = [i \in 0..n |-> IF i = 0 THEN h ELSE AcceptBlockHeader(a[i - 1], headers[i])]
<1>1. n \in Nat /\ 0 \in 0..n /\ n \in 0..n /\ ~(0 > 0)
      /\ \A i \in 1..n : headers[i] \in Blocks /\ i - 1 \in 0..n /\ i \in 0..n /\ i # 0
  BY SMTT(30)
<1>2. h \in W[0]
  BY Zenon, <1>1
<1>3. ASSUME NEW i \in 1..n, NEW x \in W[i - 1]
      PROVE  step[i][x] = AcceptBlockHeader(x, headers[i]) /\ AcceptBlockHeader(x, headers[i]) \in W[i]
  <2>1. x \in GoodHeaders
    BY Zenon, <1>1
  <2>2. /\ AcceptBlockHeader(x, headers[i]) \in GoodHeaders
        /\ AcceptBlockHeader(x, headers[i]).ok => AcceptBlockHeader(x, headers[i]).last \in Blocks
    BY Zenon, <1>1, <2>1, Accepted
  <2>3. AcceptBlockHeader(x, headers[i]) \in W[i]
    BY Zenon, <1>1, <2>2
  <2>4. step[i][x] = AcceptBlockHeader(x, headers[i])
    BY Zenon
  <2> QED BY Zenon, <2>3, <2>4
<1>4. \A x \in W[n] : x \in GoodHeaders /\ (n > 0 /\ x.ok => x.last \in Blocks)
  BY Zenon, <1>1
<1> HIDE DEF W, step, n
<1>5. \E g : g = [i \in 0..n |-> IF i = 0 THEN h ELSE AcceptBlockHeader(g[i - 1], headers[i])]
  <2>1. PICK g : IsRun(g, n, h, W, step)
    <3>1. IsLoop(n, h, W, step)
      BY Zenon, <1>1, <1>2, <1>3 DEF IsLoop
    <3> QED BY Zenon, <3>1, Recursion
  <2>2. ASSUME NEW i \in 0..n
        PROVE  g[i] = IF i = 0 THEN h ELSE AcceptBlockHeader(g[i - 1], headers[i])
    <3>1. i = 0 \/ i \in 1..n
      BY SMTT(30), <1>1
    <3> QED BY Zenon, <1>1, <1>3, <2>1, <3>1 DEF IsRun
  <2>3. g = [i \in 0..n |-> IF i = 0 THEN h ELSE AcceptBlockHeader(g[i - 1], headers[i])]
    BY Zenon, <2>1, <2>2 DEF IsRun
  <2> QED BY Zenon, <2>3
<1>6. f = [i \in 0..n |-> IF i = 0 THEN h ELSE AcceptBlockHeader(f[i - 1], headers[i])]
  BY Zenon, <1>5
<1>7. AcceptBlockHeaders(h, headers) = f[n]
  BY Zenon DEF AcceptBlockHeaders, n
<1> HIDE DEF f
<1>8. f[0] = h /\ \A i \in 1..n : f[i] = AcceptBlockHeader(f[i - 1], headers[i])
  BY Zenon, <1>1, <1>6
<1>9. f[n] \in W[n]
  <2>1. f[0] \in W[0] /\ \A i \in 1..n : f[i - 1] \in W[i - 1] => f[i] \in W[i]
    BY Zenon, <1>2, <1>3, <1>8
  <2> QED BY Zenon, <1>1, <2>1, Rounds
<1> QED BY Zenon, <1>4, <1>7, <1>9 DEF n

\* A peer answers "getheaders" with blocks of its chain.
LEMMA AnswerHeaders ==
    ASSUME NEW p \in Peers, PeerTip(p) \in Blocks, NEW request, request.from \in Blocks
    PROVE  HeadersAfter(p, request) \in Seq(Blocks)
<1> DEFINE top == PeerTip(p)
           fork == LastCommonAncestor[request.from][top]
           end == IF request.stop \in Ancestors[top] /\ Height[request.stop] > Height[fork] THEN request.stop ELSE top
           n == Smaller(MAX_HEADERS_RESULTS, Height[end] - Height[fork])
<1>1. HeadersAfter(p, request) = [i \in 1..n |-> GetAncestor[end][Height[fork] + i]]
  BY Zenon DEF HeadersAfter
<1>2. fork \in Blocks /\ Height[fork] <= Height[top]
  BY Zenon, Fork
<1> HIDE DEF top, fork
<1>3. end \in Blocks /\ Height[fork] <= Height[end] /\ Height[end] \in Nat /\ Height[fork] \in Nat
  <2>1. top \in Blocks
    BY Zenon DEF top
  <2>2. end \in Blocks
    BY Zenon, <2>1, Tree
  <2>3. Height[end] \in Nat /\ Height[fork] \in Nat
    BY Zenon, <1>2, <2>2, Tree
  <2>4. Height[fork] <= Height[end]
    <3>1. CASE request.stop \in Ancestors[top] /\ Height[request.stop] > Height[fork]
      BY SMTT(30), <2>3, <3>1
    <3>2. CASE ~(request.stop \in Ancestors[top] /\ Height[request.stop] > Height[fork])
      BY Zenon, <1>2, <3>2
    <3> QED BY Zenon, <3>1, <3>2
  <2> QED BY Zenon, <2>2, <2>3, <2>4
<1> HIDE DEF end
<1>4. n \in Nat /\ \A i \in 1..n : Height[fork] + i \in 0..Height[end]
  BY SMTT(30), <1>3, LimitAssumption DEF Smaller
<1> HIDE DEF n
<1>5. \A i \in 1..n : GetAncestor[end][Height[fork] + i] \in Blocks
  BY Zenon, <1>3, <1>4, AncestorAt
<1> QED BY SMTT(30), <1>1, <1>4, <1>5
=============================================================================
