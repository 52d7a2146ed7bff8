-------------------------- MODULE CoinsCacheProofs --------------------------
(***************************************************************************)
(* Proofs about CoinsCache, for all sets of transactions, outputs,         *)
(* nullifiers, pools, roots and blocks: lemmas about its operators, the    *)
(* inductive invariant, then the actions - those that read, which fill the *)
(* caches and change nothing that a view shows; those that write to the    *)
(* view of a block; those that move a cache down to its parent, open or    *)
(* close a view or lose the caches in a crash.  Each keeps the invariant   *)
(* and shows the step the abstract store makes.  The theorems come last:   *)
(* the invariant, the properties that follow from it, and that the stack   *)
(* of caches implements the store of CoinsStore.                           *)
(***************************************************************************)
EXTENDS CoinsCache, TLAPS

-----------------------------------------------------------------------------
(* The helpers that read and write one entry keep the shape of a cache.    *)

(* FetchCoins inserts a well-formed entry.                                 *)
LEMMA FetchCoinsType ==
    ASSUME NEW cache \in Cache, NEW t \in Txids, NEW found \in (SUBSET Outs) \cup {NoEntry}
    PROVE  FetchCoins(cache, t, found) \in Cache
  <1>1. CASE cache.coins[t] # NoEntry \/ found = NoEntry
    BY Zenon, <1>1 DEF FetchCoins
  <1>2. CASE cache.coins[t] = NoEntry /\ found # NoEntry
    <2>1. [coins |-> found, flags |-> IF found = Pruned THEN {FRESH} ELSE {}] \in CoinsEntry
      BY Zenon, <1>2 DEF CoinsEntry
    <2>2. QED
      BY Zenon, <1>2, <2>1 DEF FetchCoins, Cache
  <1>3. QED
    BY Zenon, <1>1, <1>2

(* What a cache answers is a set of outputs or nothing.                    *)
LEMMA CacheGetCoinsType ==
    ASSUME NEW cache \in Cache, NEW t \in Txids
    PROVE  CacheGetCoins(cache, t) \in (SUBSET Outs) \cup {NoEntry}
  BY Zenon DEF CacheGetCoins, Cache, CoinsEntry

(* So is what the database answers.                                        *)
LEMMA DbGetCoinsType ==
    ASSUME db \in Database, NEW t \in Txids
    PROVE  DbGetCoins(t) \in (SUBSET Outs) \cup {NoEntry}
  BY Zenon DEF DbGetCoins, Database

(* FetchNullifier inserts a well-formed entry.                             *)
LEMMA FetchNullifierType ==
    ASSUME NEW cache \in Cache, NEW n \in Nullifiers, NEW spent \in BOOLEAN
    PROVE  /\ FetchNullifier(cache, n, spent) \in Cache
           /\ FetchNullifier(cache, n, spent).nullifiers[n] \in NullifierEntry
  <1>1. [entered |-> spent, flags |-> {}] \in NullifierEntry
    BY Zenon DEF NullifierEntry
  <1>2. QED
    BY Zenon, <1>1 DEF FetchNullifier, Cache

(* So does FetchAnchor.                                                    *)
LEMMA FetchAnchorType ==
    ASSUME NEW cache \in Cache, NEW p \in Pools, NEW r \in Roots, NEW found \in Roots \cup {NoEntry}
    PROVE  FetchAnchor(cache, p, r, found) \in Cache
  <1>1. CASE found = NoEntry
    BY Zenon, <1>1 DEF FetchAnchor
  <1>2. CASE found # NoEntry
    <2>1. [entered |-> TRUE, tree |-> found, flags |-> {}] \in AnchorEntry
      BY Zenon, <1>2 DEF AnchorEntry
    <2>2. QED
      BY Zenon, <2>1 DEF FetchAnchor, Cache
  <1>3. QED
    BY Zenon, <1>1, <1>2

(* What a cache answers for an anchor is a tree or nothing.                *)
LEMMA CacheGetAnchorType ==
    ASSUME NEW cache \in Cache, NEW p \in Pools, NEW r \in Roots
    PROVE  CacheGetAnchor(cache, p, r) \in Roots \cup {NoEntry}
  BY SMTT(30) DEF CacheGetAnchor, Cache, AnchorEntry

(* WriteCoins, WriteAnchor and WriteNullifier keep the shape of an entry.  *)
LEMMA BatchWriteType ==
    ASSUME TypeOK
    PROVE  BatchWrite \in Cache
  <1>1. ASSUME NEW t \in Txids
        PROVE  WriteCoins(tip.coins[t], view.coins[t]) \in CoinsEntry \cup {NoEntry}
    BY Zenon DEF TypeOK, Cache, CoinsEntry, WriteCoins
  <1>2. ASSUME NEW n \in Nullifiers
        PROVE  WriteNullifier(tip.nullifiers[n], view.nullifiers[n]) \in NullifierEntry \cup {NoEntry}
    BY Zenon DEF TypeOK, Cache, NullifierEntry, WriteNullifier
  <1>3. ASSUME NEW p \in Pools, NEW r \in Roots
        PROVE  WriteAnchor(tip.anchors[p][r], view.anchors[p][r]) \in AnchorEntry \cup {NoEntry}
    BY SMTT(30) DEF TypeOK, Cache, AnchorEntry, WriteAnchor
  <1>4. view.hashBlock \in Blocks \cup {NULL} /\ view.hashAnchor \in [Pools -> Roots \cup {NULL}]
    BY Zenon DEF TypeOK, Cache
  <1>5. QED
    BY Zenon, <1>1, <1>2, <1>3, <1>4 DEF BatchWrite, Cache

(* The database keeps its shape.                                           *)
LEMMA DbBatchWriteType ==
    ASSUME TypeOK
    PROVE  DbBatchWrite \in Database
  <1>1. ASSUME NEW p \in Pools, NEW r \in Roots
        PROVE  CacheGetAnchor(tip, p, r) \in Roots \cup {NoEntry}
    BY Zenon, CacheGetAnchorType DEF TypeOK
  <1>2. ASSUME NEW t \in Txids
        PROVE  (IF tip.coins[t] = NoEntry \/ DIRTY \notin tip.coins[t].flags
                THEN db.coins[t] ELSE tip.coins[t].coins) \in SUBSET Outs
    BY Zenon DEF TypeOK, Cache, Database, CoinsEntry
  <1>3. Loaded(tip.hashBlock, db.hashBlock) \in Blocks \cup {NULL}
    BY Zenon DEF TypeOK, Cache, Database, Loaded
  <1>4. ASSUME NEW p \in Pools
        PROVE  Loaded(tip.hashAnchor[p], db.hashAnchor[p]) \in Roots
    BY Zenon DEF TypeOK, Cache, Database, Loaded
  <1>5. ASSUME NEW p \in Pools, NEW r \in Roots
        PROVE  db.anchors[p][r] \in Roots \cup {NoEntry}
    BY SMTT(30) DEF TypeOK, Database
  <1>6. QED
    BY Zenon, <1>1, <1>2, <1>3, <1>4, <1>5 DEF DbBatchWrite, Database

(* An empty cache, and one that was flushed, are caches.                   *)
LEMMA ClearedType ==
    /\ EmptyCache \in Cache
    /\ \A cache \in Cache : Cleared(cache) \in Cache
  BY Zenon DEF EmptyCache, Cleared, Cache

-----------------------------------------------------------------------------
(* What a cache shows over a base state.                                   *)

(* Two caches show the same over two bases when they do entry by entry.    *)
LEMMA SameContents ==
    ASSUME NEW c1, NEW b1, NEW c2, NEW b2,
           \A t \in Txids : Contents(c1, b1).coins[t] = Contents(c2, b2).coins[t],
           \A n \in Nullifiers : n \in Contents(c1, b1).nullifiers <=> n \in Contents(c2, b2).nullifiers,
           \A p \in Pools, r \in Roots :
               r \in Contents(c1, b1).anchors[p] <=> r \in Contents(c2, b2).anchors[p],
           Contents(c1, b1).hashBlock = Contents(c2, b2).hashBlock,
           \A p \in Pools : Contents(c1, b1).hashAnchor[p] = Contents(c2, b2).hashAnchor[p]
    PROVE  Contents(c1, b1) = Contents(c2, b2)
  <1>1. Contents(c1, b1).coins = Contents(c2, b2).coins
    BY Zenon DEF Contents
  <1>2. Contents(c1, b1).nullifiers = Contents(c2, b2).nullifiers
    BY ZenonT(60) DEF Contents
  <1>3. Contents(c1, b1).anchors = Contents(c2, b2).anchors
    <2>1. \A p \in Pools : Contents(c1, b1).anchors[p] = Contents(c2, b2).anchors[p]
      BY ZenonT(60) DEF Contents
    <2>2. QED
      BY ZenonT(60), <2>1 DEF Contents
  <1>4. Contents(c1, b1).hashAnchor = Contents(c2, b2).hashAnchor
    BY Zenon DEF Contents
  <1>5. QED
    BY Zenon, <1>1, <1>2, <1>3, <1>4 DEF Contents

(* Entry by entry, what a cache shows over a base.                         *)
LEMMA ContentsFields ==
    ASSUME NEW cache, NEW base
    PROVE  /\ \A t \in Txids : Contents(cache, base).coins[t] =
                  IF cache.coins[t] = NoEntry THEN base.coins[t] ELSE cache.coins[t].coins
           /\ \A n \in Nullifiers : n \in Contents(cache, base).nullifiers <=>
                  IF cache.nullifiers[n] = NoEntry THEN n \in base.nullifiers
                  ELSE cache.nullifiers[n].entered
           /\ \A p \in Pools, r \in Roots : r \in Contents(cache, base).anchors[p] <=>
                  IF cache.anchors[p][r] = NoEntry THEN r \in base.anchors[p]
                  ELSE cache.anchors[p][r].entered
           /\ Contents(cache, base).hashBlock = Loaded(cache.hashBlock, base.hashBlock)
           /\ \A p \in Pools :
                  Contents(cache, base).hashAnchor[p] = Loaded(cache.hashAnchor[p], base.hashAnchor[p])
  BY Zenon DEF Contents

(* A cache over a complete state shows a complete state.                   *)
LEMMA ContentsType ==
    ASSUME NEW cache \in Cache, NEW base \in Store!States
    PROVE  Contents(cache, base) \in Store!States
  <1>1. ASSUME NEW t \in Txids
        PROVE  (IF cache.coins[t] = NoEntry THEN base.coins[t] ELSE cache.coins[t].coins) \in SUBSET Outs
    BY Zenon DEF Cache, CoinsEntry, Store!States
  <1>2. Loaded(cache.hashBlock, base.hashBlock) \in Blocks \cup {NULL}
    BY Zenon DEF Cache, Store!States, Loaded
  <1>3. ASSUME NEW p \in Pools
        PROVE  Loaded(cache.hashAnchor[p], base.hashAnchor[p]) \in Roots
    BY Zenon DEF Cache, Store!States, Loaded
  <1>4. QED
    BY Zenon, <1>1, <1>2, <1>3 DEF Contents, Store!States

(* The database stands for a complete state.                               *)
LEMMA DbContentsType == ASSUME db \in Database PROVE DbContents \in Store!States
  BY Zenon DEF Database, DbContents, Store!States

(* An empty cache shows its base.                                          *)
LEMMA EmptyContents ==
    ASSUME NEW base \in Store!States
    PROVE  Contents(EmptyCache, base) = base
  <1>1. \A p \in Pools : {r \in Roots : r \in base.anchors[p]} = base.anchors[p]
    BY Zenon DEF Store!States
  <1>2. {n \in Nullifiers : n \in base.nullifiers} = base.nullifiers
    BY Zenon DEF Store!States
  <1>3. Contents(EmptyCache, base) =
           [coins      |-> [t \in Txids |-> base.coins[t]],
            nullifiers |-> base.nullifiers,
            anchors    |-> [p \in Pools |-> base.anchors[p]],
            hashBlock  |-> base.hashBlock,
            hashAnchor |-> [p \in Pools |-> base.hashAnchor[p]]]
    BY Zenon, <1>1, <1>2 DEF Contents, EmptyCache, Loaded
  <1>4. QED
    BY Zenon, <1>3 DEF Store!States

-----------------------------------------------------------------------------
(* The inductive invariant.                                                *)

(* A cache over a base state: its flags tell the truth about the base, a   *)
(* tree is stored under its own root and the empty root is never popped.   *)
FreshOver(cache, base) ==
    \A t \in Txids : (cache.coins[t] # NoEntry /\ FRESH \in cache.coins[t].flags)
        => base.coins[t] = Pruned

TreesOver(cache) ==
    \A p \in Pools, r \in Roots : cache.anchors[p][r] # NoEntry
        => /\ cache.anchors[p][r].tree = r
           /\ r = EmptyRoot => cache.anchors[p][r].entered

CacheOK(cache, base) ==
    /\ cache \in Cache
    /\ FreshOver(cache, base)
    /\ AgreesWith(cache, base)
    /\ TreesOver(cache)

DbOK ==
    /\ db \in Database
    /\ \A p \in Pools, r \in Roots : db.anchors[p][r] \in {r, NoEntry}
    /\ \A p \in Pools : db.anchors[p][EmptyRoot] # NoEntry

(* A view that is not open holds nothing: this is why TipFlush, which      *)
(* changes what lies below the tip, cannot falsify a flag of the view.     *)
ClosedViewEmpty == ~open => view = EmptyCache

(* A view entry that is not FRESH was pulled in through the tip, which     *)
(* still has it: the argument in the comment of BatchWrite's assertion.    *)
PulledThroughTip ==
    \A t \in Txids : (view.coins[t] # NoEntry /\ FRESH \notin view.coins[t].flags)
        => tip.coins[t] # NoEntry

(* The entry a modifier is alive on exists and is marked.                  *)
ModifierMarked ==
    modifier # NoModifier => /\ modifier.txid \in Txids
                            /\ view.coins[modifier.txid] # NoEntry
                            /\ DIRTY \in view.coins[modifier.txid].flags

IInv ==
    /\ DbOK
    /\ CacheOK(tip, DbContents)
    /\ CacheOK(view, TipContents)
    /\ open \in BOOLEAN
    /\ ClosedViewEmpty
    /\ PulledThroughTip
    /\ ModifierMarked
    /\ BestAnchorReadable

(* The invariant implies the properties that TLC checks.                   *)
LEMMA IInvImplies ==
    IInv => /\ TypeOK
            /\ FreshMeansParentPruned
            /\ CleanMeansUnchanged
            /\ PushedEntryIsFresh
            /\ BestAnchorReadable
            /\ TreesMatchRoots
  <1> SUFFICES ASSUME IInv PROVE /\ TypeOK
                                 /\ FreshMeansParentPruned
                                 /\ CleanMeansUnchanged
                                 /\ PushedEntryIsFresh
                                 /\ BestAnchorReadable
                                 /\ TreesMatchRoots
    BY Zenon
  <1>1. TypeOK
    BY Zenon DEF IInv, DbOK, CacheOK, ModifierMarked, TypeOK
  <1>2. FreshMeansParentPruned
    BY Zenon DEF IInv, CacheOK, FreshOver, FreshMeansParentPruned, DbContents
  <1>3. CleanMeansUnchanged
    BY Zenon DEF IInv, CacheOK, CleanMeansUnchanged
  <1>4. PushedEntryIsFresh
    BY Zenon DEF IInv, PulledThroughTip, PushedEntryIsFresh
  <1>5. TreesMatchRoots
    BY Zenon DEF IInv, DbOK, CacheOK, TreesOver, TreesMatchRoots
  <1>6. QED
    BY Zenon, <1>1, <1>2, <1>3, <1>4, <1>5 DEF IInv

(* In the initial state.                                                   *)
LEMMA IInvInit == Init => IInv /\ Store!Init
  <1> SUFFICES ASSUME Init PROVE IInv /\ Store!Init
    BY Zenon
  <1>1. DbOK
    BY Zenon, EmptyRootAssumption, NoEntryAssumption DEF Init, EmptyDatabase, Database, Pruned, DbOK
  <1>2. ASSUME NEW base PROVE CacheOK(EmptyCache, base)
    BY Zenon, ClearedType DEF EmptyCache, CacheOK, FreshOver, AgreesWith, TreesOver
  <1>3. DbContents = Store!EmptyState
    <2>1. \A p \in Pools : {r \in Roots : db.anchors[p][r] # NoEntry} = {EmptyRoot}
      BY Zenon, EmptyRootAssumption, NoEntryAssumption DEF Init, EmptyDatabase
    <2>2. QED
      BY Zenon, <2>1 DEF Init, EmptyDatabase, DbContents, Store!EmptyState, Pruned
  <1>4. DbContents \in Store!States
    BY Zenon, <1>1, DbContentsType DEF DbOK
  <1>5. TipContents = DbContents /\ ViewContents = DbContents
    BY Zenon, <1>4, EmptyContents DEF Init, TipContents, ViewContents
  <1>6. BestAnchorReadable
    BY Zenon, <1>3, <1>5 DEF Init, EmptyDatabase, EmptyCache, BestAnchorReadable, TipBestAnchor,
                      BestAnchor, Loaded, Store!EmptyState
  <1>7. QED
    BY Zenon, <1>1, <1>2, <1>3, <1>5, <1>6
       DEF Init, IInv, ClosedViewEmpty, PulledThroughTip, ModifierMarked, EmptyCache, Store!Init

-----------------------------------------------------------------------------
(* Reads fill caches and change nothing that they show.                    *)

(* FetchCoins stores what the base has.                                    *)
LEMMA FetchCoinsKeeps ==
    ASSUME NEW cache, NEW base, CacheOK(cache, base),
           NEW t \in Txids, NEW found \in (SUBSET Outs) \cup {NoEntry},
           found = NoEntry \/ found = base.coins[t]
    PROVE  /\ CacheOK(FetchCoins(cache, t, found), base)
           /\ Contents(FetchCoins(cache, t, found), base) = Contents(cache, base)
           /\ \A u \in Txids : cache.coins[u] # NoEntry
                  => FetchCoins(cache, t, found).coins[u] = cache.coins[u]
  <1> DEFINE new == FetchCoins(cache, t, found)
             e == [coins |-> found, flags |-> IF found = Pruned THEN {FRESH} ELSE {}]
  <1>1. CASE cache.coins[t] # NoEntry \/ found = NoEntry
    BY Zenon, <1>1 DEF FetchCoins
  <1>2. CASE cache.coins[t] = NoEntry /\ found # NoEntry
    <2>1. new \in Cache
      BY Zenon, FetchCoinsType DEF CacheOK
    <2>2. /\ new.coins = [cache.coins EXCEPT ![t] = e]
          /\ new.nullifiers = cache.nullifiers
          /\ new.anchors = cache.anchors
          /\ new.hashBlock = cache.hashBlock
          /\ new.hashAnchor = cache.hashAnchor
      BY Zenon, <1>2 DEF FetchCoins, CacheOK, Cache
    <2>3. /\ new.coins[t] = e
          /\ \A u \in Txids : u # t => new.coins[u] = cache.coins[u]
      BY Zenon, <2>2 DEF CacheOK, Cache
    <2>4. e # NoEntry
      <3>1. e \in CoinsEntry
        BY Zenon, <1>2 DEF CoinsEntry
      <3>2. QED
        BY Zenon, <3>1, NoEntryAssumption
    <2>5. e.coins = base.coins[t] /\ (FRESH \in e.flags => base.coins[t] = Pruned)
      BY Zenon, <1>2
    <2>6. FreshOver(new, base)
      BY SMTT(30), <2>3, <2>4, <2>5 DEF FreshOver, CacheOK
    <2>7. AgreesWith(new, base)
      BY SMTT(30), <2>2, <2>3, <2>4, <2>5 DEF AgreesWith, CacheOK
    <2>8. TreesOver(new)
      BY SMTT(30), <2>2 DEF TreesOver, CacheOK
    <2>9. Contents(new, base) = Contents(cache, base)
      <3>1. \A u \in Txids : Contents(new, base).coins[u] = Contents(cache, base).coins[u]
        BY SMTT(30), <1>2, <2>3, <2>4, <2>5, ContentsFields
      <3>2. QED
        BY SMTT(30), <2>2, <3>1, ContentsFields, SameContents
    <2>10. QED
      BY Zenon, <1>2, <2>1, <2>3, <2>6, <2>7, <2>8, <2>9 DEF CacheOK
  <1>3. QED
    BY Zenon, <1>1, <1>2

(* GetNullifier stores what the base has.                                  *)
LEMMA FetchNullifierKeeps ==
    ASSUME NEW cache, NEW base, CacheOK(cache, base),
           NEW n \in Nullifiers, NEW spent \in BOOLEAN, spent <=> n \in base.nullifiers
    PROVE  /\ CacheOK(FetchNullifier(cache, n, spent), base)
           /\ Contents(FetchNullifier(cache, n, spent), base) = Contents(cache, base)
           /\ FetchNullifier(cache, n, spent).coins = cache.coins
           /\ FetchNullifier(cache, n, spent).nullifiers[n].entered <=>
                  n \in Contents(cache, base).nullifiers
  <1> DEFINE new == FetchNullifier(cache, n, spent)
             e == [entered |-> spent, flags |-> {}]
  <1>1. CASE cache.nullifiers[n] # NoEntry
    BY Zenon, <1>1, ContentsFields DEF FetchNullifier
  <1>2. CASE cache.nullifiers[n] = NoEntry
    <2>1. new \in Cache
      BY Zenon, FetchNullifierType DEF CacheOK
    <2>2. /\ new.coins = cache.coins
          /\ new.nullifiers = [cache.nullifiers EXCEPT ![n] = e]
          /\ new.anchors = cache.anchors
          /\ new.hashBlock = cache.hashBlock
          /\ new.hashAnchor = cache.hashAnchor
      BY Zenon, <1>2 DEF FetchNullifier, CacheOK, Cache
    <2>3. /\ new.nullifiers[n] = e
          /\ \A m \in Nullifiers : m # n => new.nullifiers[m] = cache.nullifiers[m]
      BY Zenon, <2>2 DEF CacheOK, Cache
    <2>4. e # NoEntry
      <3>1. e \in NullifierEntry
        BY Zenon DEF NullifierEntry
      <3>2. QED
        BY Zenon, <3>1, NoEntryAssumption
    <2>6. FreshOver(new, base)
      BY Zenon, <2>2 DEF FreshOver, CacheOK
    <2>7. AgreesWith(new, base)
      BY SMTT(30), <2>2, <2>3, <2>4 DEF AgreesWith, CacheOK
    <2>8. TreesOver(new)
      BY SMTT(30), <2>2 DEF TreesOver, CacheOK
    <2>9. Contents(new, base) = Contents(cache, base)
      <3>1. \A m \in Nullifiers : m \in Contents(new, base).nullifiers <=> m \in Contents(cache, base).nullifiers
        BY SMTT(30), <1>2, <2>3, <2>4, ContentsFields
      <3>2. QED
        BY SMTT(30), <2>2, <3>1, ContentsFields, SameContents
    <2>10. new.nullifiers[n].entered <=> n \in Contents(cache, base).nullifiers
      BY SMTT(30), <1>2, <2>3, ContentsFields
    <2>11. QED
      BY Zenon, <2>1, <2>2, <2>6, <2>7, <2>8, <2>9, <2>10 DEF CacheOK
  <1>3. QED
    BY Zenon, <1>1, <1>2

(* GetSproutAnchorAt and GetSaplingAnchorAt store what the base has.       *)
LEMMA FetchAnchorKeeps ==
    ASSUME NEW cache, NEW base, CacheOK(cache, base),
           NEW p \in Pools, NEW r \in Roots, NEW found \in Roots \cup {NoEntry},
           found = NoEntry \/ (found = r /\ r \in base.anchors[p])
    PROVE  /\ CacheOK(FetchAnchor(cache, p, r, found), base)
           /\ Contents(FetchAnchor(cache, p, r, found), base) = Contents(cache, base)
           /\ FetchAnchor(cache, p, r, found).coins = cache.coins
           /\ FetchAnchor(cache, p, r, found).hashAnchor = cache.hashAnchor
           /\ found # NoEntry => FetchAnchor(cache, p, r, found).anchors[p][r] # NoEntry
  <1> DEFINE new == FetchAnchor(cache, p, r, found)
             e == [entered |-> TRUE, tree |-> found, flags |-> {}]
  <1>1. CASE cache.anchors[p][r] # NoEntry \/ found = NoEntry
    BY Zenon, <1>1 DEF FetchAnchor
  <1>2. CASE cache.anchors[p][r] = NoEntry /\ found # NoEntry
    <2>1. new \in Cache
      BY Zenon, FetchAnchorType DEF CacheOK
    <2>2. /\ new.coins = cache.coins
          /\ new.nullifiers = cache.nullifiers
          /\ new.anchors = [cache.anchors EXCEPT ![p][r] = e]
          /\ new.hashBlock = cache.hashBlock
          /\ new.hashAnchor = cache.hashAnchor
      BY Zenon, <1>2 DEF FetchAnchor, CacheOK, Cache
    <2>3. /\ new.anchors[p][r] = e
          /\ \A q \in Pools, x \in Roots : q # p \/ x # r => new.anchors[q][x] = cache.anchors[q][x]
      BY SMTT(30), <2>2 DEF CacheOK, Cache
    <2>4. e # NoEntry
      <3>1. e \in AnchorEntry
        BY Zenon, <1>2 DEF AnchorEntry
      <3>2. QED
        BY Zenon, <3>1, NoEntryAssumption
    <2>6. FreshOver(new, base)
      BY Zenon, <2>2 DEF FreshOver, CacheOK
    <2>7. AgreesWith(new, base)
      <3>1. AgreesWith(cache, base)
        BY Zenon DEF CacheOK
      <3>2. r \in base.anchors[p] /\ e.entered
        BY Zenon, <1>2
      <3>3. ASSUME NEW q \in Pools, NEW x \in Roots,
                   new.anchors[q][x] # NoEntry, DIRTY \notin new.anchors[q][x].flags
            PROVE  new.anchors[q][x].entered <=> x \in base.anchors[q]
        <4>1. CASE q = p /\ x = r
          BY Zenon, <2>3, <3>2, <4>1
        <4>2. CASE q # p \/ x # r
          BY ZenonT(60), <2>3, <3>1, <3>3, <4>2 DEF AgreesWith
        <4>3. QED
          BY Zenon, <4>1, <4>2
      <3>4. QED
        BY ZenonT(60), <2>2, <3>1, <3>3 DEF AgreesWith
    <2>8. TreesOver(new)
      BY SMTT(30), <1>2, <2>2, <2>3 DEF TreesOver, CacheOK
    <2>9. Contents(new, base) = Contents(cache, base)
      <3>1. \A q \in Pools, x \in Roots :
               x \in Contents(new, base).anchors[q] <=> x \in Contents(cache, base).anchors[q]
        BY SMTT(30), <1>2, <2>3, <2>4, ContentsFields
      <3>2. QED
        BY SMTT(30), <2>2, <3>1, ContentsFields, SameContents
    <2>11. QED
      BY Zenon, <2>1, <2>2, <2>3, <2>4, <2>6, <2>7, <2>8, <2>9 DEF CacheOK
  <1>3. QED
    BY Zenon, <1>1, <1>2

(* The best anchor can be read from a layer when it is an anchor of the    *)
(* state that the layer shows.                                             *)
BestIsAnchor(contents) == \A p \in Pools : contents.hashAnchor[p] \in contents.anchors[p]

(* BestAnchorReadable says so of the three layers.                         *)
LEMMA ReadableContents ==
    /\ BestAnchorReadable <=> /\ BestIsAnchor(DbContents)
                              /\ BestIsAnchor(TipContents)
                              /\ BestIsAnchor(ViewContents)
    /\ BestAnchorReadable' <=> /\ BestIsAnchor(DbContents')
                               /\ BestIsAnchor(TipContents')
                               /\ BestIsAnchor(ViewContents')
  <1>1. \A p \in Pools : /\ DbContents.hashAnchor[p] = db.hashAnchor[p]
                         /\ TipContents.hashAnchor[p] = TipBestAnchor(p)
                         /\ ViewContents.hashAnchor[p] = BestAnchor(p)
    BY SMTT(30), ContentsFields DEF DbContents, TipContents, ViewContents, TipBestAnchor, BestAnchor
  <1>2. \A p \in Pools : /\ DbContents'.hashAnchor[p] = db'.hashAnchor[p]
                         /\ TipContents'.hashAnchor[p] = TipBestAnchor(p)'
                         /\ ViewContents'.hashAnchor[p] = BestAnchor(p)'
    BY SMTT(30), ContentsFields DEF DbContents, TipContents, ViewContents, TipBestAnchor, BestAnchor
  <1>3. QED
    BY Zenon, <1>1, <1>2 DEF BestAnchorReadable, BestIsAnchor

(* What the database answers for t is what it holds.                       *)
LEMMA DbAnswer ==
    ASSUME DbOK, NEW t \in Txids
    PROVE  /\ DbGetCoins(t) \in (SUBSET Outs) \cup {NoEntry}
           /\ DbGetCoins(t) = NoEntry \/ DbGetCoins(t) = DbContents.coins[t]
           /\ DbGetCoins(t) = NoEntry => DbContents.coins[t] = Pruned
  BY Zenon, DbGetCoinsType, NoEntryAssumption DEF DbOK, Database, DbGetCoins, DbContents

(* Asking the tip for coins fills it and changes nothing it shows; what it *)
(* answers is what it shows.                                               *)
LEMMA TipAskedKeeps ==
    ASSUME IInv, NEW t \in Txids
    PROVE  /\ CacheOK(TipAsked(t), DbContents)
           /\ Contents(TipAsked(t), DbContents) = TipContents
           /\ \A u \in Txids : tip.coins[u] # NoEntry => TipAsked(t).coins[u] # NoEntry
           /\ CacheGetCoins(TipAsked(t), t) \in (SUBSET Outs) \cup {NoEntry}
           /\ CacheGetCoins(TipAsked(t), t) # NoEntry
                 => /\ CacheGetCoins(TipAsked(t), t) = TipContents.coins[t]
                    /\ TipAsked(t).coins[t] # NoEntry
           /\ (view.coins[t] = NoEntry /\ CacheGetCoins(TipAsked(t), t) = NoEntry)
                 => TipContents.coins[t] = Pruned
  <1>1. /\ CacheOK(FetchCoins(tip, t, DbGetCoins(t)), DbContents)
        /\ Contents(FetchCoins(tip, t, DbGetCoins(t)), DbContents) = TipContents
        /\ \A u \in Txids : tip.coins[u] # NoEntry
              => FetchCoins(tip, t, DbGetCoins(t)).coins[u] = tip.coins[u]
    BY ZenonT(60), DbAnswer, FetchCoinsKeeps DEF IInv, TipContents
  <1>2. /\ CacheOK(TipAsked(t), DbContents)
        /\ Contents(TipAsked(t), DbContents) = TipContents
        /\ \A u \in Txids : tip.coins[u] # NoEntry => TipAsked(t).coins[u] # NoEntry
    BY Zenon, <1>1 DEF TipAsked, IInv, TipContents
  <1>3. CacheGetCoins(TipAsked(t), t) \in (SUBSET Outs) \cup {NoEntry}
    BY Zenon, <1>2, CacheGetCoinsType DEF CacheOK
  <1>4. TipAsked(t).coins[t] # NoEntry =>
           /\ CacheGetCoins(TipAsked(t), t) = TipContents.coins[t]
           /\ CacheGetCoins(TipAsked(t), t) # NoEntry
    <2>1. TipAsked(t).coins[t] # NoEntry => TipAsked(t).coins[t].coins # NoEntry
      BY Zenon, <1>2, NoEntryAssumption DEF CacheOK, Cache, CoinsEntry
    <2>2. QED
      BY SMTT(30), <1>2, <2>1, ContentsFields DEF CacheGetCoins
  <1>5. TipAsked(t).coins[t] = NoEntry => CacheGetCoins(TipAsked(t), t) = NoEntry
    BY Zenon DEF CacheGetCoins
  <1>6. ASSUME view.coins[t] = NoEntry, TipAsked(t).coins[t] = NoEntry
        PROVE  TipContents.coins[t] = Pruned
    <2>1. TipAsked(t) = FetchCoins(tip, t, DbGetCoins(t)) /\ tip.coins[t] = NoEntry
      BY Zenon, <1>1, <1>6 DEF TipAsked
    <2>2. DbGetCoins(t) = NoEntry
      <3>1. SUFFICES ASSUME DbGetCoins(t) # NoEntry PROVE FALSE
        BY Zenon
      <3>2. [coins |-> DbGetCoins(t), flags |-> IF DbGetCoins(t) = Pruned THEN {FRESH} ELSE {}]
               \in CoinsEntry
        BY Zenon, <3>1, DbAnswer DEF CoinsEntry, IInv
      <3>3. TipAsked(t).coins[t] \in CoinsEntry
        BY SMTT(30), <2>1, <3>1, <3>2 DEF FetchCoins, IInv, CacheOK, Cache
      <3>4. QED
        BY Zenon, <3>3, <1>6, NoEntryAssumption
    <2>3. QED
      BY SMTT(30), <2>1, <2>2, DbAnswer, ContentsFields DEF IInv, TipContents
  <1>7. QED
    BY Zenon, <1>2, <1>3, <1>4, <1>5, <1>6

-----------------------------------------------------------------------------
(* The steps, one by one: each preserves the invariant, and is a step of   *)
(* CoinsStore or changes nothing CoinsStore sees.                          *)

Shown == <<DbContents, TipContents, ViewContents>>

(* A step that leaves the database alone and fills the two caches.         *)
LEMMA FillingStep ==
    ASSUME IInv, UNCHANGED <<db, open>>,
           CacheOK(tip', DbContents), Contents(tip', DbContents) = TipContents,
           CacheOK(view', TipContents), Contents(view', TipContents) = ViewContents,
           ClosedViewEmpty', PulledThroughTip', ModifierMarked'
    PROVE  IInv' /\ UNCHANGED Shown
  <1>1. DbOK' /\ DbContents' = DbContents
    BY Zenon DEF IInv, DbOK, DbContents
  <1>2. TipContents' = TipContents
    BY Zenon, <1>1 DEF TipContents
  <1>3. ViewContents' = ViewContents
    BY Zenon, <1>2 DEF ViewContents
  <1>4. BestAnchorReadable'
    BY Zenon, <1>1, <1>2, <1>3, ReadableContents DEF IInv
  <1>5. CacheOK(tip, DbContents)' /\ CacheOK(view, TipContents)'
    <2>1. CacheOK(tip, DbContents)' <=> CacheOK(tip', DbContents')
      BY Zenon DEF CacheOK, FreshOver, AgreesWith, TreesOver
    <2>2. CacheOK(view, TipContents)' <=> CacheOK(view', TipContents')
      BY Zenon DEF CacheOK, FreshOver, AgreesWith, TreesOver
    <2>3. QED
      BY Zenon, <1>1, <1>2, <2>1, <2>2
  <1>6. QED
    BY Zenon, <1>1, <1>2, <1>3, <1>4, <1>5 DEF IInv, Shown

(* Reading coins through the view.                                         *)
LEMMA AccessCoinsStep ==
    ASSUME IInv, NEW t \in Txids, AccessCoins(t)
    PROVE  IInv' /\ UNCHANGED Shown
  <1> DEFINE found == CacheGetCoins(TipAsked(t), t)
  <1>1. /\ tip' = TipAsked(t)
        /\ view' = FetchCoins(view, t, found)
        /\ open /\ open' = open /\ db' = db /\ modifier' = modifier
    BY Zenon DEF AccessCoins
  <1>2. /\ CacheOK(view', TipContents)
        /\ Contents(view', TipContents) = ViewContents
        /\ \A u \in Txids : view.coins[u] # NoEntry => view'.coins[u] = view.coins[u]
    BY SMTT(30), <1>1, TipAskedKeeps, FetchCoinsKeeps DEF IInv, ViewContents
  <1>3. CacheOK(tip', DbContents) /\ Contents(tip', DbContents) = TipContents
    BY Zenon, <1>1, TipAskedKeeps
  <1>4. PulledThroughTip'
    <2> SUFFICES ASSUME NEW u \in Txids, view'.coins[u] # NoEntry, FRESH \notin view'.coins[u].flags
                 PROVE  tip'.coins[u] # NoEntry
      BY Zenon DEF PulledThroughTip
    <2>1. CASE view.coins[u] # NoEntry
      BY Zenon, <1>1, <1>2, <2>1, TipAskedKeeps DEF IInv, PulledThroughTip
    <2>2. CASE view.coins[u] = NoEntry
      <3>1. u = t /\ found # NoEntry
        BY Zenon, <1>1, <2>2 DEF FetchCoins, IInv, CacheOK, Cache
      <3>2. QED
        BY Zenon, <1>1, <3>1, TipAskedKeeps
    <2>3. QED
      BY Zenon, <2>1, <2>2
  <1>5. ClosedViewEmpty'
    BY Zenon, <1>1 DEF ClosedViewEmpty
  <1>6. ModifierMarked'
    BY Zenon, <1>1, <1>2 DEF IInv, ModifierMarked
  <1>7. QED
    BY Zenon, <1>1, <1>2, <1>3, <1>4, <1>5, <1>6, FillingStep

(* Reading coins through pcoinsTip.                                        *)
LEMMA TipAccessCoinsStep ==
    ASSUME IInv, NEW t \in Txids, TipAccessCoins(t)
    PROVE  IInv' /\ UNCHANGED Shown
  <1>1. /\ tip' = FetchCoins(tip, t, DbGetCoins(t))
        /\ view' = view /\ open' = open /\ db' = db /\ modifier' = modifier
    BY Zenon DEF TipAccessCoins
  <1>2. /\ CacheOK(tip', DbContents)
        /\ Contents(tip', DbContents) = TipContents
        /\ \A u \in Txids : tip.coins[u] # NoEntry => tip'.coins[u] = tip.coins[u]
    BY ZenonT(60), <1>1, DbAnswer, FetchCoinsKeeps DEF IInv, TipContents
  <1>3. CacheOK(view', TipContents) /\ Contents(view', TipContents) = ViewContents
    BY Zenon, <1>1 DEF IInv, ViewContents
  <1>4. PulledThroughTip' /\ ClosedViewEmpty' /\ ModifierMarked'
    BY Zenon, <1>1, <1>2 DEF IInv, PulledThroughTip, ClosedViewEmpty, ModifierMarked
  <1>5. QED
    BY Zenon, <1>1, <1>2, <1>3, <1>4, FillingStep

(* Reading a nullifier.                                                    *)
LEMMA GetNullifierStep ==
    ASSUME IInv, NEW n \in Nullifiers, GetNullifier(n)
    PROVE  IInv' /\ UNCHANGED Shown
  <1>0. PICK spent \in BOOLEAN : spent = (n \in db.nullifiers)
    <2>1. CASE n \in db.nullifiers
      BY <2>1, TRUE = (n \in db.nullifiers), Zenon
    <2>2. CASE n \notin db.nullifiers
      BY <2>2, FALSE = (n \in db.nullifiers), Zenon
    <2>3. QED
      BY Zenon, <2>1, <2>2
  <1> DEFINE asked == FetchNullifier(tip, n, spent)
  <1>1. open /\ open' = open /\ db' = db /\ modifier' = modifier
    BY Zenon DEF GetNullifier
  <1>2. CASE view.nullifiers[n] # NoEntry
    <2>1. tip' = tip /\ view' = view
      BY Zenon, <1>2 DEF GetNullifier
    <2>2. PulledThroughTip' /\ ClosedViewEmpty' /\ ModifierMarked'
      BY Zenon, <1>1, <2>1 DEF IInv, PulledThroughTip, ClosedViewEmpty, ModifierMarked
    <2>3. QED
      BY Zenon, <1>1, <2>1, <2>2, FillingStep DEF IInv, TipContents, ViewContents
  <1>3. CASE view.nullifiers[n] = NoEntry
    <2>1. tip' = asked /\ view' = FetchNullifier(view, n, asked.nullifiers[n].entered)
      BY Zenon, <1>0, <1>3 DEF GetNullifier
    <2>2. /\ CacheOK(asked, DbContents)
          /\ Contents(asked, DbContents) = TipContents
          /\ asked.coins = tip.coins
          /\ asked.nullifiers[n].entered <=> n \in TipContents.nullifiers
      <3>1. spent <=> n \in DbContents.nullifiers
        BY Zenon, <1>0 DEF DbContents
      <3>2. QED
        BY SMTT(30), <3>1, FetchNullifierKeeps DEF IInv, TipContents
    <2>3. asked.nullifiers[n].entered \in BOOLEAN
      <3>1. asked.nullifiers[n] \in NullifierEntry
        BY Zenon, FetchNullifierType DEF IInv, CacheOK
      <3>2. QED
        BY Zenon, <3>1 DEF NullifierEntry
    <2>4. /\ CacheOK(view', TipContents)
          /\ Contents(view', TipContents) = ViewContents
          /\ view'.coins = view.coins
      BY SMTT(30), <2>1, <2>2, <2>3, FetchNullifierKeeps DEF IInv, ViewContents
    <2>5. PulledThroughTip' /\ ClosedViewEmpty' /\ ModifierMarked'
      BY Zenon, <1>1, <2>1, <2>2, <2>4 DEF IInv, PulledThroughTip, ClosedViewEmpty, ModifierMarked
    <2>6. QED
      BY Zenon, <1>1, <2>1, <2>2, <2>4, <2>5, FillingStep
  <1>4. QED
    BY Zenon, <1>2, <1>3

(* Asking the tip for an anchor fills it and changes nothing it shows.     *)
LEMMA TipAskedAnchorKeeps ==
    ASSUME IInv, NEW p \in Pools, NEW r \in Roots
    PROVE  /\ CacheOK(TipAskedAnchor(p, r), DbContents)
           /\ Contents(TipAskedAnchor(p, r), DbContents) = TipContents
           /\ TipAskedAnchor(p, r).coins = tip.coins
           /\ TipAskedAnchor(p, r).hashAnchor = tip.hashAnchor
           /\ CacheGetAnchor(TipAskedAnchor(p, r), p, r) \in Roots \cup {NoEntry}
           /\ \/ CacheGetAnchor(TipAskedAnchor(p, r), p, r) = NoEntry
              \/ /\ CacheGetAnchor(TipAskedAnchor(p, r), p, r) = r
                 /\ r \in TipContents.anchors[p]
           /\ (view.anchors[p][r] = NoEntry /\ r \in TipContents.anchors[p])
                 => CacheGetAnchor(TipAskedAnchor(p, r), p, r) = r
  <1> DEFINE asked == TipAskedAnchor(p, r)
             fetched == FetchAnchor(tip, p, r, db.anchors[p][r])
  <1>1. /\ db.anchors[p][r] \in Roots \cup {NoEntry}
        /\ db.anchors[p][r] = NoEntry \/ (db.anchors[p][r] = r /\ r \in DbContents.anchors[p])
        /\ r \in DbContents.anchors[p] => db.anchors[p][r] # NoEntry
    BY Zenon DEF IInv, DbOK, Database, DbContents
  <1>2. /\ CacheOK(fetched, DbContents)
        /\ Contents(fetched, DbContents) = TipContents
        /\ fetched.coins = tip.coins
        /\ fetched.hashAnchor = tip.hashAnchor
        /\ db.anchors[p][r] # NoEntry => fetched.anchors[p][r] # NoEntry
    BY Zenon, <1>1, FetchAnchorKeeps DEF IInv, TipContents
  <1>3. /\ CacheOK(asked, DbContents)
        /\ Contents(asked, DbContents) = TipContents
        /\ asked.coins = tip.coins
        /\ asked.hashAnchor = tip.hashAnchor
    BY Zenon, <1>2 DEF TipAskedAnchor, IInv, TipContents
  <1>4. CacheGetAnchor(asked, p, r) \in Roots \cup {NoEntry}
    BY Zenon, <1>3, CacheGetAnchorType DEF CacheOK
  <1>5. asked.anchors[p][r] # NoEntry => (asked.anchors[p][r].entered <=> r \in TipContents.anchors[p])
    BY Zenon, <1>3, ContentsFields
  <1>6. asked.anchors[p][r] # NoEntry => asked.anchors[p][r].tree = r
    BY Zenon, <1>3 DEF CacheOK, TreesOver
  <1>7. (view.anchors[p][r] = NoEntry /\ r \in TipContents.anchors[p]) => asked.anchors[p][r] # NoEntry
    <2> SUFFICES ASSUME view.anchors[p][r] = NoEntry, r \in TipContents.anchors[p], asked.anchors[p][r] = NoEntry
                 PROVE  FALSE
      BY Zenon
    <2>1. asked = fetched
      BY Zenon DEF TipAskedAnchor
    <2>2. r \in DbContents.anchors[p]
      BY SMTT(30), <1>3, ContentsFields
    <2>3. QED
      BY Zenon, <1>1, <1>2, <2>1, <2>2
  <1>8. QED
    BY Zenon, <1>3, <1>4, <1>5, <1>6, <1>7 DEF CacheGetAnchor

(* Reading an anchor through the view.                                     *)
LEMMA GetAnchorAtStep ==
    ASSUME IInv, NEW p \in Pools, NEW r \in Roots, GetAnchorAt(p, r)
    PROVE  IInv' /\ UNCHANGED Shown
  <1>1. /\ tip' = TipAskedAnchor(p, r)
        /\ view' = FetchAnchor(view, p, r, CacheGetAnchor(TipAskedAnchor(p, r), p, r))
        /\ open /\ open' = open /\ db' = db /\ modifier' = modifier
    BY Zenon DEF GetAnchorAt
  <1>2. CacheOK(tip', DbContents) /\ Contents(tip', DbContents) = TipContents /\ tip'.coins = tip.coins
    BY Zenon, <1>1, TipAskedAnchorKeeps
  <1>3. CacheOK(view', TipContents) /\ Contents(view', TipContents) = ViewContents /\ view'.coins = view.coins
    BY SMTT(30), <1>1, TipAskedAnchorKeeps, FetchAnchorKeeps DEF IInv, ViewContents
  <1>4. PulledThroughTip' /\ ClosedViewEmpty' /\ ModifierMarked'
    BY Zenon, <1>1, <1>2, <1>3 DEF IInv, PulledThroughTip, ClosedViewEmpty, ModifierMarked
  <1>5. QED
    BY Zenon, <1>1, <1>2, <1>3, <1>4, FillingStep

(* A cache whose maps stay as they are and whose hashes are loaded from    *)
(* the base shows the same.                                                *)
LEMMA LoadKeeps ==
    ASSUME NEW cache, NEW base, CacheOK(cache, base), base \in Store!States, NEW new \in Cache,
           new.coins = cache.coins, new.nullifiers = cache.nullifiers, new.anchors = cache.anchors,
           new.hashBlock \in {cache.hashBlock, Loaded(cache.hashBlock, base.hashBlock)},
           \A p \in Pools :
               new.hashAnchor[p] \in {cache.hashAnchor[p], Loaded(cache.hashAnchor[p], base.hashAnchor[p])}
    PROVE  CacheOK(new, base) /\ Contents(new, base) = Contents(cache, base)
  <1>1. CacheOK(new, base)
    BY SMTT(30) DEF CacheOK, FreshOver, AgreesWith, TreesOver
  <1>2. Contents(new, base).hashBlock = Contents(cache, base).hashBlock
    BY SMTT(30), ContentsFields DEF Loaded
  <1>3. \A p \in Pools : Contents(new, base).hashAnchor[p] = Contents(cache, base).hashAnchor[p]
    BY SMTT(30), ContentsFields DEF Loaded
  <1>4. QED
    BY SMTT(30), <1>1, <1>2, <1>3, ContentsFields, SameContents

(* The states the layers show are complete states.                         *)
LEMMA ShownType ==
    ASSUME IInv
    PROVE  /\ DbContents \in Store!States
           /\ TipContents \in Store!States
           /\ ViewContents \in Store!States
  BY Zenon, DbContentsType, ContentsType DEF IInv, DbOK, CacheOK, TipContents, ViewContents

(* Reading the best block.                                                 *)
LEMMA GetBestBlockStep ==
    ASSUME IInv, GetBestBlock
    PROVE  IInv' /\ UNCHANGED Shown
  <1>1. /\ open /\ open' = open /\ db' = db /\ modifier' = modifier
        /\ tip' = IF view.hashBlock # NULL THEN tip ELSE [tip EXCEPT !.hashBlock = TipBestBlock]
        /\ view' = [view EXCEPT !.hashBlock = Loaded(@, TipBestBlock)]
    BY Zenon DEF GetBestBlock
  <1>2. TipBestBlock = TipContents.hashBlock /\ TipBestBlock = Loaded(tip.hashBlock, DbContents.hashBlock)
    BY ZenonT(60), ContentsFields DEF TipContents, TipBestBlock, DbContents
  <1>3. TipBestBlock \in Blocks \cup {NULL}
    BY Zenon, <1>2, ShownType DEF Store!States
  <1>4. /\ tip' \in Cache /\ tip'.coins = tip.coins /\ tip'.nullifiers = tip.nullifiers
        /\ tip'.anchors = tip.anchors /\ tip'.hashAnchor = tip.hashAnchor
        /\ tip'.hashBlock \in {tip.hashBlock, Loaded(tip.hashBlock, DbContents.hashBlock)}
    <2>1. tip \in Cache
      BY Zenon DEF IInv, CacheOK
    <2>2. tip' = tip \/ tip' = [tip EXCEPT !.hashBlock = TipBestBlock]
      BY Zenon, <1>1
    <2>3. QED
      BY Zenon, <1>2, <1>3, <2>1, <2>2 DEF Cache
  <1>5. /\ view' \in Cache /\ view'.coins = view.coins /\ view'.nullifiers = view.nullifiers
        /\ view'.anchors = view.anchors /\ view'.hashAnchor = view.hashAnchor
        /\ view'.hashBlock = Loaded(view.hashBlock, TipContents.hashBlock)
    <2>1. view \in Cache /\ Loaded(view.hashBlock, TipBestBlock) \in Blocks \cup {NULL}
      BY Zenon, <1>3 DEF IInv, CacheOK, Cache, Loaded
    <2>2. QED
      BY Zenon, <1>1, <1>2, <2>1 DEF Cache
  <1>6. CacheOK(tip', DbContents) /\ Contents(tip', DbContents) = TipContents
    BY Zenon, <1>4, ShownType, LoadKeeps DEF IInv, TipContents
  <1>7. CacheOK(view', TipContents) /\ Contents(view', TipContents) = ViewContents
    BY Zenon, <1>5, ShownType, LoadKeeps DEF IInv, ViewContents
  <1>8. PulledThroughTip' /\ ClosedViewEmpty' /\ ModifierMarked'
    BY ZenonT(60), <1>1, <1>4, <1>5 DEF IInv, PulledThroughTip, ClosedViewEmpty, ModifierMarked
  <1>9. QED
    BY Zenon, <1>1, <1>6, <1>7, <1>8, FillingStep

(* The tip after its best anchor was loaded shows the same.                *)
LEMMA TipLoadedAnchorKeeps ==
    ASSUME IInv, NEW p \in Pools, NEW cache, CacheOK(cache, DbContents),
           cache.hashAnchor = tip.hashAnchor
    PROVE  /\ CacheOK(TipLoadedAnchor(cache, p), DbContents)
           /\ Contents(TipLoadedAnchor(cache, p), DbContents) = Contents(cache, DbContents)
           /\ TipLoadedAnchor(cache, p).coins = cache.coins
  <1> DEFINE new == TipLoadedAnchor(cache, p)
  <1>1. TipBestAnchor(p) = Loaded(cache.hashAnchor[p], DbContents.hashAnchor[p])
    BY Zenon DEF TipBestAnchor, DbContents
  <1>2. TipBestAnchor(p) \in Roots
    BY SMTT(30), ContentsFields, ShownType DEF TipContents, TipBestAnchor, DbContents, Store!States
  <1>3. /\ new \in Cache /\ new.coins = cache.coins /\ new.nullifiers = cache.nullifiers
        /\ new.anchors = cache.anchors /\ new.hashBlock = cache.hashBlock
        /\ new.hashAnchor \in {cache.hashAnchor, [cache.hashAnchor EXCEPT ![p] = TipBestAnchor(p)]}
    BY Zenon, <1>2 DEF TipLoadedAnchor, CacheOK, Cache
  <1>4. \A q \in Pools :
           new.hashAnchor[q] \in {cache.hashAnchor[q], Loaded(cache.hashAnchor[q], DbContents.hashAnchor[q])}
    BY Zenon, <1>1, <1>3 DEF CacheOK, Cache
  <1>5. QED
    BY Zenon, <1>3, <1>4, LoadKeeps, ShownType


-----------------------------------------------------------------------------
(* Writes to the view.                                                     *)

(* Complete states are equal when their fields are.                        *)
LEMMA SameState ==
    ASSUME NEW a \in Store!States, NEW b \in Store!States,
           \A t \in Txids : a.coins[t] = b.coins[t],
           \A n \in Nullifiers : n \in a.nullifiers <=> n \in b.nullifiers,
           \A p \in Pools, r \in Roots : r \in a.anchors[p] <=> r \in b.anchors[p],
           a.hashBlock = b.hashBlock,
           \A p \in Pools : a.hashAnchor[p] = b.hashAnchor[p]
    PROVE  a = b
  <1>1. a.coins = b.coins
    BY SMTT(30) DEF Store!States
  <1>2. a.nullifiers = b.nullifiers
    BY Zenon DEF Store!States
  <1>3. a.anchors = b.anchors
    <2>1. \A p \in Pools : a.anchors[p] = b.anchors[p]
      BY Zenon DEF Store!States
    <2>2. QED
      BY SMTT(30), <2>1 DEF Store!States
  <1>4. a.hashAnchor = b.hashAnchor
    BY SMTT(30) DEF Store!States
  <1>5. QED
    BY SMTT(30), <1>1, <1>2, <1>3, <1>4 DEF Store!States

(* A step that fills the tip and changes the view.                         *)
LEMMA WritingStep ==
    ASSUME IInv, UNCHANGED <<db, open>>,
           CacheOK(tip', DbContents), Contents(tip', DbContents) = TipContents,
           CacheOK(view', TipContents), BestIsAnchor(Contents(view', TipContents)),
           ClosedViewEmpty', PulledThroughTip', ModifierMarked'
    PROVE  /\ IInv'
           /\ DbContents' = DbContents
           /\ TipContents' = TipContents
           /\ ViewContents' = Contents(view', TipContents)
  <1>1. DbOK' /\ DbContents' = DbContents
    BY Zenon DEF IInv, DbOK, DbContents
  <1>2. TipContents' = TipContents
    BY Zenon, <1>1 DEF TipContents
  <1>3. ViewContents' = Contents(view', TipContents)
    BY Zenon, <1>2 DEF ViewContents
  <1>4. BestAnchorReadable'
    BY Zenon, <1>1, <1>2, <1>3, ReadableContents DEF IInv
  <1>5. CacheOK(tip, DbContents)' /\ CacheOK(view, TipContents)'
    <2>1. CacheOK(tip, DbContents)' <=> CacheOK(tip', DbContents')
      BY Zenon DEF CacheOK, FreshOver, AgreesWith, TreesOver
    <2>2. CacheOK(view, TipContents)' <=> CacheOK(view', TipContents')
      BY Zenon DEF CacheOK, FreshOver, AgreesWith, TreesOver
    <2>3. QED
      BY Zenon, <1>1, <1>2, <2>1, <2>2
  <1>6. QED
    BY Zenon, <1>1, <1>2, <1>3, <1>4, <1>5 DEF IInv

(* A complete state with new coins for one transaction.                    *)
LEMMA CoinsReplaced ==
    ASSUME NEW a \in Store!States, NEW b \in Store!States, NEW t \in Txids, NEW c,
           b.coins[t] = c, \A u \in Txids : u # t => b.coins[u] = a.coins[u],
           b.nullifiers = a.nullifiers, b.anchors = a.anchors,
           b.hashBlock = a.hashBlock, b.hashAnchor = a.hashAnchor
    PROVE  b = [a EXCEPT !.coins[t] = c]
  <1>1. b.coins = [a.coins EXCEPT ![t] = c]
    BY Zenon DEF Store!States
  <1>2. QED
    BY Zenon, <1>1 DEF Store!States

(* A cache with a new entry for one transaction.                           *)
LEMMA PutEntryKeeps ==
    ASSUME NEW cache, NEW base, CacheOK(cache, base), base \in Store!States, NEW t \in Txids,
           NEW e \in CoinsEntry \cup {NoEntry},
           e # NoEntry => DIRTY \in e.flags /\ (FRESH \in e.flags => base.coins[t] = Pruned)
    PROVE  /\ CacheOK([cache EXCEPT !.coins[t] = e], base)
           /\ [cache EXCEPT !.coins[t] = e].coins[t] = e
           /\ \A u \in Txids : u # t => [cache EXCEPT !.coins[t] = e].coins[u] = cache.coins[u]
           /\ [cache EXCEPT !.coins[t] = e].nullifiers = cache.nullifiers
           /\ [cache EXCEPT !.coins[t] = e].anchors = cache.anchors
           /\ [cache EXCEPT !.coins[t] = e].hashBlock = cache.hashBlock
           /\ [cache EXCEPT !.coins[t] = e].hashAnchor = cache.hashAnchor
  <1> DEFINE new == [cache EXCEPT !.coins[t] = e]
  <1>1. /\ new \in Cache
        /\ new.coins = [cache.coins EXCEPT ![t] = e]
        /\ new.nullifiers = cache.nullifiers
        /\ new.anchors = cache.anchors
        /\ new.hashBlock = cache.hashBlock
        /\ new.hashAnchor = cache.hashAnchor
    BY Zenon DEF CacheOK, Cache
  <1>2. /\ new.coins[t] = e
        /\ \A u \in Txids : u # t => new.coins[u] = cache.coins[u]
    BY Zenon, <1>1 DEF CacheOK, Cache
  <1> HIDE DEF new
  <1>3. CacheOK(new, base)
    BY SMTT(30), <1>1, <1>2 DEF CacheOK, FreshOver, AgreesWith, TreesOver
  <1>4. QED
    BY Zenon, <1>1, <1>2, <1>3 DEF new

(* What it shows: the new coins of that transaction, the rest as before.   *)
LEMMA PutEntryShows ==
    ASSUME NEW cache \in Cache, NEW base \in Store!States, NEW new \in Cache, NEW t \in Txids, NEW c,
           c = IF new.coins[t] = NoEntry THEN base.coins[t] ELSE new.coins[t].coins,
           \A u \in Txids : u # t => new.coins[u] = cache.coins[u],
           new.nullifiers = cache.nullifiers, new.anchors = cache.anchors,
           new.hashBlock = cache.hashBlock, new.hashAnchor = cache.hashAnchor
    PROVE  Contents(new, base) = [Contents(cache, base) EXCEPT !.coins[t] = c]
  <1>1. /\ Contents(new, base) \in Store!States
        /\ Contents(cache, base) \in Store!States
    BY Zenon, ContentsType
  <1>2. /\ Contents(new, base).coins[t] = c
        /\ \A u \in Txids : u # t => Contents(new, base).coins[u] = Contents(cache, base).coins[u]
    BY SMTT(30), ContentsFields
  <1>3. /\ Contents(new, base).nullifiers = Contents(cache, base).nullifiers
        /\ Contents(new, base).anchors = Contents(cache, base).anchors
        /\ Contents(new, base).hashBlock = Contents(cache, base).hashBlock
        /\ Contents(new, base).hashAnchor = Contents(cache, base).hashAnchor
    BY ZenonT(60) DEF Contents
  <1>4. QED
    BY SMTT(30), <1>1, <1>2, <1>3, CoinsReplaced

(* ModifyCoins marks an entry and shows the same.                          *)
LEMMA ModifyCoinsStep ==
    ASSUME IInv, NEW t \in Txids, ModifyCoins(t)
    PROVE  IInv' /\ UNCHANGED Shown
  <1> DEFINE found == CacheGetCoins(TipAsked(t), t)
             e == ModifiedEntry(t, found)
  <1>1. /\ open /\ open' = open /\ db' = db
        /\ tip' = TipAsked(t)
        /\ view' = [view EXCEPT !.coins[t] = e]
        /\ modifier'.txid = t
    BY Zenon DEF ModifyCoins
  <1>2. found \in (SUBSET Outs) \cup {NoEntry}
    BY Zenon, TipAskedKeeps
  <1>3. /\ e \in CoinsEntry
        /\ DIRTY \in e.flags
        /\ view.coins[t] # NoEntry => e.coins = view.coins[t].coins /\ (FRESH \in e.flags <=> FRESH \in view.coins[t].flags)
        /\ view.coins[t] = NoEntry => e.coins = IF found = NoEntry THEN Pruned ELSE found
        /\ view.coins[t] = NoEntry => (FRESH \in e.flags <=> found = NoEntry \/ found = Pruned)
    <2>1. CASE view.coins[t] # NoEntry
      <3>1. view.coins[t] \in CoinsEntry
        BY Zenon, <2>1 DEF IInv, CacheOK, Cache
      <3>2. e = [view.coins[t] EXCEPT !.flags = @ \cup {DIRTY}]
        BY Zenon, <2>1 DEF ModifiedEntry
      <3>3. QED
        BY ZenonT(60), <2>1, <3>1, <3>2 DEF CoinsEntry, DIRTY, FRESH
    <2>2. CASE view.coins[t] = NoEntry
      BY Zenon, <1>2, <2>2 DEF ModifiedEntry, CoinsEntry, Pruned, DIRTY, FRESH
    <2>3. QED
      BY Zenon, <2>1, <2>2
  <1>4. e # NoEntry
    BY Zenon, <1>3, NoEntryAssumption
  <1>5. FRESH \in e.flags => TipContents.coins[t] = Pruned
    BY Zenon, <1>3, TipAskedKeeps DEF IInv, CacheOK, FreshOver
  <1>6. /\ CacheOK(view', TipContents)
        /\ view'.coins[t] = e
        /\ \A u \in Txids : u # t => view'.coins[u] = view.coins[u]
        /\ view'.nullifiers = view.nullifiers /\ view'.anchors = view.anchors
        /\ view'.hashBlock = view.hashBlock /\ view'.hashAnchor = view.hashAnchor
    BY SMTT(30), <1>1, <1>3, <1>5, ShownType, PutEntryKeeps DEF IInv
  <1>7. Contents(view', TipContents) = ViewContents
    <2>1. view.coins[t] = NoEntry => e.coins = TipContents.coins[t]
      BY Zenon, <1>3, TipAskedKeeps
    <2>2. \A u \in Txids : Contents(view', TipContents).coins[u] = Contents(view, TipContents).coins[u]
      BY SMTT(30), <1>3, <1>4, <1>6, <2>1, ContentsFields
    <2>3. QED
      BY SMTT(30), <1>6, <2>2, ContentsFields, SameContents DEF ViewContents
  <1>8. CacheOK(tip', DbContents) /\ Contents(tip', DbContents) = TipContents
    BY Zenon, <1>1, TipAskedKeeps
  <1>9. PulledThroughTip'
    <2> SUFFICES ASSUME NEW u \in Txids, view'.coins[u] # NoEntry, FRESH \notin view'.coins[u].flags
                 PROVE  tip'.coins[u] # NoEntry
      BY Zenon DEF PulledThroughTip
    <2>1. CASE view.coins[u] # NoEntry
      <3>1. FRESH \notin view.coins[u].flags
        BY Zenon, <1>3, <1>6, <2>1
      <3>2. QED
        BY Zenon, <1>1, <2>1, <3>1, TipAskedKeeps DEF IInv, PulledThroughTip
    <2>2. CASE view.coins[u] = NoEntry
      <3>1. u = t /\ found # NoEntry
        BY Zenon, <1>3, <1>6, <2>2
      <3>2. QED
        BY Zenon, <1>1, <3>1, TipAskedKeeps
    <2>3. QED
      BY Zenon, <2>1, <2>2
  <1>10. ClosedViewEmpty' /\ ModifierMarked'
    BY Zenon, <1>1, <1>3, <1>4, <1>6 DEF ClosedViewEmpty, ModifierMarked
  <1>11. QED
    BY Zenon, <1>1, <1>6, <1>7, <1>8, <1>9, <1>10, FillingStep

(* ModifyNewCoins, under its contract, shows the same.                     *)
LEMMA ModifyNewCoinsStep ==
    ASSUME IInv, NEW t \in Txids, ModifyNewCoins(t)
    PROVE  IInv' /\ UNCHANGED Shown
  <1> DEFINE e == [coins |-> Pruned, flags |-> {FRESH, DIRTY}]
             asked == FetchCoins(tip, t, DbGetCoins(t))
  <1>1. /\ open /\ open' = open /\ db' = db /\ tip' = tip
        /\ NewCoinsContract(t)
        /\ view' = [view EXCEPT !.coins[t] = e]
        /\ modifier'.txid = t
    BY Zenon DEF ModifyNewCoins
  <1>2. e \in CoinsEntry /\ e # NoEntry /\ e.coins = Pruned /\ DIRTY \in e.flags /\ FRESH \in e.flags
    <2>1. e \in CoinsEntry
      BY Zenon DEF CoinsEntry, Pruned
    <2>2. QED
      BY Zenon, <2>1, NoEntryAssumption
  <1>3. TipContents.coins[t] = Pruned
    <2>1. CacheOK(asked, DbContents) /\ Contents(asked, DbContents) = TipContents
      BY Zenon, DbAnswer, FetchCoinsKeeps DEF IInv, TipContents
    <2>2. CASE asked.coins[t] # NoEntry
      <3>1. asked.coins[t].coins # NoEntry
        BY Zenon, <2>1, <2>2, NoEntryAssumption DEF CacheOK, Cache, CoinsEntry
      <3>2. asked.coins[t].coins = Pruned
        BY Zenon, <1>1, <2>2, <3>1 DEF NewCoinsContract, CacheGetCoins
      <3>3. QED
        BY SMTT(30), <2>1, <2>2, <3>2, ContentsFields
    <2>3. CASE asked.coins[t] = NoEntry
      <3>1. tip.coins[t] = NoEntry
        BY Zenon, <2>3 DEF FetchCoins
      <3>2. DbGetCoins(t) = NoEntry
        <4>1. SUFFICES ASSUME DbGetCoins(t) # NoEntry PROVE FALSE
          BY Zenon
        <4>2. [coins |-> DbGetCoins(t), flags |-> IF DbGetCoins(t) = Pruned THEN {FRESH} ELSE {}] \in CoinsEntry
          BY Zenon, <4>1, DbAnswer DEF CoinsEntry, IInv
        <4>3. asked.coins[t] \in CoinsEntry
          BY ZenonT(60), <3>1, <4>1, <4>2 DEF FetchCoins, IInv, CacheOK, Cache
        <4>4. QED
          BY Zenon, <2>3, <4>3, NoEntryAssumption
      <3>3. QED
        BY SMTT(30), <3>1, <3>2, DbAnswer, ContentsFields DEF IInv, TipContents
    <2>4. QED
      BY Zenon, <2>2, <2>3
  <1> HIDE DEF e, asked
  <1>4. /\ CacheOK(view', TipContents)
        /\ view'.coins[t] = e
        /\ \A u \in Txids : u # t => view'.coins[u] = view.coins[u]
        /\ view'.nullifiers = view.nullifiers /\ view'.anchors = view.anchors
        /\ view'.hashBlock = view.hashBlock /\ view'.hashAnchor = view.hashAnchor
    BY SMTT(30), <1>1, <1>2, <1>3, ShownType, PutEntryKeeps DEF IInv
  <1>5. Contents(view', TipContents) = ViewContents
    <2>1. view.coins[t] # NoEntry => view.coins[t].coins = Pruned
      BY Zenon, <1>1 DEF NewCoinsContract
    <2>2. \A u \in Txids : Contents(view', TipContents).coins[u] = Contents(view, TipContents).coins[u]
      BY SMTT(30), <1>2, <1>3, <1>4, <2>1, ContentsFields
    <2>3. QED
      BY SMTT(30), <1>4, <2>2, ContentsFields, SameContents DEF ViewContents
  <1>6. PulledThroughTip' /\ ClosedViewEmpty' /\ ModifierMarked'
    BY ZenonT(60), <1>1, <1>2, <1>4 DEF IInv, PulledThroughTip, ClosedViewEmpty, ModifierMarked
  <1>7. CacheOK(tip', DbContents) /\ Contents(tip', DbContents) = TipContents
    BY Zenon, <1>1 DEF IInv, TipContents
  <1>8. QED
    BY Zenon, <1>1, <1>4, <1>5, <1>6, <1>7, FillingStep

(* Destroying a modifier gives the transaction its new coins, erased or    *)
(* not.                                                                    *)
LEMMA ReleaseModifierStep ==
    ASSUME IInv, NEW c \in SUBSET Outs, ReleaseModifier(c)
    PROVE  IInv' /\ Store!Next
  <1> DEFINE t == modifier.txid
             erase == FRESH \in view.coins[t].flags /\ c = Pruned
             e == IF erase THEN NoEntry ELSE [coins |-> c, flags |-> view.coins[t].flags]
  <1>1. /\ modifier # NoModifier /\ open' = open /\ db' = db /\ tip' = tip
        /\ modifier' = NoModifier
        /\ view' = [view EXCEPT !.coins[t] = e]
    BY Zenon DEF ReleaseModifier
  <1>2. t \in Txids /\ view.coins[t] \in CoinsEntry /\ view.coins[t] # NoEntry /\ DIRTY \in view.coins[t].flags
    BY ZenonT(60), <1>1 DEF IInv, ModifierMarked, CacheOK, Cache
  <1>3. [coins |-> c, flags |-> view.coins[t].flags] \in CoinsEntry
    <2>1. view.coins[t].flags \in SUBSET {DIRTY, FRESH}
      BY Zenon, <1>2 DEF CoinsEntry
    <2> HIDE DEF t
    <2>2. QED
      BY Zenon, <2>1 DEF CoinsEntry
  <1>4. e \in CoinsEntry \cup {NoEntry} /\ (~erase => e # NoEntry)
    BY Zenon, <1>3, NoEntryAssumption
  <1>5. e # NoEntry => e.flags = view.coins[t].flags /\ e.coins = c
    BY Zenon
  <1>6. FRESH \in view.coins[t].flags => TipContents.coins[t] = Pruned
    BY Zenon, <1>2 DEF IInv, CacheOK, FreshOver
  <1>7. c = IF e = NoEntry THEN TipContents.coins[t] ELSE e.coins
    BY Zenon, <1>4, <1>5, <1>6
  <1> HIDE DEF e
  <1>8. /\ CacheOK(view', TipContents)
        /\ view'.coins[t] = e
        /\ \A u \in Txids : u # t => view'.coins[u] = view.coins[u]
        /\ view'.nullifiers = view.nullifiers /\ view'.anchors = view.anchors
        /\ view'.hashBlock = view.hashBlock /\ view'.hashAnchor = view.hashAnchor
    BY SMTT(30), <1>1, <1>2, <1>4, <1>5, <1>6, ShownType, PutEntryKeeps DEF IInv
  <1>9. Contents(view', TipContents) = [ViewContents EXCEPT !.coins[t] = c]
    BY SMTT(30), <1>2, <1>7, <1>8, ShownType, PutEntryShows DEF IInv, CacheOK, ViewContents
  <1>10. BestIsAnchor(Contents(view', TipContents))
    <2>1. \A p \in Pools : /\ Contents(view', TipContents).hashAnchor[p] = ViewContents.hashAnchor[p]
                           /\ Contents(view', TipContents).anchors[p] = ViewContents.anchors[p]
      BY ZenonT(60), <1>8 DEF ViewContents, Contents
    <2>2. BestIsAnchor(ViewContents)
      BY Zenon, ReadableContents DEF IInv
    <2>3. QED
      BY Zenon, <2>1, <2>2 DEF BestIsAnchor
  <1>11. PulledThroughTip' /\ ClosedViewEmpty' /\ ModifierMarked'
    <2>1. open
      BY SMTT(30), <1>2 DEF IInv, ClosedViewEmpty, EmptyCache
    <2>2. QED
      BY ZenonT(60), <1>1, <1>2, <1>5, <1>8, <2>1 DEF IInv, PulledThroughTip, ClosedViewEmpty, ModifierMarked
  <1>12. CacheOK(tip', DbContents) /\ Contents(tip', DbContents) = TipContents
    BY Zenon, <1>1 DEF IInv, TipContents
  <1>13. IInv' /\ DbContents' = DbContents /\ TipContents' = TipContents
              /\ ViewContents' = [ViewContents EXCEPT !.coins[t] = c]
    BY Zenon, <1>1, <1>8, <1>9, <1>10, <1>11, <1>12, WritingStep
  <1>14. Store!PutCoins(t, c)
    BY Zenon, <1>13 DEF Store!PutCoins
  <1>15. QED
    BY Zenon, <1>2, <1>13, <1>14 DEF Store!Next

(* SetNullifiers marks the nullifiers of a transaction spent or unspent.   *)
LEMMA SetNullifiersStep ==
    ASSUME IInv, NEW N \in SUBSET Nullifiers, NEW spent \in BOOLEAN, SetNullifiers(N, spent)
    PROVE  IInv' /\ Store!Next
  <1> DEFINE e == [entered |-> spent, flags |-> {DIRTY}]
             map == [n \in Nullifiers |-> IF n \in N THEN e ELSE view.nullifiers[n]]
  <1>1. /\ open /\ open' = open /\ db' = db /\ tip' = tip /\ modifier' = modifier
        /\ view' = [view EXCEPT !.nullifiers = map]
    BY Zenon DEF SetNullifiers
  <1>2. e \in NullifierEntry /\ e # NoEntry
    <2>1. e \in NullifierEntry
      BY Zenon DEF NullifierEntry
    <2>2. QED
      BY Zenon, <2>1, NoEntryAssumption
  <1>3. e.entered = spent /\ DIRTY \in e.flags
    BY Zenon
  <1> HIDE DEF e
  <1>4. map \in [Nullifiers -> NullifierEntry \cup {NoEntry}]
    BY Zenon, <1>2 DEF IInv, CacheOK, Cache
  <1>5. /\ \A n \in N : map[n] = e
        /\ \A n \in Nullifiers \ N : map[n] = view.nullifiers[n]
    BY Zenon
  <1> HIDE DEF map
  <1>6. /\ view' \in Cache
        /\ view'.nullifiers = map
        /\ view'.coins = view.coins /\ view'.anchors = view.anchors
        /\ view'.hashBlock = view.hashBlock /\ view'.hashAnchor = view.hashAnchor
    BY ZenonT(60), <1>1, <1>4 DEF IInv, CacheOK, Cache
  <1>7. CacheOK(view', TipContents)
    BY SMTT(30), <1>2, <1>3, <1>5, <1>6 DEF IInv, CacheOK, FreshOver, AgreesWith, TreesOver
  <1>8. \A n \in Nullifiers : n \in Contents(view', TipContents).nullifiers <=>
           IF n \in N THEN spent ELSE n \in ViewContents.nullifiers
    BY SMTT(30), <1>2, <1>3, <1>5, <1>6, ContentsFields DEF ViewContents
  <1>9. /\ Contents(view', TipContents).coins = ViewContents.coins
        /\ Contents(view', TipContents).anchors = ViewContents.anchors
        /\ Contents(view', TipContents).hashBlock = ViewContents.hashBlock
        /\ Contents(view', TipContents).hashAnchor = ViewContents.hashAnchor
    BY ZenonT(60), <1>6 DEF ViewContents, Contents
  <1>10. BestIsAnchor(Contents(view', TipContents))
    BY Zenon, <1>9, ReadableContents DEF IInv, BestIsAnchor
  <1>11. PulledThroughTip' /\ ClosedViewEmpty' /\ ModifierMarked'
    BY Zenon, <1>1, <1>6 DEF IInv, PulledThroughTip, ClosedViewEmpty, ModifierMarked
  <1>12. CacheOK(tip', DbContents) /\ Contents(tip', DbContents) = TipContents
    BY Zenon, <1>1 DEF IInv, TipContents
  <1>13. IInv' /\ DbContents' = DbContents /\ TipContents' = TipContents
              /\ ViewContents' = Contents(view', TipContents)
    BY Zenon, <1>1, <1>7, <1>10, <1>11, <1>12, WritingStep
  <1>14. ViewContents' \in Store!States /\ ViewContents \in Store!States
    BY Zenon, <1>6, <1>13, ShownType, ContentsType
  <1>15. ViewContents'.nullifiers = IF spent THEN ViewContents.nullifiers \cup N
                                    ELSE ViewContents.nullifiers \ N
    <2>1. ViewContents'.nullifiers \subseteq Nullifiers /\ ViewContents.nullifiers \subseteq Nullifiers
      BY Zenon, <1>14 DEF Store!States
    <2>2. QED
      BY Zenon, <1>8, <1>13, <2>1
  <1>16. Store!PutNullifiers(N, spent)
    BY Zenon, <1>9, <1>13, <1>14, <1>15 DEF Store!PutNullifiers, Store!States
  <1>17. QED
    BY Zenon, <1>13, <1>16 DEF Store!Next

(* Setting the best block.                                                 *)
LEMMA SetBestBlockStep ==
    ASSUME IInv, NEW b \in Blocks, SetBestBlock(b)
    PROVE  IInv' /\ Store!Next
  <1>1. /\ open /\ open' = open /\ db' = db /\ tip' = tip /\ modifier' = modifier
        /\ view' = [view EXCEPT !.hashBlock = b]
    BY Zenon DEF SetBestBlock
  <1>2. /\ view' \in Cache
        /\ view'.coins = view.coins /\ view'.nullifiers = view.nullifiers
        /\ view'.anchors = view.anchors /\ view'.hashAnchor = view.hashAnchor
        /\ view'.hashBlock = b
    <2>1. view \in Cache
      BY Zenon DEF IInv, CacheOK
    <2>2. QED
      BY Zenon, <1>1, <2>1 DEF Cache
  <1>3. CacheOK(view', TipContents)
    BY SMTT(30), <1>2 DEF IInv, CacheOK, FreshOver, AgreesWith, TreesOver
  <1>4. /\ Contents(view', TipContents).coins = ViewContents.coins
        /\ Contents(view', TipContents).nullifiers = ViewContents.nullifiers
        /\ Contents(view', TipContents).anchors = ViewContents.anchors
        /\ Contents(view', TipContents).hashAnchor = ViewContents.hashAnchor
    BY ZenonT(60), <1>2 DEF ViewContents, Contents
  <1>5. Contents(view', TipContents).hashBlock = b
    BY SMTT(30), <1>2, ContentsFields, NullAssumption DEF Loaded
  <1>6. BestIsAnchor(Contents(view', TipContents))
    BY Zenon, <1>4, ReadableContents DEF IInv, BestIsAnchor
  <1>7. PulledThroughTip' /\ ClosedViewEmpty' /\ ModifierMarked'
    BY Zenon, <1>1, <1>2 DEF IInv, PulledThroughTip, ClosedViewEmpty, ModifierMarked
  <1>8. CacheOK(tip', DbContents) /\ Contents(tip', DbContents) = TipContents
    BY Zenon, <1>1 DEF IInv, TipContents
  <1>9. IInv' /\ DbContents' = DbContents /\ TipContents' = TipContents
             /\ ViewContents' = Contents(view', TipContents)
    BY Zenon, <1>1, <1>3, <1>6, <1>7, <1>8, WritingStep
  <1>10. ViewContents' \in Store!States /\ ViewContents \in Store!States
    BY Zenon, <1>2, <1>9, ShownType, ContentsType
  <1>11. Store!PutBestBlock(b)
    BY ZenonT(60), <1>4, <1>5, <1>9, <1>10 DEF Store!PutBestBlock, Store!States
  <1>12. QED
    BY Zenon, <1>9, <1>11 DEF Store!Next

(* The complete state that differs from old in anchor x and in the best    *)
(* anchor h of pool p.                                                     *)
ShowsAnchor(new, old, p, x, entered, h) ==
    /\ new.coins = old.coins
    /\ new.nullifiers = old.nullifiers
    /\ new.hashBlock = old.hashBlock
    /\ new.hashAnchor = [old.hashAnchor EXCEPT ![p] = h]
    /\ new.anchors = [old.anchors EXCEPT ![p] = IF entered THEN @ \cup {x} ELSE @ \ {x}]

(* A cache with a new entry for one anchor and a new best anchor.          *)
LEMMA PutAnchorKeeps ==
    ASSUME NEW cache, NEW base \in Store!States, CacheOK(cache, base), NEW p \in Pools, NEW x \in Roots,
           NEW h \in Roots, NEW e \in AnchorEntry, e.tree = x, x = EmptyRoot => e.entered,
           DIRTY \in e.flags, NEW new \in Cache,
           new.coins = cache.coins, new.nullifiers = cache.nullifiers, new.hashBlock = cache.hashBlock,
           new.anchors[p][x] = e,
           \A q \in Pools, r \in Roots : q # p \/ r # x => new.anchors[q][r] = cache.anchors[q][r],
           new.hashAnchor[p] = h, \A q \in Pools : q # p => new.hashAnchor[q] = cache.hashAnchor[q]
    PROVE  /\ CacheOK(new, base)
           /\ ShowsAnchor(Contents(new, base), Contents(cache, base), p, x, e.entered, h)
  <1>1. e # NoEntry
    BY Zenon, NoEntryAssumption
  <1>2. CacheOK(new, base)
    BY SMTT(30), <1>1 DEF CacheOK, FreshOver, AgreesWith, TreesOver
  <1>3. /\ Contents(new, base).coins = Contents(cache, base).coins
        /\ Contents(new, base).nullifiers = Contents(cache, base).nullifiers
        /\ Contents(new, base).hashBlock = Contents(cache, base).hashBlock
    BY SMTT(30) DEF Contents
  <1>4. Contents(new, base) \in Store!States /\ Contents(cache, base) \in Store!States
    BY Zenon, ContentsType DEF CacheOK
  <1>5. Contents(new, base).hashAnchor = [Contents(cache, base).hashAnchor EXCEPT ![p] = h]
    <2>1. \A q \in Pools : Contents(new, base).hashAnchor[q] =
             IF q = p THEN h ELSE Contents(cache, base).hashAnchor[q]
      BY SMTT(30), ContentsFields, NullAssumption DEF Loaded
    <2>2. QED
      BY Zenon, <1>4, <2>1 DEF Store!States
  <1>6. Contents(new, base).anchors =
           [Contents(cache, base).anchors EXCEPT ![p] = IF e.entered THEN @ \cup {x} ELSE @ \ {x}]
    <2>1. \A q \in Pools, r \in Roots : r \in Contents(new, base).anchors[q] <=>
             IF q = p /\ r = x THEN e.entered ELSE r \in Contents(cache, base).anchors[q]
      BY SMTT(30), <1>1, ContentsFields
    <2>2. /\ Contents(new, base).anchors \in [Pools -> SUBSET Roots]
          /\ Contents(cache, base).anchors \in [Pools -> SUBSET Roots]
      BY Zenon, <1>4 DEF Store!States
    <2>3. \A q \in Pools : Contents(new, base).anchors[q] =
             IF q = p THEN IF e.entered THEN Contents(cache, base).anchors[p] \cup {x}
                           ELSE Contents(cache, base).anchors[p] \ {x}
             ELSE Contents(cache, base).anchors[q]
      BY ZenonT(60), <2>1, <2>2
    <2>4. QED
      BY ZenonT(60), <2>2, <2>3
  <1>7. QED
    BY Zenon, <1>2, <1>3, <1>5, <1>6 DEF ShowsAnchor

(* A push leaves the anchor it enters as the best one; a pop removes an    *)
(* anchor and makes another one, still there, the best.                    *)
LEMMA AnchorShown ==
    ASSUME NEW new, NEW old \in Store!States, NEW p \in Pools, NEW x \in Roots, NEW h \in Roots,
           NEW entered \in BOOLEAN, ShowsAnchor(new, old, p, x, entered, h), BestIsAnchor(old),
           IF entered THEN h = x ELSE h # x /\ h \in old.anchors[p]
    PROVE  BestIsAnchor(new)
  <1>1. old.hashAnchor \in [Pools -> Roots] /\ old.anchors \in [Pools -> SUBSET Roots]
    BY Zenon DEF Store!States
  <1>2. ASSUME NEW q \in Pools PROVE new.hashAnchor[q] \in new.anchors[q]
    <2>1. /\ new.hashAnchor[q] = IF q = p THEN h ELSE old.hashAnchor[q]
          /\ new.anchors[q] = IF q # p THEN old.anchors[q]
                              ELSE IF entered THEN old.anchors[p] \cup {x} ELSE old.anchors[p] \ {x}
      BY Zenon, <1>1 DEF ShowsAnchor
    <2>2. old.hashAnchor[q] \in old.anchors[q]
      BY Zenon DEF BestIsAnchor
    <2>3. QED
      BY Zenon, <2>1, <2>2
  <1>3. QED
    BY Zenon, <1>2 DEF BestIsAnchor

(* The best anchor of the view is the one of the state it shows.           *)
LEMMA BestAnchorShown ==
    ASSUME IInv, NEW p \in Pools
    PROVE  /\ BestAnchor(p) = ViewContents.hashAnchor[p]
           /\ BestAnchor(p) = Loaded(view.hashAnchor[p], TipContents.hashAnchor[p])
           /\ BestAnchor(p) \in Roots
           /\ BestAnchor(p) \in ViewContents.anchors[p]
  <1>1. BestAnchor(p) = Loaded(view.hashAnchor[p], Loaded(tip.hashAnchor[p], DbContents.hashAnchor[p]))
    BY Zenon DEF BestAnchor, TipBestAnchor, DbContents
  <1>2. TipContents.hashAnchor[p] = Loaded(tip.hashAnchor[p], DbContents.hashAnchor[p])
    BY SMTT(30), ContentsFields DEF TipContents
  <1>3. ViewContents.hashAnchor[p] = Loaded(view.hashAnchor[p], TipContents.hashAnchor[p])
    BY SMTT(30), ContentsFields DEF ViewContents
  <1>4. ViewContents.hashAnchor[p] \in Roots
    BY Zenon, ShownType DEF Store!States
  <1>5. BestAnchor(p) \in ViewContents.anchors[p]
    BY Zenon DEF IInv, BestAnchorReadable
  <1>6. QED
    BY Zenon, <1>1, <1>2, <1>3, <1>4, <1>5

(* Setting the best anchor to what it is changes nothing that is shown.    *)
LEMMA SameAnchor ==
    ASSUME IInv, NEW p \in Pools, UNCHANGED <<db, open, modifier>>, open,
           tip' = TipLoadedAnchor(tip, p), view' = [view EXCEPT !.hashAnchor[p] = BestAnchor(p)]
    PROVE  IInv' /\ UNCHANGED Shown
  <1>1. /\ view' \in Cache /\ view'.coins = view.coins /\ view'.nullifiers = view.nullifiers
        /\ view'.anchors = view.anchors /\ view'.hashBlock = view.hashBlock
        /\ view'.hashAnchor = [view.hashAnchor EXCEPT ![p] = BestAnchor(p)]
    BY Zenon, BestAnchorShown DEF IInv, CacheOK, Cache
  <1>2. \A q \in Pools :
           view'.hashAnchor[q] \in {view.hashAnchor[q], Loaded(view.hashAnchor[q], TipContents.hashAnchor[q])}
    BY ZenonT(60), <1>1, BestAnchorShown DEF IInv, CacheOK, Cache
  <1>3. CacheOK(tip', DbContents) /\ Contents(tip', DbContents) = TipContents /\ tip'.coins = tip.coins
    BY Zenon, TipLoadedAnchorKeeps DEF IInv, TipContents
  <1>4. CacheOK(view', TipContents) /\ Contents(view', TipContents) = ViewContents
    BY Zenon, <1>1, <1>2, ShownType, LoadKeeps DEF IInv, ViewContents
  <1>5. PulledThroughTip' /\ ClosedViewEmpty' /\ ModifierMarked'
    BY ZenonT(60), <1>1, <1>3 DEF IInv, PulledThroughTip, ClosedViewEmpty, ModifierMarked
  <1>6. QED
    BY Zenon, <1>3, <1>4, <1>5, FillingStep

(* Reading the best anchor.                                                *)
LEMMA GetBestAnchorStep ==
    ASSUME IInv, NEW p \in Pools, GetBestAnchor(p)
    PROVE  IInv' /\ UNCHANGED Shown
  BY Zenon, SameAnchor DEF GetBestAnchor

(* PushAnchor enters an anchor and makes it best, or changes nothing.      *)
LEMMA PushAnchorStep ==
    ASSUME IInv, NEW p \in Pools, NEW r \in Roots, PushAnchor(p, r)
    PROVE  IInv' /\ (Store!Next \/ UNCHANGED Shown)
  <1>1. open /\ open' = open /\ db' = db /\ modifier' = modifier /\ tip' = TipLoadedAnchor(tip, p)
    BY Zenon DEF PushAnchor
  <1>2. CASE BestAnchor(p) = r
    <2>1. view' = [view EXCEPT !.hashAnchor[p] = BestAnchor(p)]
      BY Zenon, <1>2 DEF PushAnchor
    <2>2. QED
      BY Zenon, <1>1, <2>1, SameAnchor
  <1>3. CASE BestAnchor(p) # r
    <2> DEFINE e == [entered |-> TRUE, tree |-> r, flags |-> {DIRTY}]
    <2>1. view' = [view EXCEPT !.anchors[p][r] = e, !.hashAnchor[p] = r]
      BY Zenon, <1>3 DEF PushAnchor
    <2>2. e \in AnchorEntry /\ e.entered /\ e.tree = r /\ DIRTY \in e.flags
      BY Zenon DEF AnchorEntry
    <2> HIDE DEF e
    <2>3. /\ view' \in Cache
          /\ view'.coins = view.coins /\ view'.nullifiers = view.nullifiers /\ view'.hashBlock = view.hashBlock
          /\ view'.anchors = [view.anchors EXCEPT ![p][r] = e]
          /\ view'.hashAnchor = [view.hashAnchor EXCEPT ![p] = r]
      BY Zenon, <2>1, <2>2 DEF IInv, CacheOK, Cache
    <2>4. /\ view'.anchors[p][r] = e
          /\ \A q \in Pools, x \in Roots : q # p \/ x # r => view'.anchors[q][x] = view.anchors[q][x]
          /\ view'.hashAnchor[p] = r
          /\ \A q \in Pools : q # p => view'.hashAnchor[q] = view.hashAnchor[q]
      BY SMTT(30), <2>3 DEF IInv, CacheOK, Cache
    <2>5. view' \in Cache /\ view'.coins = view.coins /\ view'.nullifiers = view.nullifiers
          /\ view'.hashBlock = view.hashBlock
      BY Zenon, <2>3
    <2>6. /\ CacheOK(view', TipContents)
          /\ ShowsAnchor(Contents(view', TipContents), ViewContents, p, r, e.entered, r)
      <3>1. CacheOK(view, TipContents) /\ TipContents \in Store!States
        BY Zenon, ShownType DEF IInv
      <3>2. QED
        BY Zenon, <2>2, <2>4, <2>5, <3>1, PutAnchorKeeps DEF ViewContents
    <2>7. BestIsAnchor(Contents(view', TipContents))
      <3>1. BestIsAnchor(ViewContents)
        BY Zenon, ReadableContents DEF IInv
      <3>2. QED
        BY Zenon, <2>2, <2>6, <3>1, ShownType, AnchorShown
    <2>8. CacheOK(tip', DbContents) /\ Contents(tip', DbContents) = TipContents /\ tip'.coins = tip.coins
      BY Zenon, <1>1, TipLoadedAnchorKeeps DEF IInv, TipContents
    <2>9. PulledThroughTip' /\ ClosedViewEmpty' /\ ModifierMarked'
      BY Zenon, <1>1, <2>5, <2>8 DEF IInv, PulledThroughTip, ClosedViewEmpty, ModifierMarked
    <2>10. IInv' /\ DbContents' = DbContents /\ TipContents' = TipContents
                /\ ViewContents' = Contents(view', TipContents)
      BY Zenon, <1>1, <2>6, <2>7, <2>8, <2>9, WritingStep
    <2>11. ViewContents' \in Store!States /\ ViewContents \in Store!States
      BY Zenon, <2>5, <2>10, ShownType, ContentsType
    <2>12. Store!AddAnchor(p, r)
      <3>1. ViewContents'.anchors = [ViewContents.anchors EXCEPT ![p] = @ \cup {r}]
        BY Zenon, <2>2, <2>6, <2>10 DEF ShowsAnchor
      <3>2. QED
        BY ZenonT(60), <2>6, <2>10, <2>11, <3>1 DEF ShowsAnchor, Store!AddAnchor, Store!States
    <2>13. QED
      BY Zenon, <2>10, <2>12 DEF Store!Next
  <1>4. QED
    BY Zenon, <1>2, <1>3

(* PopAnchor, under its contract, drops the best anchor and goes back to   *)
(* an older one, or changes nothing.                                       *)
LEMMA PopAnchorStep ==
    ASSUME IInv, NEW p \in Pools, NEW r \in Roots, PopAnchor(p, r)
    PROVE  IInv' /\ (Store!Next \/ UNCHANGED Shown)
  <1> DEFINE best == BestAnchor(p)
             asked == TipAskedAnchor(p, best)
             found == CacheGetAnchor(asked, p, best)
             brought == FetchAnchor(view, p, best, found)
             e == [entered |-> FALSE, tree |-> brought.anchors[p][best].tree, flags |-> {DIRTY}]
  <1>1. open /\ open' = open /\ db' = db /\ modifier' = modifier /\ PopAnchorContract(p, r)
    BY Zenon DEF PopAnchor
  <1>2. CASE best = r
    <2>1. tip' = TipLoadedAnchor(tip, p) /\ view' = [view EXCEPT !.hashAnchor[p] = best]
      BY Zenon, <1>2 DEF PopAnchor
    <2>2. QED
      BY Zenon, <1>1, <2>1, SameAnchor
  <1>3. CASE best # r
    <2>1. /\ tip' = TipLoadedAnchor(asked, p)
          /\ view' = [brought EXCEPT !.anchors[p][best] = e, !.hashAnchor[p] = r]
      BY Zenon, <1>3 DEF PopAnchor
    <2>2. best \in Roots /\ best \in ViewContents.anchors[p] /\ best = ViewContents.hashAnchor[p]
      BY Zenon, BestAnchorShown
    <2>3. best # EmptyRoot /\ ViewGetAnchor(p, r) # NoEntry
      BY Zenon, <1>1, <1>3 DEF PopAnchorContract
    <2> HIDE DEF best
    <2>4. /\ CacheOK(asked, DbContents)
          /\ Contents(asked, DbContents) = TipContents
          /\ asked.coins = tip.coins /\ asked.hashAnchor = tip.hashAnchor
          /\ found \in Roots \cup {NoEntry}
          /\ found = NoEntry \/ (found = best /\ best \in TipContents.anchors[p])
          /\ (view.anchors[p][best] = NoEntry /\ best \in TipContents.anchors[p]) => found = best
      BY ZenonT(60), <2>2, TipAskedAnchorKeeps
    <2> HIDE DEF asked, found
    <2>5. /\ CacheOK(brought, TipContents)
          /\ Contents(brought, TipContents) = ViewContents
          /\ brought.coins = view.coins
          /\ found # NoEntry => brought.anchors[p][best] # NoEntry
      BY SMTT(30), <2>2, <2>4, FetchAnchorKeeps DEF IInv, ViewContents
    <2>6. brought.anchors[p][best] # NoEntry
      <3>1. CASE view.anchors[p][best] # NoEntry
        BY Zenon, <3>1 DEF FetchAnchor
      <3>2. CASE view.anchors[p][best] = NoEntry
        <4>1. best \in TipContents.anchors[p]
          BY ZenonT(60), <2>2, <3>2, ContentsFields DEF ViewContents
        <4>2. QED
          BY Zenon, <2>2, <2>4, <2>5, <3>2, <4>1, NoEntryAssumption
      <3>3. QED
        BY Zenon, <3>1, <3>2
    <2> HIDE DEF brought
    <2>7. brought.anchors[p][best].tree = best
      BY Zenon, <2>2, <2>5, <2>6 DEF CacheOK, TreesOver
    <2>8. e \in AnchorEntry /\ ~e.entered /\ e.tree = best /\ DIRTY \in e.flags
      BY Zenon, <2>2, <2>7 DEF AnchorEntry
    <2> HIDE DEF e
    <2>9. /\ view' \in Cache
          /\ view'.coins = brought.coins /\ view'.nullifiers = brought.nullifiers
          /\ view'.hashBlock = brought.hashBlock
          /\ view'.anchors = [brought.anchors EXCEPT ![p][best] = e]
          /\ view'.hashAnchor = [brought.hashAnchor EXCEPT ![p] = r]
      BY ZenonT(60), <2>1, <2>2, <2>5, <2>8 DEF CacheOK, Cache
    <2>10. /\ view'.anchors[p][best] = e
           /\ \A q \in Pools, x \in Roots : q # p \/ x # best => view'.anchors[q][x] = brought.anchors[q][x]
           /\ view'.hashAnchor[p] = r
           /\ \A q \in Pools : q # p => view'.hashAnchor[q] = brought.hashAnchor[q]
      BY SMTT(30), <2>2, <2>5, <2>9 DEF CacheOK, Cache
    <2>11. view' \in Cache /\ view'.coins = brought.coins /\ view'.nullifiers = brought.nullifiers
           /\ view'.hashBlock = brought.hashBlock
      BY Zenon, <2>9
    <2>12. /\ CacheOK(view', TipContents)
           /\ ShowsAnchor(Contents(view', TipContents), ViewContents, p, best, e.entered, r)
      <3>1. TipContents \in Store!States
        BY Zenon, ShownType
      <3>2. QED
        BY ZenonT(60), <2>2, <2>3, <2>5, <2>8, <2>10, <2>11, <3>1, PutAnchorKeeps
    <2>13. Contents(view', TipContents).anchors = [ViewContents.anchors EXCEPT ![p] = @ \ {best}]
      BY Zenon, ZenonT(30), <2>8, <2>12 DEF ShowsAnchor
    <2>14. r \in ViewContents.anchors[p]
      <3> DEFINE answer == CacheGetAnchor(TipAskedAnchor(p, r), p, r)
                 read == FetchAnchor(view, p, r, answer)
      <3>1. CacheOK(read, TipContents) /\ Contents(read, TipContents) = ViewContents
        BY SMTT(30), TipAskedAnchorKeeps, FetchAnchorKeeps DEF IInv, ViewContents
      <3>2. read.anchors[p][r] # NoEntry /\ read.anchors[p][r].entered
        BY Zenon, <2>3 DEF ViewGetAnchor, CacheGetAnchor
      <3> HIDE DEF read
      <3>3. QED
        BY Zenon, <3>1, <3>2, ContentsFields
    <2>15. BestIsAnchor(Contents(view', TipContents))
      <3>1. BestIsAnchor(ViewContents)
        BY Zenon, ReadableContents DEF IInv
      <3>2. QED
        <4>1. e.entered \in BOOLEAN /\ r # best
          BY Zenon, <1>3, <2>8 DEF AnchorEntry, best
        <4>2. QED
          BY Zenon, <2>2, <2>8, <2>12, <2>14, <3>1, <4>1, ShownType, AnchorShown
    <2>16. CacheOK(tip', DbContents) /\ Contents(tip', DbContents) = TipContents /\ tip'.coins = tip.coins
      BY Zenon, <2>1, <2>4, TipLoadedAnchorKeeps DEF IInv, TipContents
    <2>17. PulledThroughTip' /\ ClosedViewEmpty' /\ ModifierMarked'
      BY Zenon, <1>1, <2>5, <2>11, <2>16 DEF IInv, PulledThroughTip, ClosedViewEmpty, ModifierMarked
    <2>18. IInv' /\ DbContents' = DbContents /\ TipContents' = TipContents
                /\ ViewContents' = Contents(view', TipContents)
      BY Zenon, ZenonT(30), <1>1, <2>12, <2>15, <2>16, <2>17, WritingStep
    <2>19. ViewContents' \in Store!States /\ ViewContents \in Store!States
      BY Zenon, <2>11, <2>18, ShownType, ContentsType
    <2>20. Store!DropAnchor(p, r)
      BY ZenonT(60), <1>3, <2>2, <2>12, <2>13, <2>14, <2>18, <2>19 DEF ShowsAnchor, Store!DropAnchor, Store!States
    <2>21. QED
      BY Zenon, <2>18, <2>20 DEF Store!Next
  <1>4. QED
    BY Zenon, <1>2, <1>3


-----------------------------------------------------------------------------
(* Flushes and the life of the views.                                      *)

(* A cache that was flushed shows its base, with its own hashes.           *)
LEMMA ClearedKeeps ==
    ASSUME NEW cache \in Cache, NEW base \in Store!States,
           base.hashBlock = Loaded(cache.hashBlock, base.hashBlock),
           \A p \in Pools : base.hashAnchor[p] = Loaded(cache.hashAnchor[p], base.hashAnchor[p])
    PROVE  /\ CacheOK(Cleared(cache), base)
           /\ Contents(Cleared(cache), base) = base
           /\ \A t \in Txids : Cleared(cache).coins[t] = NoEntry
  <1> DEFINE new == Cleared(cache)
  <1>1. new \in Cache
    BY Zenon, ClearedType
  <1>2. /\ \A t \in Txids : new.coins[t] = NoEntry
        /\ \A n \in Nullifiers : new.nullifiers[n] = NoEntry
        /\ \A p \in Pools, r \in Roots : new.anchors[p][r] = NoEntry
        /\ new.hashBlock = cache.hashBlock /\ new.hashAnchor = cache.hashAnchor
    BY Zenon DEF Cleared, EmptyCache, Cache
  <1> HIDE DEF new
  <1>3. CacheOK(new, base)
    BY Zenon, <1>1, <1>2 DEF CacheOK, FreshOver, AgreesWith, TreesOver
  <1>4. Contents(new, base) \in Store!States
    BY Zenon, <1>1, ContentsType
  <1>5. Contents(new, base) = base
    BY SMTT(30), <1>2, <1>4, ContentsFields, SameState
  <1>6. QED
    BY Zenon, <1>2, <1>3, <1>5 DEF new

(* CCoinsViewCache::BatchWrite: the tip then shows what the view showed.   *)
LEMMA BatchWriteKeeps ==
    ASSUME IInv, FlushContract
    PROVE  CacheOK(BatchWrite, DbContents) /\ Contents(BatchWrite, DbContents) = ViewContents
  <1> DEFINE new == BatchWrite
  <1>1. new \in Cache
    BY Zenon, BatchWriteType, IInvImplies
  <1>2. /\ \A t \in Txids : new.coins[t] = WriteCoins(tip.coins[t], view.coins[t])
        /\ \A n \in Nullifiers : new.nullifiers[n] = WriteNullifier(tip.nullifiers[n], view.nullifiers[n])
        /\ \A p \in Pools, r \in Roots : new.anchors[p][r] = WriteAnchor(tip.anchors[p][r], view.anchors[p][r])
        /\ new.hashBlock = view.hashBlock /\ new.hashAnchor = view.hashAnchor
    BY Zenon DEF BatchWrite
  <1> HIDE DEF new
  <1>3. ASSUME NEW t \in Txids
        PROVE  /\ new.coins[t] # NoEntry /\ FRESH \in new.coins[t].flags => DbContents.coins[t] = Pruned
               /\ new.coins[t] # NoEntry /\ DIRTY \notin new.coins[t].flags
                     => new.coins[t].coins = DbContents.coins[t]
               /\ Contents(new, DbContents).coins[t] = ViewContents.coins[t]
    <2>1. /\ tip.coins[t] \in CoinsEntry \cup {NoEntry}
          /\ view.coins[t] \in CoinsEntry \cup {NoEntry}
      BY Zenon DEF IInv, CacheOK, Cache
    <2>2. TipContents.coins[t] = IF tip.coins[t] = NoEntry THEN DbContents.coins[t] ELSE tip.coins[t].coins
      BY SMTT(30), ContentsFields DEF TipContents
    <2>3. ViewContents.coins[t] = IF view.coins[t] = NoEntry THEN TipContents.coins[t] ELSE view.coins[t].coins
      BY SMTT(30), ContentsFields DEF ViewContents
    <2>4. /\ tip.coins[t] # NoEntry /\ FRESH \in tip.coins[t].flags => DbContents.coins[t] = Pruned
          /\ tip.coins[t] # NoEntry /\ DIRTY \notin tip.coins[t].flags
                => tip.coins[t].coins = DbContents.coins[t]
          /\ view.coins[t] # NoEntry /\ FRESH \in view.coins[t].flags => TipContents.coins[t] = Pruned
          /\ view.coins[t] # NoEntry /\ DIRTY \notin view.coins[t].flags
                => view.coins[t].coins = TipContents.coins[t]
          /\ view.coins[t] # NoEntry /\ FRESH \notin view.coins[t].flags => tip.coins[t] # NoEntry
      BY Zenon DEF IInv, CacheOK, FreshOver, AgreesWith, PulledThroughTip
    <2>5. Contents(new, DbContents).coins[t] =
             IF new.coins[t] = NoEntry THEN DbContents.coins[t] ELSE new.coins[t].coins
      BY SMTT(30), ContentsFields
    <2>6. CASE view.coins[t] = NoEntry \/ DIRTY \notin view.coins[t].flags
      <3>1. new.coins[t] = tip.coins[t]
        BY Zenon, <1>2, <2>6 DEF WriteCoins
      <3>2. QED
        BY Zenon, <2>2, <2>3, <2>4, <2>5, <2>6, <3>1
    <2>7. CASE view.coins[t] # NoEntry /\ DIRTY \in view.coins[t].flags /\ tip.coins[t] = NoEntry
      <3>1. DbContents.coins[t] = Pruned
        BY Zenon, <2>2, <2>4, <2>7
      <3>2. CASE view.coins[t].coins = Pruned
        <4>1. new.coins[t] = NoEntry
          BY Zenon, <1>2, <2>7, <3>2 DEF WriteCoins
        <4>2. QED
          BY ZenonT(60), <2>3, <2>5, <2>7, <3>1, <3>2, <4>1
      <3>3. CASE view.coins[t].coins # Pruned
        <4>1. new.coins[t] = [coins |-> view.coins[t].coins, flags |-> {DIRTY, FRESH}]
          BY Zenon, <1>2, <2>7, <3>3 DEF WriteCoins
        <4>2. new.coins[t] # NoEntry
          <5>1. new.coins[t] \in CoinsEntry
            BY SMTT(30), <2>1, <2>7, <4>1 DEF CoinsEntry
          <5>2. QED
            BY Zenon, <5>1, NoEntryAssumption
        <4>3. new.coins[t].coins = view.coins[t].coins /\ DIRTY \in new.coins[t].flags
          BY SMTT(30), <4>1
        <4>4. QED
          BY Zenon, <2>3, <2>5, <2>7, <3>1, <4>2, <4>3
      <3>4. QED
        BY Zenon, <3>2, <3>3
    <2>8. CASE view.coins[t] # NoEntry /\ DIRTY \in view.coins[t].flags /\ tip.coins[t] # NoEntry
      <3>1. CASE FRESH \in tip.coins[t].flags /\ view.coins[t].coins = Pruned
        <4>1. new.coins[t] = NoEntry
          BY Zenon, <1>2, <2>8, <3>1 DEF WriteCoins
        <4>2. QED
          BY Zenon, <2>3, <2>4, <2>5, <2>8, <3>1, <4>1
      <3>2. CASE ~(FRESH \in tip.coins[t].flags /\ view.coins[t].coins = Pruned)
        <4>1. new.coins[t] = [coins |-> view.coins[t].coins, flags |-> tip.coins[t].flags \cup {DIRTY}]
          BY Zenon, <1>2, <2>8, <3>2 DEF WriteCoins
        <4>2. new.coins[t] # NoEntry
          <5>1. new.coins[t] \in CoinsEntry
            BY SMTT(30), <2>1, <2>8, <4>1 DEF CoinsEntry
          <5>2. QED
            BY Zenon, <5>1, NoEntryAssumption
        <4>3. /\ new.coins[t].coins = view.coins[t].coins
              /\ DIRTY \in new.coins[t].flags
              /\ FRESH \in new.coins[t].flags => FRESH \in tip.coins[t].flags
          BY SMTT(30), <4>1 DEF DIRTY, FRESH
        <4>4. QED
          BY Zenon, <2>3, <2>4, <2>5, <2>8, <4>2, <4>3
      <3>3. QED
        BY Zenon, <3>1, <3>2
    <2>9. QED
      BY Zenon, <2>6, <2>7, <2>8
  <1>4. ASSUME NEW n \in Nullifiers
        PROVE  /\ new.nullifiers[n] # NoEntry /\ DIRTY \notin new.nullifiers[n].flags
                     => (new.nullifiers[n].entered <=> n \in DbContents.nullifiers)
               /\ n \in Contents(new, DbContents).nullifiers <=> n \in ViewContents.nullifiers
    <2>1. /\ tip.nullifiers[n] \in NullifierEntry \cup {NoEntry}
          /\ view.nullifiers[n] \in NullifierEntry \cup {NoEntry}
      BY Zenon DEF IInv, CacheOK, Cache
    <2>2. /\ n \in TipContents.nullifiers <=>
                IF tip.nullifiers[n] = NoEntry THEN n \in DbContents.nullifiers ELSE tip.nullifiers[n].entered
          /\ n \in ViewContents.nullifiers <=>
                IF view.nullifiers[n] = NoEntry THEN n \in TipContents.nullifiers ELSE view.nullifiers[n].entered
          /\ n \in Contents(new, DbContents).nullifiers <=>
                IF new.nullifiers[n] = NoEntry THEN n \in DbContents.nullifiers ELSE new.nullifiers[n].entered
      BY Zenon, ContentsFields DEF TipContents, ViewContents
    <2>3. /\ tip.nullifiers[n] # NoEntry /\ DIRTY \notin tip.nullifiers[n].flags
                => (tip.nullifiers[n].entered <=> n \in DbContents.nullifiers)
          /\ view.nullifiers[n] # NoEntry /\ DIRTY \notin view.nullifiers[n].flags
                => (view.nullifiers[n].entered <=> n \in TipContents.nullifiers)
      BY Zenon DEF IInv, CacheOK, AgreesWith
    <2>4. CASE \/ view.nullifiers[n] = NoEntry \/ DIRTY \notin view.nullifiers[n].flags
               \/ tip.nullifiers[n] # NoEntry /\ tip.nullifiers[n].entered = view.nullifiers[n].entered
      <3>1. new.nullifiers[n] = tip.nullifiers[n]
        BY Zenon, <1>2, <2>4 DEF WriteNullifier
      <3>2. QED
        BY Zenon, <2>2, <2>3, <2>4, <3>1
    <2>5. CASE /\ view.nullifiers[n] # NoEntry /\ DIRTY \in view.nullifiers[n].flags
               /\ tip.nullifiers[n] # NoEntry => tip.nullifiers[n].entered # view.nullifiers[n].entered
      <3>1. new.nullifiers[n] = [entered |-> view.nullifiers[n].entered, flags |-> {DIRTY}]
        BY Zenon, <1>2, <2>5 DEF WriteNullifier
      <3>2. new.nullifiers[n] # NoEntry
        <4>1. new.nullifiers[n] \in NullifierEntry
          BY Zenon, <2>1, <2>5, <3>1 DEF NullifierEntry
        <4>2. QED
          BY Zenon, <4>1, NoEntryAssumption
      <3>3. QED
        BY SMTT(30), <2>2, <2>5, <3>1, <3>2
    <2>6. QED
      BY Zenon, <2>4, <2>5
  <1>5. ASSUME NEW p \in Pools, NEW r \in Roots
        PROVE  /\ new.anchors[p][r] # NoEntry /\ DIRTY \notin new.anchors[p][r].flags
                     => (new.anchors[p][r].entered <=> r \in DbContents.anchors[p])
               /\ new.anchors[p][r] # NoEntry
                     => /\ new.anchors[p][r].tree = r
                        /\ r = EmptyRoot => new.anchors[p][r].entered
               /\ r \in Contents(new, DbContents).anchors[p] <=> r \in ViewContents.anchors[p]
    <2> DEFINE parent == tip.anchors[p][r]
               child == view.anchors[p][r]
               result == new.anchors[p][r]
    <2>1. parent \in AnchorEntry \cup {NoEntry} /\ child \in AnchorEntry \cup {NoEntry}
      BY SMTT(30) DEF IInv, CacheOK, Cache
    <2>2. /\ r \in TipContents.anchors[p] <=> IF parent = NoEntry THEN r \in DbContents.anchors[p] ELSE parent.entered
          /\ r \in ViewContents.anchors[p] <=> IF child = NoEntry THEN r \in TipContents.anchors[p] ELSE child.entered
          /\ r \in Contents(new, DbContents).anchors[p] <=>
                IF result = NoEntry THEN r \in DbContents.anchors[p] ELSE result.entered
      BY Zenon, ContentsFields DEF TipContents, ViewContents
    <2>3. /\ parent # NoEntry /\ DIRTY \notin parent.flags => (parent.entered <=> r \in DbContents.anchors[p])
          /\ child # NoEntry /\ DIRTY \notin child.flags => (child.entered <=> r \in TipContents.anchors[p])
          /\ parent # NoEntry => parent.tree = r /\ (r = EmptyRoot => parent.entered)
          /\ child # NoEntry => child.tree = r /\ (r = EmptyRoot => child.entered)
      BY Zenon DEF IInv, CacheOK, AgreesWith, TreesOver
    <2>4. result = WriteAnchor(parent, child)
      BY Zenon, <1>2
    <2> HIDE DEF parent, child, result
    <2>5. CASE \/ child = NoEntry \/ DIRTY \notin child.flags
               \/ parent # NoEntry /\ parent.entered = child.entered
      <3>1. result = parent
        BY Zenon, <2>4, <2>5 DEF WriteAnchor
      <3>2. QED
        BY Zenon, <2>2, <2>3, <2>5, <3>1 DEF result
    <2>6. CASE /\ child # NoEntry /\ DIRTY \in child.flags
               /\ parent # NoEntry => parent.entered # child.entered
      <3>1. result = [entered |-> child.entered, tree |-> r, flags |-> {DIRTY}]
        BY Zenon, <2>3, <2>4, <2>6 DEF WriteAnchor
      <3>2. result # NoEntry
        <4>1. result \in AnchorEntry
          BY Zenon, <2>1, <2>6, <3>1 DEF AnchorEntry
        <4>2. QED
          BY Zenon, <4>1, NoEntryAssumption
      <3>3. QED
        BY SMTT(30), <2>2, <2>3, <2>6, <3>1, <3>2 DEF result
    <2>7. QED
      BY Zenon, <2>5, <2>6
  <1>6. CacheOK(new, DbContents)
    BY Zenon, <1>1, <1>3, <1>4, <1>5 DEF CacheOK, FreshOver, AgreesWith, TreesOver
  <1>7. Contents(new, DbContents) \in Store!States /\ ViewContents \in Store!States
    BY Zenon, <1>1, ShownType, ContentsType
  <1>8. Contents(new, DbContents).hashBlock = ViewContents.hashBlock
    BY SMTT(30), <1>2, ContentsFields DEF FlushContract, TipContents, ViewContents, DbContents, Loaded
  <1>9. \A p \in Pools : Contents(new, DbContents).hashAnchor[p] = ViewContents.hashAnchor[p]
    BY SMTT(30), <1>2, ContentsFields DEF FlushContract, TipContents, ViewContents, DbContents, Loaded
  <1>10. Contents(new, DbContents) = ViewContents
    BY ZenonT(60), <1>3, <1>4, <1>5, <1>7, <1>8, <1>9, SameState
  <1>11. QED
    BY Zenon, <1>6, <1>10 DEF new

(* Flushing the view commits what it shows.                                *)
LEMMA FlushStep ==
    ASSUME IInv, Flush
    PROVE  IInv' /\ Store!Next
  <1>1. /\ open /\ open' = open /\ db' = db /\ modifier = NoModifier /\ modifier' = modifier
        /\ tip' = BatchWrite /\ view' = Cleared(view) /\ FlushContract
    BY Zenon DEF Flush
  <1>2. CacheOK(tip', DbContents) /\ Contents(tip', DbContents) = ViewContents
    BY Zenon, <1>1, BatchWriteKeeps
  <1>3. DbOK' /\ DbContents' = DbContents
    BY Zenon, <1>1 DEF IInv, DbOK, DbContents
  <1>4. TipContents' = ViewContents
    BY Zenon, <1>2, <1>3 DEF TipContents
  <1>5. /\ ViewContents \in Store!States
        /\ ViewContents.hashBlock = Loaded(view.hashBlock, ViewContents.hashBlock)
        /\ \A p \in Pools : ViewContents.hashAnchor[p] = Loaded(view.hashAnchor[p], ViewContents.hashAnchor[p])
    BY SMTT(30), ShownType, ContentsFields DEF ViewContents, Loaded
  <1>6. /\ CacheOK(view', ViewContents)
        /\ Contents(view', ViewContents) = ViewContents
        /\ \A t \in Txids : view'.coins[t] = NoEntry
    BY Zenon, <1>1, <1>5, ClearedKeeps DEF IInv, CacheOK
  <1>7. ViewContents' = ViewContents
    BY Zenon, <1>4, <1>6 DEF ViewContents
  <1>8. BestAnchorReadable'
    BY Zenon, <1>3, <1>4, <1>7, ReadableContents DEF IInv
  <1>9. CacheOK(tip, DbContents)' /\ CacheOK(view, TipContents)'
    <2>1. CacheOK(tip, DbContents)' <=> CacheOK(tip', DbContents')
      BY Zenon DEF CacheOK, FreshOver, AgreesWith, TreesOver
    <2>2. CacheOK(view, TipContents)' <=> CacheOK(view', TipContents')
      BY Zenon DEF CacheOK, FreshOver, AgreesWith, TreesOver
    <2>3. QED
      BY Zenon, <1>2, <1>3, <1>4, <1>6, <2>1, <2>2
  <1>10. PulledThroughTip' /\ ClosedViewEmpty' /\ ModifierMarked'
    BY Zenon, <1>1, <1>6 DEF PulledThroughTip, ClosedViewEmpty, ModifierMarked
  <1>11. IInv'
    BY Zenon, <1>1, <1>3, <1>8, <1>9, <1>10 DEF IInv
  <1>12. Store!Commit
    BY Zenon, <1>3, <1>4, <1>7 DEF Store!Commit
  <1>13. QED
    BY Zenon, <1>11, <1>12 DEF Store!Next

(* The batch makes the database hold what the tip shows.                   *)
LEMMA DbBatchWriteKeeps ==
    ASSUME IInv, db' = DbBatchWrite
    PROVE  DbOK' /\ DbContents' = TipContents
  <1>1. db' \in Database
    BY Zenon, DbBatchWriteType, IInvImplies
  <1>2. /\ \A t \in Txids : db'.coins[t] = IF tip.coins[t] = NoEntry \/ DIRTY \notin tip.coins[t].flags
                                          THEN db.coins[t] ELSE tip.coins[t].coins
        /\ \A n \in Nullifiers : n \in db'.nullifiers <=>
              IF tip.nullifiers[n] = NoEntry \/ DIRTY \notin tip.nullifiers[n].flags
              THEN n \in db.nullifiers ELSE tip.nullifiers[n].entered
        /\ \A p \in Pools, r \in Roots : db'.anchors[p][r] =
              IF \/ tip.anchors[p][r] = NoEntry
                 \/ DIRTY \notin tip.anchors[p][r].flags
                 \/ r = EmptyRoot
              THEN db.anchors[p][r]
              ELSE CacheGetAnchor(tip, p, r)
        /\ db'.hashBlock = Loaded(tip.hashBlock, db.hashBlock)
        /\ \A p \in Pools : db'.hashAnchor[p] = Loaded(tip.hashAnchor[p], db.hashAnchor[p])
    BY Zenon DEF DbBatchWrite
  <1>3. /\ DbContents'.coins = db'.coins
        /\ DbContents'.nullifiers = db'.nullifiers
        /\ \A p \in Pools, r \in Roots : r \in DbContents'.anchors[p] <=> db'.anchors[p][r] # NoEntry
        /\ DbContents'.hashBlock = db'.hashBlock
        /\ DbContents'.hashAnchor = db'.hashAnchor
    BY Zenon DEF DbContents
  <1>4. DbContents' \in Store!States
    BY Zenon, <1>1 DEF Database, DbContents, Store!States
  <1>5. ASSUME NEW t \in Txids PROVE DbContents'.coins[t] = TipContents.coins[t]
    <2>1. tip.coins[t] # NoEntry /\ DIRTY \notin tip.coins[t].flags => tip.coins[t].coins = db.coins[t]
      BY Zenon DEF IInv, CacheOK, AgreesWith, DbContents
    <2>2. TipContents.coins[t] = IF tip.coins[t] = NoEntry THEN db.coins[t] ELSE tip.coins[t].coins
      BY SMTT(30), ContentsFields DEF TipContents, DbContents
    <2>3. QED
      BY ZenonT(60), <1>2, <1>3, <2>1, <2>2
  <1>6. ASSUME NEW n \in Nullifiers PROVE n \in DbContents'.nullifiers <=> n \in TipContents.nullifiers
    <2>1. tip.nullifiers[n] # NoEntry /\ DIRTY \notin tip.nullifiers[n].flags
             => (tip.nullifiers[n].entered <=> n \in db.nullifiers)
      BY Zenon DEF IInv, CacheOK, AgreesWith, DbContents
    <2>2. n \in TipContents.nullifiers <=>
             IF tip.nullifiers[n] = NoEntry THEN n \in db.nullifiers ELSE tip.nullifiers[n].entered
      BY SMTT(30), ContentsFields DEF TipContents, DbContents
    <2>3. QED
      BY Zenon, <1>2, <1>3, <2>1, <2>2
  <1>7. ASSUME NEW p \in Pools, NEW r \in Roots
        PROVE  /\ r \in DbContents'.anchors[p] <=> r \in TipContents.anchors[p]
               /\ db'.anchors[p][r] \in {r, NoEntry}
               /\ r = EmptyRoot => db'.anchors[p][r] # NoEntry
    <2>1. /\ tip.anchors[p][r] # NoEntry /\ DIRTY \notin tip.anchors[p][r].flags
                => (tip.anchors[p][r].entered <=> db.anchors[p][r] # NoEntry)
          /\ tip.anchors[p][r] # NoEntry => tip.anchors[p][r].tree = r /\ (r = EmptyRoot => tip.anchors[p][r].entered)
      BY ZenonT(60) DEF IInv, CacheOK, AgreesWith, TreesOver, DbContents
    <2>2. r \in TipContents.anchors[p] <=>
             IF tip.anchors[p][r] = NoEntry THEN db.anchors[p][r] # NoEntry ELSE tip.anchors[p][r].entered
      BY SMTT(30), ContentsFields DEF TipContents, DbContents
    <2>3. db.anchors[p][r] \in {r, NoEntry} /\ (r = EmptyRoot => db.anchors[p][r] # NoEntry)
      BY Zenon DEF IInv, DbOK
    <2>4. CacheGetAnchor(tip, p, r) = IF tip.anchors[p][r] # NoEntry /\ tip.anchors[p][r].entered
                                      THEN r ELSE NoEntry
      BY Zenon, <2>1 DEF CacheGetAnchor
    <2>5. r # NoEntry
      BY Zenon, NoEntryAssumption
    <2>6. QED
      BY SMTT(30), <1>2, <1>3, <2>1, <2>2, <2>3, <2>4, <2>5
  <1>8. DbContents'.hashBlock = TipContents.hashBlock
    BY SMTT(30), <1>2, <1>3, ContentsFields DEF TipContents, DbContents
  <1>9. \A p \in Pools : DbContents'.hashAnchor[p] = TipContents.hashAnchor[p]
    BY SMTT(30), <1>2, <1>3, ContentsFields DEF TipContents, DbContents
  <1>10. DbContents' = TipContents
    BY Zenon, <1>4, <1>5, <1>6, <1>7, <1>8, <1>9, ShownType, SameState
  <1>11. DbOK'
    BY Zenon, <1>1, <1>7, EmptyRootAssumption DEF DbOK
  <1>12. QED
    BY Zenon, <1>10, <1>11

(* Flushing the tip persists what it shows.                                *)
LEMMA TipFlushStep ==
    ASSUME IInv, TipFlush
    PROVE  IInv' /\ Store!Next
  <1>1. /\ ~open /\ open' = open /\ view' = view /\ modifier' = modifier
        /\ db' = DbBatchWrite /\ tip' = Cleared(tip)
    BY Zenon DEF TipFlush
  <1>2. DbOK' /\ DbContents' = TipContents
    BY Zenon, <1>1, DbBatchWriteKeeps
  <1>3. /\ TipContents \in Store!States
        /\ TipContents.hashBlock = Loaded(tip.hashBlock, TipContents.hashBlock)
        /\ \A p \in Pools : TipContents.hashAnchor[p] = Loaded(tip.hashAnchor[p], TipContents.hashAnchor[p])
    BY SMTT(30), ShownType, ContentsFields DEF TipContents, Loaded
  <1>4. CacheOK(tip', TipContents) /\ Contents(tip', TipContents) = TipContents
    BY Zenon, <1>1, <1>3, ClearedKeeps DEF IInv, CacheOK
  <1>5. TipContents' = TipContents
    BY Zenon, <1>2, <1>4 DEF TipContents
  <1>6. view = EmptyCache /\ view' = EmptyCache
    BY Zenon, <1>1 DEF IInv, ClosedViewEmpty
  <1>7. ViewContents = TipContents /\ ViewContents' = TipContents
    BY Zenon, <1>3, <1>5, <1>6, EmptyContents DEF ViewContents
  <1>8. BestAnchorReadable'
    BY Zenon, <1>2, <1>5, <1>7, ReadableContents DEF IInv
  <1>9. CacheOK(tip, DbContents)' /\ CacheOK(view, TipContents)'
    <2>1. CacheOK(tip, DbContents)' <=> CacheOK(tip', DbContents')
      BY Zenon DEF CacheOK, FreshOver, AgreesWith, TreesOver
    <2>2. CacheOK(view, TipContents)' <=> CacheOK(view', TipContents')
      BY Zenon DEF CacheOK, FreshOver, AgreesWith, TreesOver
    <2>3. QED
      BY Zenon, <1>1, <1>2, <1>4, <1>5, <2>1, <2>2 DEF IInv
  <1>10. \A t \in Txids : view.coins[t] = NoEntry
    BY Zenon, <1>6 DEF EmptyCache
  <1>11. PulledThroughTip' /\ ClosedViewEmpty' /\ ModifierMarked'
    BY Zenon, <1>1, <1>6, <1>10 DEF IInv, PulledThroughTip, ClosedViewEmpty, ModifierMarked
  <1>12. IInv'
    BY Zenon, <1>1, <1>2, <1>8, <1>9, <1>11 DEF IInv
  <1>13. Store!Persist
    BY Zenon, <1>2, <1>5, <1>7 DEF Store!Persist
  <1>14. QED
    BY Zenon, <1>12, <1>13 DEF Store!Next

(* Opening a view shows what the tip shows.                                *)
LEMMA OpenViewStep ==
    ASSUME IInv, OpenView
    PROVE  IInv' /\ UNCHANGED Shown
  <1>1. db' = db /\ tip' = tip /\ view' = view /\ modifier' = modifier /\ open' = TRUE
    BY Zenon DEF OpenView
  <1>2. DbContents' = DbContents /\ TipContents' = TipContents /\ ViewContents' = ViewContents
    BY Zenon, <1>1 DEF DbContents, TipContents, ViewContents
  <1>3. BestAnchorReadable'
    BY Zenon, <1>2, ReadableContents DEF IInv
  <1>4. CacheOK(tip, DbContents)' /\ CacheOK(view, TipContents)'
    BY ZenonT(60), <1>1, <1>2 DEF IInv, CacheOK, FreshOver, AgreesWith, TreesOver
  <1>5. QED
    BY ZenonT(60), <1>1, <1>2, <1>3, <1>4
       DEF IInv, Shown, DbOK, ClosedViewEmpty, PulledThroughTip, ModifierMarked

(* A step that empties the view, and maybe the tip.                        *)
LEMMA EmptyingStep ==
    ASSUME IInv, db' = db, view' = EmptyCache, tip' = tip \/ tip' = EmptyCache, open' = FALSE,
           modifier' = NoModifier
    PROVE  /\ IInv'
           /\ DbContents' = DbContents
           /\ TipContents' = IF tip' = tip THEN TipContents ELSE DbContents
           /\ ViewContents' = TipContents'
  <1>1. DbOK' /\ DbContents' = DbContents
    BY Zenon DEF IInv, DbOK, DbContents
  <1>2. ASSUME NEW base PROVE CacheOK(EmptyCache, base)
    BY Zenon, ClearedType DEF EmptyCache, CacheOK, FreshOver, AgreesWith, TreesOver
  <1>3. /\ CacheOK(tip', DbContents)
        /\ Contents(tip', DbContents) = IF tip' = tip THEN TipContents ELSE DbContents
    BY Zenon, <1>2, ShownType, EmptyContents DEF IInv, TipContents
  <1>4. TipContents' = Contents(tip', DbContents) /\ TipContents' \in Store!States
    BY Zenon, <1>1, <1>3, ShownType DEF TipContents
  <1>5. ViewContents' = TipContents'
    BY Zenon, <1>4, EmptyContents DEF ViewContents
  <1>6. BestAnchorReadable'
    BY Zenon, <1>1, <1>3, <1>4, <1>5, ReadableContents DEF IInv
  <1>7. CacheOK(tip, DbContents)' /\ CacheOK(view, TipContents)'
    <2>1. CacheOK(tip, DbContents)' <=> CacheOK(tip', DbContents')
      BY Zenon DEF CacheOK, FreshOver, AgreesWith, TreesOver
    <2>2. CacheOK(view, TipContents)' <=> CacheOK(view', TipContents')
      BY Zenon DEF CacheOK, FreshOver, AgreesWith, TreesOver
    <2>3. QED
      BY Zenon, <1>1, <1>2, <1>3, <2>1, <2>2
  <1>8. \A t \in Txids : view'.coins[t] = NoEntry
    BY Zenon DEF EmptyCache
  <1>9. PulledThroughTip' /\ ClosedViewEmpty' /\ ModifierMarked'
    BY Zenon, <1>8 DEF PulledThroughTip, ClosedViewEmpty, ModifierMarked
  <1>10. QED
    BY Zenon, <1>1, <1>3, <1>4, <1>5, <1>6, <1>7, <1>9 DEF IInv

(* Closing a view discards what was not flushed.                           *)
LEMMA CloseViewStep ==
    ASSUME IInv, CloseView
    PROVE  IInv' /\ Store!Next
  <1>1. IInv' /\ DbContents' = DbContents /\ TipContents' = TipContents /\ ViewContents' = TipContents'
    BY Zenon, EmptyingStep DEF CloseView
  <1>2. Store!Discard
    BY Zenon, <1>1 DEF Store!Discard
  <1>3. QED
    BY Zenon, <1>1, <1>2 DEF Store!Next

(* A crash falls back to the disk.                                         *)
LEMMA CrashStep ==
    ASSUME IInv, Crash
    PROVE  IInv' /\ Store!Next
  <1>1. /\ IInv' /\ DbContents' = DbContents /\ ViewContents' = TipContents'
        /\ TipContents' = IF tip' = tip THEN TipContents ELSE DbContents
    BY Zenon, EmptyingStep DEF Crash
  <1>2. tip' = tip => TipContents = DbContents
    BY Zenon, ShownType, EmptyContents DEF Crash, TipContents
  <1>3. Store!Crash
    BY Zenon, <1>1, <1>2 DEF Store!Crash
  <1>4. QED
    BY Zenon, <1>1, <1>3 DEF Store!Next

-----------------------------------------------------------------------------
(* The theorems.                                                           *)

(* Every step preserves the invariant and is allowed by CoinsStore.        *)
LEMMA NextStep ==
    ASSUME IInv, [Next]_vars
    PROVE  IInv' /\ (Store!Next \/ UNCHANGED Shown)
  <1>1. CASE \E t \in Txids : AccessCoins(t) \/ TipAccessCoins(t) \/ ModifyCoins(t) \/ ModifyNewCoins(t)
    BY Zenon, <1>1, AccessCoinsStep, TipAccessCoinsStep, ModifyCoinsStep, ModifyNewCoinsStep
  <1>2. CASE \E c \in SUBSET Outs : ReleaseModifier(c)
    BY Zenon, <1>2, ReleaseModifierStep
  <1>3. CASE \E n \in Nullifiers : GetNullifier(n)
    BY Zenon, <1>3, GetNullifierStep
  <1>4. CASE \E N \in SUBSET Nullifiers, spent \in BOOLEAN : SetNullifiers(N, spent)
    BY Zenon, <1>4, SetNullifiersStep
  <1>5. CASE \E p \in Pools, r \in Roots : GetAnchorAt(p, r) \/ PushAnchor(p, r) \/ PopAnchor(p, r)
    BY Zenon, <1>5, GetAnchorAtStep, PushAnchorStep, PopAnchorStep
  <1>6. CASE \E p \in Pools : GetBestAnchor(p)
    BY Zenon, <1>6, GetBestAnchorStep
  <1>7. CASE GetBestBlock
    BY Zenon, <1>7, GetBestBlockStep
  <1>8. CASE \E b \in Blocks : SetBestBlock(b)
    BY Zenon, <1>8, SetBestBlockStep
  <1>9. CASE Flush
    BY Zenon, <1>9, FlushStep
  <1>10. CASE TipFlush
    BY Zenon, <1>10, TipFlushStep
  <1>11. CASE OpenView
    BY Zenon, <1>11, OpenViewStep
  <1>12. CASE CloseView
    BY Zenon, <1>12, CloseViewStep
  <1>13. CASE Crash
    BY Zenon, <1>13, CrashStep
  <1>14. CASE UNCHANGED vars
    <2>1. db' = db /\ tip' = tip /\ view' = view /\ open' = open /\ modifier' = modifier
      BY Zenon, <1>14 DEF vars
    <2>2. DbContents' = DbContents /\ TipContents' = TipContents /\ ViewContents' = ViewContents
      BY Zenon, <2>1 DEF DbContents, TipContents, ViewContents
    <2>3. BestAnchorReadable'
      BY Zenon, <2>2, ReadableContents DEF IInv
    <2>4. CacheOK(tip, DbContents)' /\ CacheOK(view, TipContents)'
      BY ZenonT(60), <2>1, <2>2 DEF IInv, CacheOK, FreshOver, AgreesWith, TreesOver
    <2>5. QED
      BY Zenon, <2>1, <2>2, <2>3, <2>4
         DEF IInv, Shown, DbOK, ClosedViewEmpty, PulledThroughTip, ModifierMarked
  <1>15. QED
    BY ZenonT(60), <1>1, <1>2, <1>3, <1>4, <1>5, <1>6, <1>7, <1>8, <1>9, <1>10, <1>11, <1>12, <1>13, <1>14 DEF Next

(* The invariant holds in every reachable state of the stack of caches.    *)
THEOREM Invariance == Spec => []IInv
  <1>1. Init => IInv
    BY Zenon, IInvInit
  <1>2. IInv /\ [Next]_vars => IInv'
    BY Zenon, NextStep
  <1>3. QED
    BY <1>1, <1>2, PTL DEF Spec

(* The maps and hashes of the three layers keep their shape.               *)
THEOREM TypeCorrect == Spec => []TypeOK
  BY Invariance, IInvImplies, PTL

(* FRESH and DIRTY tell the truth: what FetchCoins, the modifiers and      *)
(* BatchWrite leave out or erase is what the layer below has anyway.       *)
THEOREM FlagsAreTrue == Spec => []FlagsTruthful
  BY Invariance, IInvImplies, PTL DEF FlagsTruthful

(* The assertion of CCoinsViewCache::BatchWrite never fails.               *)
THEOREM BatchWriteAssertion == Spec => []PushedEntryIsFresh
  BY Invariance, IInvImplies, PTL

(* The assertions on the best anchor's tree never fail, and the tree read  *)
(* is the one of that root.                                                *)
THEOREM AnchorsReadable == Spec => []AnchorsExact
  BY Invariance, IInvImplies, PTL DEF AnchorsExact

(* The stack of caches implements CoinsStore: three complete states that   *)
(* are committed, dropped and persisted as a whole.                        *)
THEOREM Refinement == Spec => RefinesStore
  <1>1. Init => Store!Init
    BY Zenon, IInvInit
  <1>2. IInv /\ [Next]_vars => [Store!Next]_(Store!vars)
    BY Zenon, NextStep DEF Shown, Store!vars
  <1>3. QED
    BY <1>1, <1>2, Invariance, PTL DEF Spec, Store!Spec, RefinesStore
=============================================================================
