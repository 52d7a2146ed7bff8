----------------------------- MODULE CoinsCache -----------------------------
(***************************************************************************)
(* The stack of coin views of the node (coins.cpp, coins.h, txdb.cpp):     *)
(*                                                                         *)
(*     view   the CCoinsViewCache a block is connected or disconnected in  *)
(*      |                                                                  *)
(*     tip    pcoinsTip, the node's write-back CCoinsViewCache             *)
(*      |                                                                  *)
(*     db     CCoinsViewDB, the chainstate database                        *)
(*                                                                         *)
(* A CCoins is modelled by the set of its unspent outputs; the empty set   *)
(* is a pruned CCoins.  A commitment tree is modelled by its root.  The    *)
(* Sprout and Sapling maps run the same code: they are a function of the   *)
(* pool.  Everything runs under cs_main, one call at a time.               *)
(***************************************************************************)
EXTENDS Integers, FiniteSets, FiniteSetsExt

CONSTANTS
    Txids,        \* transaction ids
    Outs,         \* output positions of a transaction
    Nullifiers,   \* nullifiers of both pools
    Pools,        \* shielded pools (SPROUT, SAPLING)
    Roots,        \* note commitment tree roots
    EmptyRoot,    \* root of the empty tree
    Blocks,       \* block hashes
    NULL,         \* the null hash uint256()
    NoEntry,      \* "not in this map"
    NoModifier    \* no CCoinsModifier is alive

VARIABLES
    db,           \* contents of the chainstate database
    tip,          \* maps and hashes of pcoinsTip
    view,         \* maps and hashes of the block's view
    open,         \* the block's view exists
    modifier,     \* the CCoinsModifier alive on the view, or NoModifier
    usage         \* cachedCoinsUsage of both caches

vars == <<db, tip, view, open, modifier, usage>>

-----------------------------------------------------------------------------
(* Map entries, with the code's flag bits as a set.                        *)

DIRTY == "DIRTY"   \* potentially different from the version in the parent
FRESH == "FRESH"   \* the parent does not have this entry, or it is pruned

Pruned == {}

CoinsEntry == [coins : SUBSET Outs, flags : SUBSET {DIRTY, FRESH}]

AnchorEntry == [entered : BOOLEAN, tree : Roots, flags : SUBSET {DIRTY}]

NullifierEntry == [entered : BOOLEAN, flags : SUBSET {DIRTY}]

Cache ==
    [coins      : [Txids -> CoinsEntry \cup {NoEntry}],
     nullifiers : [Nullifiers -> NullifierEntry \cup {NoEntry}],
     anchors    : [Pools -> [Roots -> AnchorEntry \cup {NoEntry}]],
     hashBlock  : Blocks \cup {NULL},
     hashAnchor : [Pools -> Roots \cup {NULL}]]

Database ==
    [coins      : [Txids -> SUBSET Outs],
     nullifiers : SUBSET Nullifiers,
     anchors    : [Pools -> [Roots -> Roots \cup {NoEntry}]],
     hashBlock  : Blocks \cup {NULL},
     hashAnchor : [Pools -> Roots]]

ASSUME EmptyRootAssumption == EmptyRoot \in Roots

ASSUME NullAssumption == NULL \notin Blocks \cup Roots

ASSUME NoEntryAssumption ==
    /\ NoEntry \notin CoinsEntry \cup NullifierEntry \cup AnchorEntry \cup Roots
    /\ \A c \in SUBSET Outs : NoEntry # c

ASSUME NoModifierAssumption == NoModifier \notin [txid : Txids, cachedCoinUsage : Int]

EmptyCache ==
    [coins      |-> [t \in Txids |-> NoEntry],
     nullifiers |-> [n \in Nullifiers |-> NoEntry],
     anchors    |-> [p \in Pools |-> [r \in Roots |-> NoEntry]],
     hashBlock  |-> NULL,
     hashAnchor |-> [p \in Pools |-> NULL]]

(* A database that was never written: only the empty tree is known.        *)
EmptyDatabase ==
    [coins      |-> [t \in Txids |-> Pruned],
     nullifiers |-> {},
     anchors    |-> [p \in Pools |->
                        [r \in Roots |-> IF r = EmptyRoot THEN EmptyRoot ELSE NoEntry]],
     hashBlock  |-> NULL,
     hashAnchor |-> [p \in Pools |-> EmptyRoot]]

CoinsUsage(c) == Cardinality(c)

TreeUsage(r) == IF r = EmptyRoot THEN 0 ELSE 1

Init ==
    /\ db = EmptyDatabase
    /\ tip = EmptyCache
    /\ view = EmptyCache
    /\ open = FALSE
    /\ modifier = NoModifier
    /\ usage = [tip |-> 0, view |-> 0]

-----------------------------------------------------------------------------
(* Reads.  A read that misses asks the base and fills the cache, so a read *)
(* of the view may also fill the tip.                                      *)

(* What GetCoins answers: the coins, or NoEntry when it returns false.     *)
DbGetCoins(t) == IF db.coins[t] = Pruned THEN NoEntry ELSE db.coins[t]

CacheGetCoins(cache, t) ==
    IF cache.coins[t] = NoEntry THEN NoEntry ELSE cache.coins[t].coins

FetchCoins(cache, t, found) ==
    IF cache.coins[t] # NoEntry \/ found = NoEntry
    THEN cache
    ELSE [cache EXCEPT !.coins[t] =
             [coins |-> found, flags |-> IF found = Pruned THEN {FRESH} ELSE {}]]

FetchUsage(cache, t, found) ==
    IF cache.coins[t] # NoEntry \/ found = NoEntry THEN 0 ELSE CoinsUsage(found)

(* The tip after the view asked it for t: untouched when the view has t.   *)
TipAsked(t) ==
    IF view.coins[t] # NoEntry THEN tip ELSE FetchCoins(tip, t, DbGetCoins(t))

TipAskedUsage(t) ==
    IF view.coins[t] # NoEntry THEN 0 ELSE FetchUsage(tip, t, DbGetCoins(t))

(* GetCoins, AccessCoins and HaveCoins on the view.                        *)
AccessCoins(t) ==
    /\ open
    /\ tip' = TipAsked(t)
    /\ view' = FetchCoins(view, t, CacheGetCoins(TipAsked(t), t))
    /\ usage' = [tip  |-> usage.tip + TipAskedUsage(t),
                 view |-> usage.view + FetchUsage(view, t, CacheGetCoins(TipAsked(t), t))]
    /\ UNCHANGED <<db, open, modifier>>

(* The same calls made directly on pcoinsTip.                              *)
TipAccessCoins(t) ==
    /\ tip' = FetchCoins(tip, t, DbGetCoins(t))
    /\ usage' = [usage EXCEPT !.tip = @ + FetchUsage(tip, t, DbGetCoins(t))]
    /\ UNCHANGED <<db, view, open, modifier>>

(* A missing nullifier is cached whether it is spent or not.               *)
FetchNullifier(cache, n, spent) ==
    IF cache.nullifiers[n] # NoEntry
    THEN cache
    ELSE [cache EXCEPT !.nullifiers[n] = [entered |-> spent, flags |-> {}]]

(* Variant for mutation: a miss in the tip is taken for "not spent".       *)
GetNullifierStopsAtTip(n) ==
    /\ open
    /\ view' = IF view.nullifiers[n] # NoEntry THEN view
               ELSE FetchNullifier(view, n, tip.nullifiers[n] # NoEntry /\ tip.nullifiers[n].entered)
    /\ UNCHANGED <<db, tip, open, modifier, usage>>

GetNullifier(n) ==
    /\ open
    /\ LET asked == IF view.nullifiers[n] # NoEntry THEN tip
                    ELSE FetchNullifier(tip, n, n \in db.nullifiers)
       IN /\ tip' = asked
          /\ view' = IF view.nullifiers[n] # NoEntry THEN view
                     ELSE FetchNullifier(view, n, asked.nullifiers[n].entered)
    /\ UNCHANGED <<db, open, modifier, usage>>

(* What GetSproutAnchorAt and GetSaplingAnchorAt answer from a cache.      *)
CacheGetAnchor(cache, p, r) ==
    IF cache.anchors[p][r] = NoEntry \/ ~cache.anchors[p][r].entered
    THEN NoEntry
    ELSE cache.anchors[p][r].tree

FetchAnchor(cache, p, r, found) ==
    IF cache.anchors[p][r] # NoEntry \/ found = NoEntry
    THEN cache
    ELSE [cache EXCEPT !.anchors[p][r] = [entered |-> TRUE, tree |-> found, flags |-> {}]]

AnchorUsage(cache, p, r, found) ==
    IF cache.anchors[p][r] # NoEntry \/ found = NoEntry THEN 0 ELSE TreeUsage(found)

TipAskedAnchor(p, r) ==
    IF view.anchors[p][r] # NoEntry THEN tip ELSE FetchAnchor(tip, p, r, db.anchors[p][r])

TipAskedAnchorUsage(p, r) ==
    IF view.anchors[p][r] # NoEntry THEN 0 ELSE AnchorUsage(tip, p, r, db.anchors[p][r])

GetAnchorAt(p, r) ==
    /\ open
    /\ tip' = TipAskedAnchor(p, r)
    /\ view' = FetchAnchor(view, p, r, CacheGetAnchor(TipAskedAnchor(p, r), p, r))
    /\ usage' = [tip  |-> usage.tip + TipAskedAnchorUsage(p, r),
                 view |-> usage.view
                          + AnchorUsage(view, p, r, CacheGetAnchor(TipAskedAnchor(p, r), p, r))]
    /\ UNCHANGED <<db, open, modifier>>

(* GetBestBlock and GetBestAnchor fill a null hash from the base.          *)
Loaded(hash, base) == IF hash = NULL THEN base ELSE hash

TipBestBlock == Loaded(tip.hashBlock, db.hashBlock)

TipBestAnchor(p) == Loaded(tip.hashAnchor[p], db.hashAnchor[p])

BestAnchor(p) == Loaded(view.hashAnchor[p], TipBestAnchor(p))

(* pcoinsTip after the view loaded its best anchor.                        *)
TipLoadedAnchor(cache, p) ==
    IF view.hashAnchor[p] # NULL THEN cache
    ELSE [cache EXCEPT !.hashAnchor[p] = TipBestAnchor(p)]

GetBestBlock ==
    /\ open
    /\ tip' = IF view.hashBlock # NULL THEN tip ELSE [tip EXCEPT !.hashBlock = TipBestBlock]
    /\ view' = [view EXCEPT !.hashBlock = Loaded(@, TipBestBlock)]
    /\ UNCHANGED <<db, open, modifier, usage>>

GetBestAnchor(p) ==
    /\ open
    /\ tip' = TipLoadedAnchor(tip, p)
    /\ view' = [view EXCEPT !.hashAnchor[p] = BestAnchor(p)]
    /\ UNCHANGED <<db, open, modifier, usage>>

-----------------------------------------------------------------------------
(* Writes to the view.                                                     *)

(* ModifyCoins: the entry is found, or pulled in from the parent, FRESH    *)
(* when the parent has nothing or only a pruned entry; always DIRTY.       *)
ModifiedEntry(t, found) ==
    IF view.coins[t] # NoEntry
    THEN [view.coins[t] EXCEPT !.flags = @ \cup {DIRTY}]
    ELSE IF found = NoEntry
         THEN [coins |-> Pruned, flags |-> {FRESH, DIRTY}]
         ELSE [coins |-> found,
               flags |-> IF found = Pruned THEN {FRESH, DIRTY} ELSE {DIRTY}]

ModifyCoins(t) ==
    /\ open
    /\ modifier = NoModifier
    /\ tip' = TipAsked(t)
    /\ view' = [view EXCEPT !.coins[t] = ModifiedEntry(t, CacheGetCoins(TipAsked(t), t))]
    /\ modifier' = [txid |-> t,
                    cachedCoinUsage |-> IF view.coins[t] = NoEntry THEN 0
                                        ELSE CoinsUsage(view.coins[t].coins)]
    /\ usage' = [usage EXCEPT !.tip = @ + TipAskedUsage(t)]
    /\ UNCHANGED <<db, open>>

(* What the caller of ModifyNewCoins has to know: the parent has no        *)
(* unspent output of t (BIP 30), and the view has none either.             *)
NewCoinsContract(t) ==
    /\ CacheGetCoins(FetchCoins(tip, t, DbGetCoins(t)), t) \in {NoEntry, Pruned}
    /\ view.coins[t] # NoEntry => view.coins[t].coins = Pruned

(* ModifyNewCoins never asks the parent and marks the entry FRESH.         *)
ModifyNewCoins(t) ==
    /\ open
    /\ modifier = NoModifier
    /\ NewCoinsContract(t)
    /\ view' = [view EXCEPT !.coins[t] = [coins |-> Pruned, flags |-> {FRESH, DIRTY}]]
    /\ modifier' = [txid |-> t, cachedCoinUsage |-> 0]
    /\ UNCHANGED <<db, tip, open, usage>>

(* Variant for mutation: the usage before the modification is kept.        *)
ReleaseModifierKeepsOldUsage(c) ==
    /\ modifier # NoModifier
    /\ LET t == modifier.txid
           erase == FRESH \in view.coins[t].flags /\ c = Pruned
       IN /\ view' = [view EXCEPT !.coins[t] =
                         IF erase THEN NoEntry ELSE [coins |-> c, flags |-> @.flags]]
          /\ usage' = [usage EXCEPT !.view = @ + (IF erase THEN 0 ELSE CoinsUsage(c))]
    /\ modifier' = NoModifier
    /\ UNCHANGED <<db, tip, open>>

(* The holder leaves c in the entry and the modifier is destroyed: a FRESH *)
(* entry that ends up pruned is erased.                                    *)
ReleaseModifier(c) ==
    /\ modifier # NoModifier
    /\ LET t == modifier.txid
           erase == FRESH \in view.coins[t].flags /\ c = Pruned
       IN /\ view' = [view EXCEPT !.coins[t] =
                         IF erase THEN NoEntry ELSE [coins |-> c, flags |-> @.flags]]
          /\ usage' = [usage EXCEPT !.view = @ - modifier.cachedCoinUsage
                                               + (IF erase THEN 0 ELSE CoinsUsage(c))]
    /\ modifier' = NoModifier
    /\ UNCHANGED <<db, tip, open>>

(* SetNullifiers for the nullifiers N of one transaction.                  *)
SetNullifiers(N, spent) ==
    /\ open
    /\ view' = [view EXCEPT !.nullifiers =
                   [n \in Nullifiers |->
                       IF n \in N THEN [entered |-> spent, flags |-> {DIRTY}] ELSE @[n]]]
    /\ UNCHANGED <<db, tip, open, modifier, usage>>

(* PushAnchor: r is the root of the tree after the block's commitments.    *)
PushAnchor(p, r) ==
    /\ open
    /\ tip' = TipLoadedAnchor(tip, p)
    /\ IF BestAnchor(p) = r
       THEN /\ view' = [view EXCEPT !.hashAnchor[p] = r]
            /\ UNCHANGED usage
       ELSE /\ view' = [view EXCEPT
                           !.anchors[p][r] = [entered |-> TRUE, tree |-> r, flags |-> {DIRTY}],
                           !.hashAnchor[p] = r]
            /\ usage' = [usage EXCEPT !.view =
                            @ + (IF view.anchors[p][r] = NoEntry THEN TreeUsage(r) ELSE 0)]
    /\ UNCHANGED <<db, open, modifier>>

(* What the view answers for an anchor, after asking the tip if need be.   *)
ViewGetAnchor(p, r) ==
    CacheGetAnchor(FetchAnchor(view, p, r, CacheGetAnchor(TipAskedAnchor(p, r), p, r)), p, r)

(* What the caller of PopAnchor has to know: the root it goes back to is   *)
(* an anchor below the current one, which is not the empty tree.           *)
PopAnchorContract(p, r) ==
    r # BestAnchor(p) => /\ BestAnchor(p) # EmptyRoot
                         /\ ViewGetAnchor(p, r) # NoEntry

(* Variant for mutation: the current anchor is not brought into the cache. *)
PopAnchorWithoutTree(p, r) ==
    /\ open
    /\ PopAnchorContract(p, r)
    /\ LET best == BestAnchor(p)
       IN /\ tip' = TipLoadedAnchor(tip, p)
          /\ view' = [view EXCEPT
                         !.anchors[p][best] =
                             IF best = r THEN @
                             ELSE [entered |-> FALSE,
                                   tree    |-> IF @ = NoEntry THEN EmptyRoot ELSE @.tree,
                                   flags   |-> {DIRTY}],
                         !.hashAnchor[p] = r]
    /\ UNCHANGED <<db, open, modifier, usage>>

(* PopAnchor: the current root is brought into the cache with its tree and *)
(* marked as not entered.                                                  *)
PopAnchor(p, r) ==
    /\ open
    /\ PopAnchorContract(p, r)
    /\ LET best == BestAnchor(p)
           brought == FetchAnchor(view, p, best, CacheGetAnchor(TipAskedAnchor(p, best), p, best))
       IN IF best = r
          THEN /\ tip' = TipLoadedAnchor(tip, p)
               /\ view' = [view EXCEPT !.hashAnchor[p] = r]
               /\ UNCHANGED usage
          ELSE /\ tip' = TipLoadedAnchor(TipAskedAnchor(p, best), p)
               /\ view' = [brought EXCEPT
                              !.anchors[p][best] = [entered |-> FALSE, tree |-> @.tree, flags |-> {DIRTY}],
                              !.hashAnchor[p] = r]
               /\ usage' = [tip  |-> usage.tip + TipAskedAnchorUsage(p, best),
                            view |-> usage.view
                                     + AnchorUsage(view, p, best,
                                          CacheGetAnchor(TipAskedAnchor(p, best), p, best))]
    /\ UNCHANGED <<db, open, modifier>>

SetBestBlock(b) ==
    /\ open
    /\ view' = [view EXCEPT !.hashBlock = b]
    /\ UNCHANGED <<db, tip, open, modifier, usage>>

-----------------------------------------------------------------------------
(* Flushes.                                                                *)

(* CCoinsViewCache::BatchWrite for one entry of mapCoins.                  *)
WriteCoins(parent, child) ==
    IF child = NoEntry \/ DIRTY \notin child.flags THEN parent
    ELSE IF parent = NoEntry
         THEN IF child.coins = Pruned THEN NoEntry
              ELSE [coins |-> child.coins, flags |-> {DIRTY, FRESH}]
         ELSE IF FRESH \in parent.flags /\ child.coins = Pruned THEN NoEntry
              ELSE [coins |-> child.coins, flags |-> parent.flags \cup {DIRTY}]

(* Variant for mutation: only anchors the parent lacks are written.        *)
WriteAnchorOnlyNew(parent, child) ==
    IF child = NoEntry \/ DIRTY \notin child.flags \/ parent # NoEntry THEN parent
    ELSE [entered |-> child.entered, tree |-> child.tree, flags |-> {DIRTY}]

(* BatchWriteAnchors: the tree is copied only into a new entry.            *)
WriteAnchor(parent, child) ==
    IF child = NoEntry \/ DIRTY \notin child.flags THEN parent
    ELSE IF parent = NoEntry THEN [entered |-> child.entered, tree |-> child.tree, flags |-> {DIRTY}]
         ELSE IF parent.entered = child.entered THEN parent
              ELSE [entered |-> child.entered, tree |-> parent.tree, flags |-> {DIRTY}]

(* BatchWriteNullifiers.                                                   *)
WriteNullifier(parent, child) ==
    IF child = NoEntry \/ DIRTY \notin child.flags THEN parent
    ELSE IF parent = NoEntry THEN [entered |-> child.entered, flags |-> {DIRTY}]
         ELSE IF parent.entered = child.entered THEN parent
              ELSE [entered |-> child.entered, flags |-> {DIRTY}]

BatchWrite ==
    [coins      |-> [t \in Txids |-> WriteCoins(tip.coins[t], view.coins[t])],
     nullifiers |-> [n \in Nullifiers |-> WriteNullifier(tip.nullifiers[n], view.nullifiers[n])],
     anchors    |-> [p \in Pools |->
                        [r \in Roots |-> WriteAnchor(tip.anchors[p][r], view.anchors[p][r])]],
     hashBlock  |-> view.hashBlock,
     hashAnchor |-> view.hashAnchor]

EntryCoinsUsage(e) == IF e = NoEntry THEN 0 ELSE CoinsUsage(e.coins)

(* The accounting of the same loop, entry by entry.                        *)
BatchWriteUsage ==
    MapThenSumSet(LAMBDA t : EntryCoinsUsage(WriteCoins(tip.coins[t], view.coins[t]))
                             - EntryCoinsUsage(tip.coins[t]), Txids)
    + MapThenSumSet(LAMBDA pr : IF \/ view.anchors[pr[1]][pr[2]] = NoEntry
                                   \/ tip.anchors[pr[1]][pr[2]] # NoEntry
                                   \/ DIRTY \notin view.anchors[pr[1]][pr[2]].flags
                                THEN 0
                                ELSE TreeUsage(view.anchors[pr[1]][pr[2]].tree),
                    Pools \X Roots)

(* Flush empties the maps and keeps the hashes.                            *)
Cleared(cache) ==
    [EmptyCache EXCEPT !.hashBlock = cache.hashBlock, !.hashAnchor = cache.hashAnchor]

(* BatchWrite hands a null hash to the tip as it is.  The callers have     *)
(* read or set every hash by then; before the first block the tip has      *)
(* nothing the database does not have.                                     *)
FlushContract ==
    /\ view.hashBlock = NULL => tip.hashBlock \in {NULL, db.hashBlock}
    /\ \A p \in Pools : view.hashAnchor[p] = NULL => tip.hashAnchor[p] \in {NULL, db.hashAnchor[p]}

Flush ==
    /\ open
    /\ modifier = NoModifier
    /\ FlushContract
    /\ tip' = BatchWrite
    /\ view' = Cleared(view)
    /\ usage' = [tip |-> usage.tip + BatchWriteUsage, view |-> 0]
    /\ UNCHANGED <<db, open, modifier>>

(* CCoinsViewDB::BatchWrite: one atomic LevelDB batch of the DIRTY entries *)
DbBatchWrite ==
    [coins      |-> [t \in Txids |->
                        IF tip.coins[t] = NoEntry \/ DIRTY \notin tip.coins[t].flags
                        THEN db.coins[t] ELSE tip.coins[t].coins],
     nullifiers |-> {n \in Nullifiers :
                        IF tip.nullifiers[n] = NoEntry \/ DIRTY \notin tip.nullifiers[n].flags
                        THEN n \in db.nullifiers ELSE tip.nullifiers[n].entered},
     anchors    |-> [p \in Pools |-> [r \in Roots |->
                        IF \/ tip.anchors[p][r] = NoEntry
                           \/ DIRTY \notin tip.anchors[p][r].flags
                           \/ r = EmptyRoot
                        THEN db.anchors[p][r]
                        ELSE CacheGetAnchor(tip, p, r)]],
     hashBlock  |-> Loaded(tip.hashBlock, db.hashBlock),
     hashAnchor |-> [p \in Pools |-> Loaded(tip.hashAnchor[p], db.hashAnchor[p])]]

(* Variant for mutation: the tip is flushed under a live block view.       *)
TipFlushUnderView ==
    /\ db' = DbBatchWrite
    /\ tip' = Cleared(tip)
    /\ usage' = [usage EXCEPT !.tip = 0]
    /\ UNCHANGED <<view, open, modifier>>

(* FlushStateToDisk, only called with no block view alive.                 *)
TipFlush ==
    /\ ~open
    /\ db' = DbBatchWrite
    /\ tip' = Cleared(tip)
    /\ usage' = [usage EXCEPT !.tip = 0]
    /\ UNCHANGED <<view, open, modifier>>

-----------------------------------------------------------------------------
(* Life of the views.                                                      *)

(* CCoinsViewCache view(pcoinsTip)                                         *)
OpenView ==
    /\ ~open
    /\ open' = TRUE
    /\ UNCHANGED <<db, tip, view, modifier, usage>>

(* The view goes out of scope; what was not flushed is forgotten.          *)
CloseView ==
    /\ open
    /\ modifier = NoModifier
    /\ open' = FALSE
    /\ view' = EmptyCache
    /\ usage' = [usage EXCEPT !.view = 0]
    /\ UNCHANGED <<db, tip, modifier>>

(* The process dies at any point and starts again on the database.         *)
Crash ==
    /\ tip' = EmptyCache
    /\ view' = EmptyCache
    /\ open' = FALSE
    /\ modifier' = NoModifier
    /\ usage' = [tip |-> 0, view |-> 0]
    /\ UNCHANGED db

Next ==
    \/ \E t \in Txids : AccessCoins(t) \/ TipAccessCoins(t) \/ ModifyCoins(t) \/ ModifyNewCoins(t)
    \/ \E c \in SUBSET Outs : ReleaseModifier(c)
    \/ \E n \in Nullifiers : GetNullifier(n)
    \/ \E N \in SUBSET Nullifiers, spent \in BOOLEAN : SetNullifiers(N, spent)
    \/ \E p \in Pools, r \in Roots : GetAnchorAt(p, r) \/ PushAnchor(p, r) \/ PopAnchor(p, r)
    \/ \E p \in Pools : GetBestAnchor(p)
    \/ GetBestBlock
    \/ \E b \in Blocks : SetBestBlock(b)
    \/ Flush
    \/ TipFlush
    \/ OpenView
    \/ CloseView
    \/ Crash

Spec == Init /\ [][Next]_vars

-----------------------------------------------------------------------------
(* What the layers stand for.                                              *)

(* The complete state of the chain a cache shows over a base state.        *)
Contents(cache, base) ==
    [coins      |-> [t \in Txids |->
                        IF cache.coins[t] = NoEntry THEN base.coins[t] ELSE cache.coins[t].coins],
     nullifiers |-> {n \in Nullifiers :
                        IF cache.nullifiers[n] = NoEntry THEN n \in base.nullifiers
                        ELSE cache.nullifiers[n].entered},
     anchors    |-> [p \in Pools |-> {r \in Roots :
                        IF cache.anchors[p][r] = NoEntry THEN r \in base.anchors[p]
                        ELSE cache.anchors[p][r].entered}],
     hashBlock  |-> Loaded(cache.hashBlock, base.hashBlock),
     hashAnchor |-> [p \in Pools |-> Loaded(cache.hashAnchor[p], base.hashAnchor[p])]]

DbContents ==
    [coins      |-> db.coins,
     nullifiers |-> db.nullifiers,
     anchors    |-> [p \in Pools |-> {r \in Roots : db.anchors[p][r] # NoEntry}],
     hashBlock  |-> db.hashBlock,
     hashAnchor |-> db.hashAnchor]

TipContents == Contents(tip, DbContents)

ViewContents == Contents(view, TipContents)

Store == INSTANCE CoinsStore
    WITH disk <- DbContents, committed <- TipContents, working <- ViewContents

(* The stack of caches behaves like three complete states that are         *)
(* committed, dropped and persisted as a whole: no write is lost, revived  *)
(* or seen early by FetchCoins, the modifiers or the two BatchWrites.      *)
RefinesStore == Store!Spec

-----------------------------------------------------------------------------
(* Every map and hash of the three layers has the shape the code gives it. *)
TypeOK ==
    /\ db \in Database
    /\ tip \in Cache
    /\ view \in Cache
    /\ open \in BOOLEAN
    /\ modifier # NoModifier => /\ modifier.txid \in Txids
                               /\ view.coins[modifier.txid] # NoEntry

(* FRESH means what coins.h says: the parent has no unspent output of the  *)
(* transaction.  Both places that erase a FRESH pruned entry (the          *)
(* modifier's destructor and BatchWrite) rely on it: were it false, coins  *)
(* spent in the child would come back to life from the parent.             *)
FreshMeansParentPruned ==
    \A t \in Txids :
        /\ (tip.coins[t] # NoEntry /\ FRESH \in tip.coins[t].flags) => db.coins[t] = Pruned
        /\ (view.coins[t] # NoEntry /\ FRESH \in view.coins[t].flags)
              => TipContents.coins[t] = Pruned

(* An entry that is not DIRTY is never written down, so it has to agree    *)
(* with the layer below, including the negative answers that GetNullifier  *)
(* caches.                                                                 *)
AgreesWith(cache, base) ==
    /\ \A t \in Txids : (cache.coins[t] # NoEntry /\ DIRTY \notin cache.coins[t].flags)
            => cache.coins[t].coins = base.coins[t]
    /\ \A n \in Nullifiers : (cache.nullifiers[n] # NoEntry /\ DIRTY \notin cache.nullifiers[n].flags)
            => (cache.nullifiers[n].entered <=> n \in base.nullifiers)
    /\ \A p \in Pools, r \in Roots : (cache.anchors[p][r] # NoEntry /\ DIRTY \notin cache.anchors[p][r].flags)
            => (cache.anchors[p][r].entered <=> r \in base.anchors[p])

CleanMeansUnchanged == AgreesWith(tip, DbContents) /\ AgreesWith(view, TipContents)

(* The flags of every entry tell the truth about the layer below: FRESH    *)
(* and the absence of DIRTY are what FetchCoins, the modifiers and         *)
(* BatchWrite rely on when they leave an entry out or erase it.            *)
FlagsTruthful == FreshMeansParentPruned /\ CleanMeansUnchanged

(* The assertion of BatchWrite: an unspent entry pushed into a parent that *)
(* has none is FRESH ("if the grandparent did have it, we would have       *)
(* pulled it in at first GetCoins").                                       *)
PushedEntryIsFresh ==
    \A t \in Txids :
        ( /\ view.coins[t] # NoEntry
          /\ DIRTY \in view.coins[t].flags
          /\ view.coins[t].coins # Pruned
          /\ tip.coins[t] = NoEntry ) => FRESH \in view.coins[t].flags

(* The assertions of BringBestAnchorIntoCache, ConnectBlock, ConnectTip    *)
(* and DisconnectTip: the tree of the best anchor can always be read, from *)
(* the view and from pcoinsTip.                                            *)
BestAnchorReadable ==
    \A p \in Pools :
        /\ db.hashAnchor[p] \in DbContents.anchors[p]
        /\ TipBestAnchor(p) \in TipContents.anchors[p]
        /\ BestAnchor(p) \in ViewContents.anchors[p]

(* An anchor is stored with its own tree, at every layer, also when an     *)
(* entry that was popped is entered again: BatchWriteAnchors copies no     *)
(* tree into an entry the parent already has.                              *)
TreesMatchRoots ==
    \A p \in Pools, r \in Roots :
        /\ db.anchors[p][r] \in {r, NoEntry}
        /\ tip.anchors[p][r] # NoEntry => tip.anchors[p][r].tree = r
        /\ view.anchors[p][r] # NoEntry => view.anchors[p][r].tree = r

(* The best anchor is readable at every layer, and what is read under a    *)
(* root is the tree of that root.                                          *)
AnchorsExact == BestAnchorReadable /\ TreesMatchRoots

(* cachedCoinsUsage is the memory of the cached coins and trees: it is     *)
(* unsigned and FlushStateToDisk decides on it, so it may neither drift    *)
(* nor wrap below zero.                                                    *)
CacheUsage(cache) ==
    MapThenSumSet(LAMBDA t : EntryCoinsUsage(cache.coins[t]), Txids)
    + MapThenSumSet(LAMBDA pr : IF cache.anchors[pr[1]][pr[2]] = NoEntry THEN 0
                                ELSE TreeUsage(cache.anchors[pr[1]][pr[2]].tree), Pools \X Roots)

UsageExact ==
    /\ usage.tip = CacheUsage(tip)
    /\ modifier = NoModifier => usage.view = CacheUsage(view)
=============================================================================
