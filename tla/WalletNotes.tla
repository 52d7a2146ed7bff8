----------------------------- MODULE WalletNotes -----------------------------
(***************************************************************************)
(* The shielded notes of the wallet (wallet/wallet.cpp): which transactions *)
(* it knows, the notes found in them, the cached witness of every note for  *)
(* the last blocks, the nullifiers that tell which notes are spent, and the *)
(* wallet file all of this is saved to.  The active chain drives it:        *)
(* ConnectTip and DisconnectTip report every transaction and then the block *)
(* (main.cpp), and a restart finds the chain where the coins database left  *)
(* it and the wallet where its file left it.                                *)
(*                                                                         *)
(* A note is known by its commitment.  An incremental witness of a note is  *)
(* the sequence of commitments of the tree it belongs to: the note's        *)
(* position and the root are functions of it.  A nullifier of a Sapling     *)
(* note depends on the note's position, that of a Sprout note does not.     *)
(***************************************************************************)
EXTENDS Integers, FiniteSets, SequencesExt

CONSTANTS
    Blocks, Genesis, Parent,   \* the block tree; Parent[b] for b # Genesis
    Vtx,                       \* Vtx[b]: the transactions of a block, in order
    Outputs,                   \* Outputs[t]: the commitments t creates, in order
    Reveals,                   \* Reveals[t]: the nullifiers t reveals
    Sapling,                   \* the Sapling notes; the others are Sprout notes
    Owner,                     \* Owner[n]: the key that decrypts note n
    TransparentlyMine,         \* transactions with a transparent part of ours
    Keys, InitialKeys,         \* spending keys; those the wallet starts with
    StartTip,                  \* the tip when the wallet is first looked at
    MAX_REORG_LENGTH,          \* main.h: the deepest reorganisation accepted
    Relayed,                   \* bound: transactions that reach the memory pool
    MaxRestarts,               \* bound: restarts
    FollowLost                 \* bound: follow a wallet that is lost, or only
                               \* restart it with -rescan

VARIABLES
    tip,       \* chainActive.Tip()
    peak,      \* height of the highest tip so far
    mempool,   \* transactions in the memory pool
    recent,    \* mapRecentlyAddedTx: those the wallet was not told of yet
    reporting, \* those NotifyRecentlyAdded has taken out to tell it now
    coinsTip,  \* the best block of the coins database on disk
    wallet,    \* CWallet: [mapWallet, nullifiers, nWitnessCacheSize, keys, ok]
    disk,      \* wallet.dat as written: [mapWallet, nWitnessCacheSize, keys, best,
               \* scanned]; scanned: the keys a rescan in it covers (history)
    durable,   \* wallet.dat as last flushed
    rewritten, \* since the last SetBestChain, a block was disconnected, one the
               \* file already covers was connected again, or a rescan made
               \* the caches larger than the size in the file (history)
    ahead,     \* block of the witnesses loaded at the last start, until the
               \* chain has reached it, or NoBlock (history)
    restarts,  \* restarts so far
    lost       \* the loaded witnesses belong to a chain since left, or a
               \* transaction was reported after its block (history)

vars == <<tip, peak, mempool, recent, reporting, coinsTip, wallet, disk, durable,
          rewritten, ahead, restarts, lost>>

NoBlock == "none"
NoNullifier == <<>>

\* wallet.h: one more than the deepest reorganisation.
WITNESS_CACHE_SIZE == MAX_REORG_LENGTH + 1

Txs == DOMAIN Outputs
IsSapling(n) == n \in Sapling

-----------------------------------------------------------------------------
(* The block tree. *)

\* The blocks from the genesis block to b.
Path ==
    LET path[b \in Blocks] == IF b = Genesis THEN <<b>> ELSE Append(path[Parent[b]], b)
    IN  [b \in Blocks |-> path[b]]

Height == [b \in Blocks |-> Len(Path[b]) - 1]
IsAncestor(a, b) == a \in ToSet(Path[b])
TxsOf == [b \in Blocks |-> FlattenSeq([i \in 1..Len(Path[b]) |-> Vtx[Path[b][i]]])]

\* The commitments of the notes of one protocol in a sequence of transactions.
Commitments(sapling, txs) ==
    SelectSeq(FlattenSeq([i \in 1..Len(txs) |-> Outputs[txs[i]]]),
              LAMBDA n : (n \in Sapling) = sapling)

\* The commitment tree of either protocol after block b, and what b adds to it.
TreeAt == [b \in Blocks |-> [s \in BOOLEAN |-> Commitments(s, TxsOf[b])]]
AddedBy == [b \in Blocks |-> [s \in BOOLEAN |-> Commitments(s, Vtx[b])]]

Position(n, tree) == CHOOSE i \in 1..Len(tree) : tree[i] = n

\* The nullifier of a note; of a Sapling note, at its position in the tree.
Nullifier(n, tree) == IF n \in Sapling THEN <<n, Position(n, tree)>> ELSE <<n>>

Revealed(txs) == UNION {Reveals[t] : t \in txs}

\* A transaction the consensus rules admit after block b: what it spends is in
\* the tree, at the position it claims, and not spent yet.
ValidAfter ==
    [t \in Txs, b \in Blocks |->
        /\ t \notin ToSet(TxsOf[b])
        /\ \A nf \in Reveals[t] :
            /\ nf \notin Revealed(ToSet(TxsOf[b]))
            /\ LET tree == TreeAt[b][IsSapling(nf[1])]
               IN  nf[1] \in ToSet(tree) /\ nf = Nullifier(nf[1], tree)]

\* The contents the memory pool can have after block b, out of `from`.
Pools(from, b) ==
    {m \in SUBSET {t \in from \cap Relayed : ValidAfter[t, b]} :
        \A t, u \in m : t # u => Reveals[t] \cap Reveals[u] = {}}

-----------------------------------------------------------------------------
(* Note data (SproutNoteData, SaplingNoteData). *)

NewNoteData(n) ==
    [witnesses |-> <<>>, witnessHeight |-> -1,
     nullifier |-> IF n \in Sapling THEN NoNullifier ELSE Nullifier(n, <<>>)]

\* operator==: of a Sprout note only the nullifier counts.
SameNoteData(n, x, y) ==
    /\ x.nullifier = y.nullifier
    /\ n \in Sapling => x.witnessHeight = y.witnessHeight

\* FindMySproutNotes and FindMySaplingNotes: the outputs one of our keys decrypts.
FindMyNotes(keys, t) ==
    [n \in {m \in ToSet(Outputs[t]) : Owner[m] \in keys} |-> NewNoteData(n)]

\* UpdateNullifierNoteMapWithTx: the cached nullifiers of a transaction.
CachedNullifiers(notes) ==
    {notes[n].nullifier : n \in DOMAIN notes} \ {NoNullifier}

\* UpdatedNoteData: for each protocol, nothing changes when nothing was found or
\* everything is equal; else the new data replaces the old, which lends it the
\* witnesses and their height.
Kind(notes, sapling) == [n \in {m \in DOMAIN notes : (m \in Sapling) = sapling} |-> notes[n]]

NotesUnchanged(found, known) ==
    \/ DOMAIN found = {}
    \/ /\ DOMAIN found = DOMAIN known
       /\ \A n \in DOMAIN found : SameNoteData(n, found[n], known[n])

MergedKind(found, known) ==
    IF NotesUnchanged(found, known) THEN known
    ELSE [n \in DOMAIN found |->
            IF n \notin DOMAIN known THEN found[n]
            ELSE [found[n] EXCEPT !.witnesses = known[n].witnesses,
                                  !.witnessHeight = known[n].witnessHeight]]

UpdatedNoteData(found, known) ==
    LET merged == [s \in BOOLEAN |-> MergedKind(Kind(found, s), Kind(known, s))]
    IN  [notes |-> [n \in DOMAIN merged[TRUE] \cup DOMAIN merged[FALSE] |->
                        merged[IsSapling(n)][n]],
         updated |-> \E s \in BOOLEAN : ~NotesUnchanged(Kind(found, s), Kind(known, s))]

-----------------------------------------------------------------------------
(* Adding transactions.  The operators take and return s = [w, d]: the wallet *)
(* and its file.                                                              *)

Extend(f, x, v) == [y \in DOMAIN f \cup {x} |-> IF y = x THEN v ELSE f[y]]

\* CWalletTx::WriteToDisk.
WriteTx(s, t) == [s EXCEPT !.d.mapWallet = Extend(@, t, s.w.mapWallet[t])]

\* AddToWallet, not from loading: the nullifiers registered are those of the
\* entry as it was found, before the merge.
AddToWallet(s, t, block, found) ==
    LET new == t \notin DOMAIN s.w.mapWallet
        old == IF new THEN [hashBlock |-> block, notes |-> found] ELSE s.w.mapWallet[t]
        merge == UpdatedNoteData(found, old.notes)
        moved == block # NoBlock /\ block # old.hashBlock
        entry == IF new THEN old
                 ELSE [hashBlock |-> IF moved THEN block ELSE old.hashBlock,
                       notes |-> merge.notes]
        next == [s EXCEPT !.w.mapWallet = Extend(@, t, entry),
                          !.w.nullifiers = @ \cup CachedNullifiers(old.notes)]
    IN  IF new \/ moved \/ merge.updated THEN WriteTx(next, t) ELSE next

\* IsSproutNullifierFromMe and IsSaplingNullifierFromMe, of any input.
IsFromMe(w, t) == Reveals[t] \cap w.nullifiers # {}

Involved(w, t) ==
    \/ t \in DOMAIN w.mapWallet
    \/ t \in TransparentlyMine
    \/ IsFromMe(w, t)
    \/ DOMAIN FindMyNotes(w.keys, t) # {}

\* AddToWalletIfInvolvingMe with fUpdate, the whole of SyncTransaction.
AddToWalletIfInvolvingMe(s, t, block) ==
    IF Involved(s.w, t) THEN AddToWallet(s, t, block, FindMyNotes(s.w.keys, t)) ELSE s

SyncTransactions(s, txs, block) ==
    FoldLeft(LAMBDA acc, t : AddToWalletIfInvolvingMe(acc, t, block), s, txs)

-----------------------------------------------------------------------------
(* The witness caches.  An assertion that fails clears w.ok. *)

\* Every note data of the wallet, rewritten by F(note, data).
MapNotes(w, F(_, _)) ==
    [w EXCEPT !.mapWallet = [t \in DOMAIN @ |->
        [@[t] EXCEPT !.notes = [n \in DOMAIN @ |-> F(n, @[n])]]]]

AllNotes(w, P(_, _)) ==
    \A t \in DOMAIN w.mapWallet : \A n \in DOMAIN w.mapWallet[t].notes :
        P(n, w.mapWallet[t].notes[n])

ClearNoteWitnessCache(w) ==
    [MapNotes(w, LAMBDA n, nd : [nd EXCEPT !.witnesses = <<>>, !.witnessHeight = -1])
        EXCEPT !.nWitnessCacheSize = 0]

\* CopyPreviousWitnesses: the witness for the previous block becomes the first
\* draft of the one for this block.
CopyPreviousWitnesses(nd) ==
    IF nd.witnesses = <<>> THEN <<>>
    ELSE LET more == <<Head(nd.witnesses)>> \o nd.witnesses
         IN  IF Len(more) > WITNESS_CACHE_SIZE THEN Front(more) ELSE more

\* A mutant: existing witnesses only take the commitments of later blocks in which
\* the wallet has a note.
AppendOnlyOwn(n, nd, b) ==
    LET s == n \in Sapling
        copied == CopyPreviousWitnesses(nd)
    IN  IF nd.witnessHeight >= Height[b] THEN nd
        ELSE [nd EXCEPT
                !.witnessHeight = Height[b],
                !.witnesses = IF n \in ToSet(AddedBy[b][s]) THEN <<TreeAt[b][s]>> ELSE copied]

\* AppendNoteCommitment, WitnessNoteIfMine and UpdateWitnessHeights for every
\* commitment of block b: a note of the block starts a new list, the others
\* append what the block adds to their first witness.
WitnessNote(n, nd, b) ==
    LET s == n \in Sapling
        copied == CopyPreviousWitnesses(nd)
    IN  IF nd.witnessHeight >= Height[b] THEN nd
        ELSE [nd EXCEPT
                !.witnessHeight = Height[b],
                !.witnesses =
                    IF n \in ToSet(AddedBy[b][s]) THEN <<TreeAt[b][s]>>
                    ELSE IF copied = <<>> THEN <<>>
                    ELSE <<Head(copied) \o AddedBy[b][s]>> \o Tail(copied)]

\* The assertions on one note, with the size of the caches before and after.
IncrementAllowed(n, nd, b, before, after) ==
    nd.witnessHeight < Height[b] =>
        /\ before >= Len(nd.witnesses)
        /\ nd.witnessHeight \in {-1, Height[b] - 1}
        /\ after >= Len(CopyPreviousWitnesses(nd))
        /\ after >= Len(WitnessNote(n, nd, b).witnesses)

IncrementNoteWitnesses(w, b) ==
    LET size == IF w.nWitnessCacheSize < WITNESS_CACHE_SIZE
                THEN w.nWitnessCacheSize + 1 ELSE w.nWitnessCacheSize
    IN  [MapNotes(w, LAMBDA n, nd : WitnessNote(n, nd, b)) EXCEPT
            !.nWitnessCacheSize = size,
            !.ok = @ /\ AllNotes(w, LAMBDA n, nd :
                            IncrementAllowed(n, nd, b, w.nWitnessCacheSize, size))]

\* The template DecrementNoteWitnesses on one note, and its assertions.
DecrementNote(nd, h) ==
    IF nd.witnessHeight > h THEN nd
    ELSE [nd EXCEPT !.witnesses = IF @ = <<>> THEN @ ELSE Tail(@),
                    !.witnessHeight = h - 1]

DecrementAllowed(nd, h, size) ==
    nd.witnessHeight <= h =>
        /\ size >= Len(nd.witnesses)
        /\ nd.witnessHeight \in {-1, h}
        /\ size - 1 >= Len(DecrementNote(nd, h).witnesses)

DecrementNoteWitnesses(w, h) ==
    [MapNotes(w, LAMBDA n, nd : DecrementNote(nd, h)) EXCEPT
        !.nWitnessCacheSize = @ - 1,
        !.ok = /\ @
               /\ AllNotes(w, LAMBDA n, nd : DecrementAllowed(nd, h, w.nWitnessCacheSize))
               /\ w.nWitnessCacheSize - 1 > 0]

\* UpdateSaplingNullifierNoteMapForBlock: the nullifiers of the notes of block b
\* from the position in their first witness; without a witness, none.
NullifierOf(n, nd) ==
    IF n \notin Sapling THEN nd.nullifier
    ELSE IF nd.witnesses = <<>> THEN NoNullifier
    ELSE Nullifier(n, Head(nd.witnesses))

UpdateSaplingNullifierNoteMapForBlock(w, b) ==
    LET mine == ToSet(Vtx[b]) \cap DOMAIN w.mapWallet
        notes(t) == w.mapWallet[t].notes
        dropped == UNION {{notes(t)[n].nullifier : n \in
                              {m \in DOMAIN notes(t) \cap Sapling : notes(t)[m].witnesses = <<>>}}
                          : t \in mine}
        found == UNION {{NullifierOf(n, notes(t)[n]) : n \in DOMAIN notes(t) \cap Sapling}
                        : t \in mine}
    IN  [w EXCEPT
            !.nullifiers = (@ \ dropped) \cup (found \ {NoNullifier}),
            !.mapWallet = [t \in DOMAIN @ |->
                IF t \notin mine THEN @[t]
                ELSE [@[t] EXCEPT !.notes = [n \in DOMAIN @ |->
                        [@[n] EXCEPT !.nullifier = NullifierOf(n, notes(t)[n])]]]]]

\* ChainTipAdded, and ChainTip for a block removed.
ChainTipAdded(w, b) ==
    UpdateSaplingNullifierNoteMapForBlock(IncrementNoteWitnesses(w, b), b)

ChainTipRemoved(w, b) ==
    UpdateSaplingNullifierNoteMapForBlock(DecrementNoteWitnesses(w, Height[b]), b)

-----------------------------------------------------------------------------
(* Scanning, saving and loading. *)

\* ScanForWalletTransactions: the blocks of the active chain from the one at
\* height `from` up to the tip; at the end the transactions with Sapling notes
\* that were added or updated are written again.
ScanBlock(s, b) ==
    LET added == SyncTransactions(s, Vtx[b], b) IN [added EXCEPT !.w = ChainTipAdded(@, b)]

ScanForWalletTransactions(s, from, b) ==
    LET blocks == SubSeq(Path[b], from + 1, Len(Path[b]))
        scan == FoldLeft(ScanBlock, s, blocks)
        mine == {t \in DOMAIN scan.w.mapWallet :
                    /\ \E i \in 1..Len(blocks) : t \in ToSet(Vtx[blocks[i]])
                    /\ DOMAIN scan.w.mapWallet[t].notes \cap Sapling # {}}
    IN  [scan EXCEPT
            !.d.scanned = IF from = 0 THEN scan.w.keys ELSE @,
            !.d.mapWallet = [t \in DOMAIN @ |-> IF t \in mine THEN scan.w.mapWallet[t] ELSE @[t]]]

\* SetBestChain: one database transaction with every transaction that has notes,
\* the size of the caches and the best block.
SetBestChain(s, b) ==
    [s EXCEPT !.d.mapWallet = [t \in DOMAIN @ |->
                    IF DOMAIN s.w.mapWallet[t].notes # {} THEN s.w.mapWallet[t] ELSE @[t]],
              !.d.nWitnessCacheSize = s.w.nWitnessCacheSize,
              !.d.best = b]

\* CWalletDB::LoadWallet: AddToWallet(wtx, true) for every record.
LoadWallet(d) ==
    [mapWallet |-> d.mapWallet,
     nullifiers |-> UNION {CachedNullifiers(d.mapWallet[t].notes) : t \in DOMAIN d.mapWallet},
     nWitnessCacheSize |-> d.nWitnessCacheSize, keys |-> d.keys, ok |-> TRUE]

\* FindForkInGlobalIndex on the locator of the saved best block, all of whose
\* ancestors the locator of a chain this short names.
FindFork(b, active) ==
    CHOOSE h \in 0..Height[active] :
        /\ IsAncestor(Path[active][h + 1], b)
        /\ \A k \in h + 1..Height[active] : ~IsAncestor(Path[active][k + 1], b)

\* AppInit2, step 8: load the wallet, then rescan from where its saved best block
\* left the active chain, or with -rescan from the genesis block after dropping
\* the witness caches; a rescan ends with SetBestChain.
StartWallet(file, active, rescan) ==
    LET loaded == LoadWallet(file)
        s == [w |-> IF rescan THEN ClearNoteWitnessCache(loaded) ELSE loaded, d |-> file]
        from == IF rescan THEN 0 ELSE FindFork(file.best, active)
    IN  IF from = Height[active] THEN s
        ELSE SetBestChain(ScanForWalletTransactions(s, from, active), active)

\* GetDepthInMainChain of a transaction of the wallet: at least 1 in the chain,
\* 0 in the memory pool, -1 elsewhere.
Depth(w, t) ==
    LET b == w.mapWallet[t].hashBlock
    IN  IF b # NoBlock /\ IsAncestor(b, tip) THEN Height[tip] - Height[b] + 1
        ELSE IF t \in mempool THEN 0 ELSE -1

\* A mutant: a spend counts only once it is confirmed.
SpentWhenConfirmed(w, nf) ==
    \E t \in DOMAIN w.mapWallet : nf \in Reveals[t] /\ Depth(w, t) > 0

\* IsSproutSpent and IsSaplingSpent: the spends of a transaction are registered
\* when it is added (AddToSpends) and count while it is not conflicted.
IsSpent(w, nf) ==
    \E t \in DOMAIN w.mapWallet : nf \in Reveals[t] /\ Depth(w, t) >= 0

\* GetFilteredNotes: the notes to spend, with at least one confirmation.
GetFilteredNotes(w) ==
    UNION {{n \in DOMAIN w.mapWallet[t].notes :
                LET nf == w.mapWallet[t].notes[n].nullifier
                IN  ~(nf # NoNullifier /\ IsSpent(w, nf))}
           : t \in {u \in DOMAIN w.mapWallet : Depth(w, u) >= 1}}

-----------------------------------------------------------------------------
(* The steps.  cs_main and cs_wallet make each of them atomic. *)

EmptyMap == [t \in {} |-> t]

Init ==
    /\ tip = StartTip /\ coinsTip = StartTip
    /\ peak = Height[StartTip]
    /\ mempool = {} /\ recent = {} /\ reporting = {}
    /\ disk = [mapWallet |-> EmptyMap, keys |-> InitialKeys, best |-> StartTip,
               scanned |-> InitialKeys,
               nWitnessCacheSize |->
                    IF Height[StartTip] < WITNESS_CACHE_SIZE
                    THEN Height[StartTip] ELSE WITNESS_CACHE_SIZE]
    /\ durable = disk
    /\ wallet = LoadWallet(disk)
    /\ rewritten = FALSE /\ ahead = NoBlock /\ restarts = 0 /\ lost = FALSE

Running == wallet.ok /\ (lost => FollowLost)
Now == [w |-> wallet, d |-> disk]
Becomes(s) == wallet' = s.w /\ disk' = s.d

\* The active chain follows, or leaves, the blocks the loaded witnesses are
\* ahead by.
Follow(b) ==
    /\ rewritten' = (rewritten \/ ahead # NoBlock)
    /\ ahead' = IF b = ahead THEN NoBlock ELSE ahead
    /\ lost' = (lost \/ (ahead # NoBlock /\ ~IsAncestor(b, ahead)))

\* main.cpp, ConnectTip, from the memory pool's removeForBlock on.
ConnectTip(b) ==
    LET conflicted == {t \in mempool \ ToSet(Vtx[b]) :
                            Reveals[t] \cap Revealed(ToSet(Vtx[b])) # {}}
        synced == SyncTransactions(SyncTransactions(Now, SetToSeq(conflicted), NoBlock),
                                   Vtx[b], b)
    IN  /\ Running
        /\ b # Genesis /\ Parent[b] = tip
        /\ tip' = b
        /\ peak' = IF Height[b] > peak THEN Height[b] ELSE peak
        /\ mempool' = mempool \ (conflicted \cup ToSet(Vtx[b]))
        /\ recent' = recent \cap mempool'
        /\ Becomes([synced EXCEPT !.w = ChainTipAdded(@, b)])
        /\ Follow(b)
        /\ UNCHANGED <<reporting, coinsTip, durable, restarts>>

\* main.cpp, DisconnectTip: the block's transactions go back to the memory pool
\* if it takes them, then are reported as out of the chain, then the block.
\* ActivateBestChainStep refuses to leave more than MAX_REORG_LENGTH blocks behind.
DisconnectTip ==
    LET below == Parent[tip] IN
    \E pool \in Pools(mempool \cup ToSet(Vtx[tip]), below) :
        LET synced == SyncTransactions(Now, Vtx[tip], NoBlock)
        IN  /\ Running
            /\ tip # StartTip \* bound: only the blocks above the first tip
            /\ peak - Height[below] <= MAX_REORG_LENGTH
            /\ tip' = below
            /\ mempool' = pool
            /\ recent' = (recent \cap pool) \cup (pool \ mempool)
            /\ Becomes([synced EXCEPT !.w = ChainTipRemoved(@, tip)])
            /\ rewritten' = TRUE
            /\ UNCHANGED <<peak, reporting, coinsTip, durable, ahead, restarts, lost>>

\* A transaction the memory pool may take.
Acceptable(t) ==
    /\ t \in Relayed \ mempool
    /\ ValidAfter[t, tip]
    /\ \A u \in mempool : Reveals[t] \cap Reveals[u] = {}

\* addUnchecked, for a transaction from the network.
AcceptToMemoryPool(t) ==
    /\ Running
    /\ Acceptable(t)
    /\ mempool' = mempool \cup {t}
    /\ recent' = recent \cup {t}
    /\ UNCHANGED <<tip, peak, reporting, coinsTip, wallet, disk, durable,
                   rewritten, ahead, restarts, lost>>

\* The thread txnotify, once a second: NotifyRecentlyAdded takes what was added
\* out of the memory pool's map, then reports each under cs_main; blocks may be
\* connected and disconnected before and between the reports.
NotifyRecentlyAdded ==
    /\ Running
    /\ reporting = {} /\ recent # {}
    /\ reporting' = recent
    /\ recent' = {}
    /\ UNCHANGED <<tip, peak, mempool, coinsTip, wallet, disk, durable,
                   rewritten, ahead, restarts, lost>>

Report(t) ==
    /\ Running
    /\ t \in reporting
    /\ reporting' = reporting \ {t}
    /\ Becomes(SyncTransactions(Now, <<t>>, NoBlock))
    /\ lost' = (lost \/ (/\ t \in ToSet(TxsOf[tip])
                         /\ DOMAIN FindMyNotes(wallet.keys, t) \cap Sapling # {}))
    /\ UNCHANGED <<tip, peak, mempool, recent, coinsTip, durable, rewritten, ahead, restarts>>

\* CommitTransaction of a transaction of ours: recorded without its notes, which
\* the memory pool's report adds if it takes the transaction.
CommitTransaction(t) ==
    /\ Running
    /\ t \in TransparentlyMine \ DOMAIN wallet.mapWallet
    /\ IF Acceptable(t)
       THEN mempool' = mempool \cup {t} /\ recent' = recent \cup {t}
       ELSE UNCHANGED <<mempool, recent>>
    /\ Becomes(AddToWallet(Now, t, NoBlock, EmptyMap))
    /\ durable' = disk'
    /\ UNCHANGED <<tip, peak, reporting, coinsTip, rewritten, ahead, restarts, lost>>

\* FlushStateToDisk: perhaps the coins, perhaps (on its own timer) the wallet.
FlushStateToDisk(full, best) ==
    /\ Running
    /\ full \/ best
    /\ restarts < MaxRestarts \* a flush after the last restart shows nothing
    /\ coinsTip' = IF full THEN tip ELSE coinsTip
    /\ IF best
       THEN /\ Becomes(SetBestChain(Now, tip))
            /\ durable' = disk'
            /\ rewritten' = FALSE
       ELSE UNCHANGED <<wallet, disk, durable, rewritten>>
    /\ UNCHANGED <<tip, peak, mempool, recent, reporting, ahead, restarts, lost>>

\* z_importkey with "yes" or "no" for rescan, or a new key with "whenkeyisnew".
\* The key is written and flushed before the scan.
ImportKey(k, rescan) ==
    LET s == [w |-> [wallet EXCEPT !.keys = @ \cup {k}], d |-> [disk EXCEPT !.keys = @ \cup {k}]]
    IN  /\ Running
        /\ k \notin (IF rescan THEN disk.scanned ELSE wallet.keys)
        /\ durable' = s.d
        /\ Becomes(IF rescan THEN ScanForWalletTransactions(s, 0, tip) ELSE s)
        /\ rewritten' = (rewritten \/ wallet'.nWitnessCacheSize > wallet.nWitnessCacheSize)
        /\ UNCHANGED <<tip, peak, mempool, recent, reporting, coinsTip, ahead, restarts, lost>>

\* The process ends, in an orderly way, killed, or with the machine, and starts
\* again: the chain where the coins database is, the wallet from its file
\* (without what was not flushed, if the machine went down), an empty memory
\* pool that ReacceptWalletTransactions fills.
Restart(file, rescan) ==
    LET s == StartWallet(file, coinsTip, rescan) IN
        \E pool \in Pools(DOMAIN s.w.mapWallet, coinsTip) :
            /\ restarts < MaxRestarts /\ restarts' = restarts + 1
            /\ tip' = coinsTip
            /\ mempool' = pool /\ recent' = pool /\ reporting' = {}
            /\ Becomes(s)
            /\ durable' = s.d
            /\ rewritten' = FALSE
            /\ ahead' = IF rescan \/ tip = coinsTip THEN NoBlock ELSE tip
            /\ lost' = (~rescan /\ ( \/ lost \/ rewritten \/ ahead # NoBlock
                                    \/ ~IsAncestor(coinsTip, tip)))
            /\ UNCHANGED <<coinsTip, peak>>

Next ==
    \/ \E b \in Blocks : ConnectTip(b)
    \/ DisconnectTip
    \/ \E t \in Txs : AcceptToMemoryPool(t) \/ CommitTransaction(t) \/ Report(t)
    \/ NotifyRecentlyAdded
    \/ \E full, best \in BOOLEAN : FlushStateToDisk(full, best)
    \/ \E k \in Keys, rescan \in BOOLEAN : ImportKey(k, rescan)
    \/ \E file \in {disk, durable} :
        \/ Running /\ Restart(file, FALSE)
        \/ (lost \/ ~wallet.ok) /\ Restart(file, TRUE) \* bound: -rescan as a repair

Spec == Init /\ [][Next]_vars

-----------------------------------------------------------------------------
(* Properties *)

\* None of the assertions on the witness caches (CopyPreviousWitnesses,
\* AppendNoteCommitment, WitnessNoteIfMine, UpdateWitnessHeights,
\* DecrementNoteWitnesses) fails, as long as every restart finds a file saved since
\* the last reorganisation and since the last restart.
AssertsHold == wallet.ok \/ lost

\* Every note of a confirmed transaction has a witness for the current tree, and
\* behind it the witnesses for the blocks below, as IncrementNoteWitnesses and
\* DecrementNoteWitnesses must leave them for the note to be spendable now and
\* after a reorganisation; after a restart that found the wallet ahead of the
\* chain, for the block the wallet was saved at.  No assertion on the way fails.
WitnessesCurrent ==
    LET front == Path[IF ahead = NoBlock THEN tip ELSE ahead] IN
    AssertsHold /\ (wallet.ok /\ ~lost =>
        \A t \in DOMAIN wallet.mapWallet : \A n \in DOMAIN wallet.mapWallet[t].notes :
            LET nd == wallet.mapWallet[t].notes[n] IN
            Depth(wallet, t) >= 1 =>
                /\ nd.witnesses # <<>>
                /\ nd.witnessHeight >= Height[tip]
                /\ \A i \in 1..Len(nd.witnesses) :
                    nd.witnesses[i] = TreeAt[front[nd.witnessHeight - i + 2]][IsSapling(n)])

\* The confirmed notes of the keys of a scan that neither the chain nor the
\* transactions in pool spend.
Unspent(pool) ==
    LET spent == Revealed(ToSet(TxsOf[tip]) \cup pool)
    IN  {n \in UNION {ToSet(Outputs[t]) : t \in ToSet(TxsOf[tip])} :
            /\ Owner[n] \in disk.scanned
            /\ Nullifier(n, TreeAt[tip][IsSapling(n)]) \notin spent}

OffersExactly ==
    LET offered == {n \in GetFilteredNotes(wallet) : Owner[n] \in disk.scanned}
    IN  /\ Unspent(mempool) \subseteq offered
        /\ offered \subseteq Unspent(mempool \ (recent \cup reporting))

\* The notes GetFilteredNotes offers for spending are exactly the confirmed notes
\* of our keys that no transaction of the chain, or of those in the memory pool the
\* wallet was told of, spends: through reorganisations, rescans, crashes and keys
\* imported late, no note is forgotten and no spent note is offered again.
SpendableExact == wallet.ok /\ ~lost => OffersExactly

\* The same with the reports of NotifyRecentlyAdded in any order with the blocks:
\* "harmless because calling SyncWithWallets(_, NULL) does not alter the wallet
\* transaction's block information" (txmempool.cpp).
LateReportHarmless == wallet.ok => OffersExactly
=============================================================================
