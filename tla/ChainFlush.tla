----------------------------- MODULE ChainFlush -----------------------------
(***************************************************************************)
(* What the node keeps on disk and how it gets there (src/src/main.cpp):   *)
(* the block and undo files, the block index database and the chain state  *)
(* database, FlushStateToDisk that brings them up to date one after the    *)
(* other, the failures of its steps, a crash between any two of them, and  *)
(* the start of the node from what a crash left (LoadBlockIndexDB and      *)
(* VerifyDB).                                                              *)
(*                                                                         *)
(* FlushStateToDisk holds cs_main from its first step to its last, so the  *)
(* other operations wait (phase) while only a crash can come between.  A   *)
(* block's effect on the coins is one member of a set: the coins after     *)
(* block b are Ancestors[b].  Which chain is chosen is the subject of      *)
(* ChainState; here any child of the tip may be connected.                 *)
(***************************************************************************)
EXTENDS Integers, Sequences

CONSTANTS
    Blocks, Genesis,
    Parent,            \* pprev
    Ancestors,         \* the chain that ends in a block, that block included
    Height,            \* nHeight
    Garbage,           \* what a read of lost file contents returns
    nPruneAfterHeight,
    MIN_BLOCKS_TO_KEEP,
    Nodes              \* nodes: their options, machines and bounds

ASSUME TreeAssumption ==
    /\ Genesis \in Blocks
    /\ Garbage \notin Blocks
    /\ Parent \in [Blocks \ {Genesis} -> Blocks]
    /\ Ancestors \in [Blocks -> SUBSET Blocks]
    /\ Height \in [Blocks -> Nat]
    /\ Ancestors[Genesis] = {Genesis}
    /\ Height[Genesis] = 0
    /\ \A b \in Blocks \ {Genesis} :
         /\ b \notin Ancestors[Parent[b]]
         /\ Ancestors[b] = Ancestors[Parent[b]] \cup {b}
         /\ Height[b] = Height[Parent[b]] + 1

\* chainparams.cpp: nPruneAfterHeight is 100000 or 1000, more than the 288
\* blocks of main.h; the subtraction in FindFilesToPrune relies on it.
ASSUME PruneAssumption ==
    /\ MIN_BLOCKS_TO_KEEP \in Nat
    /\ nPruneAfterHeight \in Nat
    /\ nPruneAfterHeight >= MIN_BLOCKS_TO_KEEP

ASSUME NodeAssumption ==
    /\ Nodes \subseteq [Arriving: SUBSET Blocks,
                        Files: SUBSET Nat, BlocksPerFile: Nat \ {0},
                        fPruneMode: BOOLEAN, nCheckDepth: Nat \ {0},
                        PowerLoss: BOOLEAN,
                        Faults: SUBSET {"block", "undo", "space", "index", "coins"},
                        MaxFailures: Nat, MaxUnsynced: Nat \ {0}]
    /\ \A n \in Nodes : 0 \in n.Files

VARIABLES
    \* memory
    index,               \* mapBlockIndex: an Entry for each block
    setDirtyBlockIndex,
    setDirtyFileInfo,
    vinfoBlockFile,
    nLastBlockFile,
    fCheckForPruning,
    tip,                 \* chainActive.Tip()
    coinsBest,           \* pcoinsTip's hashBlock
    coinsCache,          \* its entries: block |-> are its effects applied
    \* the call of FlushStateToDisk in progress
    phase, mode, fDoFullFlush, setFilesToPrune,
    \* disk
    blk, rev,            \* blk?????.dat and rev?????.dat: sequences of blocks
    unsynced,            \* positions of them written since the last FileCommit
    dbIndex, dbFileInfo, dbLastBlockFile,   \* blocks/index
    chainstate,          \* chainstate: its last durable version and later ones
    faults, crashes,     \* failures and crashes so far, for the bounds
    node                 \* the node, which stays the same

indexVars == <<index, setDirtyBlockIndex, setDirtyFileInfo, vinfoBlockFile,
               nLastBlockFile, fCheckForPruning>>
coinsVars == <<coinsBest, coinsCache>>
callVars == <<phase, mode, fDoFullFlush, setFilesToPrune>>
fileVars == <<blk, rev, unsynced>>
treeVars == <<dbIndex, dbFileInfo, dbLastBlockFile>>
vars == <<indexVars, tip, coinsVars, callVars, fileVars, treeVars, chainstate,
          faults, crashes, node>>

-----------------------------------------------------------------------------
Arriving == node.Arriving            \* bound: the blocks that peers send
Files == node.Files                  \* bound: block file numbers
BlocksPerFile == node.BlocksPerFile  \* MAX_BLOCKFILE_SIZE, in blocks
fPruneMode == node.fPruneMode        \* -prune
nCheckDepth == node.nCheckDepth      \* -checkblocks
PowerLoss == node.PowerLoss          \* a crash also loses what was not synced
Faults == node.Faults                \* the writes that may fail
MaxFailures == node.MaxFailures      \* bound: failed writes and crashes together
MaxUnsynced == node.MaxUnsynced      \* bound: chain state batches not yet durable

\* nFile, nDataPos and nUndoPos of a CBlockIndex; position 0 is a cleared
\* BLOCK_HAVE_DATA or BLOCK_HAVE_UNDO.
Entry == [known: BOOLEAN, nFile: Files, nDataPos: Nat, nUndoPos: Nat]
NoEntry == [known |-> FALSE, nFile |-> 0, nDataPos |-> 0, nUndoPos |-> 0]

\* ReceivedBlockTransactions; and a header whose block is not there.
Stored(f, pos) == [known |-> TRUE, nFile |-> f, nDataPos |-> pos, nUndoPos |-> 0]
Header == Stored(0, 0)

NoInfo == [nSize |-> 0, nUndoSize |-> 0, nHeightLast |-> 0]

Latest == chainstate[Len(chainstate)]

\* What pcoinsTip shows: its own entries before those of the database.
CoinsView ==
    {b \in Blocks : IF b \in DOMAIN coinsCache THEN coinsCache[b]
                                               ELSE b \in Latest.applied}

EmptyCache == [b \in {} |-> TRUE]

Cached(b, applied) ==
    [c \in DOMAIN coinsCache \cup {b} |-> IF c = b THEN applied ELSE coinsCache[c]]

\* Contents of a file after writing x at position p: over what a crash left
\* there, or at the end.
Written(file, p, x) ==
    IF p <= Len(file) THEN [file EXCEPT ![p] = x] ELSE Append(file, x)

At(file, p) == IF p \in DOMAIN file THEN file[p] ELSE Garbage

\* ReadBlockFromDisk, UndoReadFromDisk: the block's hash and the undo data's
\* checksum tell foreign contents.
BlockReadable(ix, b) == ix[b].nDataPos > 0 /\ At(blk[ix[b].nFile], ix[b].nDataPos) = b
UndoReadable(ix, b) == ix[b].nUndoPos > 0 /\ At(rev[ix[b].nFile], ix[b].nUndoPos) = b

-----------------------------------------------------------------------------
(* Start and stop.                                                         *)

\* A database in which InitBlockIndex has stored and flushed the genesis
\* block.
Init ==
    /\ node \in Nodes
    /\ index = [b \in Blocks |-> IF b = Genesis THEN Stored(0, 1) ELSE NoEntry]
    /\ vinfoBlockFile = [f \in Files |-> [NoInfo EXCEPT !.nSize = IF f = 0 THEN 1 ELSE 0]]
    /\ nLastBlockFile = 0
    /\ setDirtyBlockIndex = {}
    /\ setDirtyFileInfo = {}
    /\ fCheckForPruning = FALSE
    /\ tip = Genesis
    /\ coinsBest = Genesis
    /\ coinsCache = EmptyCache
    /\ phase = "run"
    /\ mode = "none"
    /\ fDoFullFlush = FALSE
    /\ setFilesToPrune = {}
    /\ blk = [f \in Files |-> IF f = 0 THEN <<Genesis>> ELSE <<>>]
    /\ rev = [f \in Files |-> <<>>]
    /\ unsynced = {}
    /\ dbIndex = index
    /\ dbFileInfo = vinfoBlockFile
    /\ dbLastBlockFile = 0
    /\ chainstate = <<[best |-> Genesis, applied |-> {Genesis}]>>
    /\ faults = 0
    /\ crashes = 0

\* VerifyDB at its default level 3: each of the last blocks is read and
\* disconnected in memory, which needs its undo data and finds its effects.
\* The loop stops below Height - nCheckDepth, so it reads nCheckDepth + 1
\* blocks.
VerifyDB ==
    \A b \in Ancestors[Latest.best] \ {Genesis} :
        Height[b] >= Height[Latest.best] - nCheckDepth =>
            /\ BlockReadable(dbIndex, b)
            /\ UndoReadable(dbIndex, b)
            /\ b \in Latest.applied

\* AppInit2 can continue: every block file the index names is there
\* (LoadBlockIndexDB), the chain state's best block is in the index (if not,
\* no tip is set, and connecting the genesis block to a non-empty chain state
\* fails an assertion), and the check of the last blocks finds nothing.
Startable ==
    /\ \A b \in Blocks : dbIndex[b].nDataPos > 0 => blk[dbIndex[b].nFile] # <<>>
    /\ dbIndex[Latest.best].known
    /\ VerifyDB

\* LoadBlockIndexDB and, in prune mode, PruneAndFlush; reads the disk as the
\* step leaves it.
Load ==
    /\ index' = dbIndex'
    /\ vinfoBlockFile' = dbFileInfo'
    /\ nLastBlockFile' = dbLastBlockFile'
    /\ setDirtyBlockIndex' = {}
    /\ setDirtyFileInfo' = {}
    /\ tip' = Latest'.best
    /\ coinsBest' = Latest'.best
    /\ coinsCache' = EmptyCache
    /\ fCheckForPruning' = fPruneMode
    /\ phase' = IF ~Startable' THEN "refused" ELSE IF fPruneMode THEN "decide" ELSE "run"
    /\ mode' = "none"
    /\ fDoFullFlush' = FALSE
    /\ setFilesToPrune' = {}

Lost(kind, files, lost) ==
    [f \in Files |-> [p \in DOMAIN files[f] |->
        IF <<kind, f, p>> \in lost THEN Garbage ELSE files[f][p]]]

\* The process dies at any moment.  What the operating system was given is
\* kept, unless it dies too: then file contents not yet synced and the last
\* batches of the chain state, which WriteBatch does not sync, may be lost.
Crash ==
    /\ phase # "refused"
    /\ faults + crashes < MaxFailures
    /\ \E lost \in IF PowerLoss THEN SUBSET unsynced ELSE {{}},
          kept \in IF PowerLoss THEN 1..Len(chainstate) ELSE {Len(chainstate)} :
         /\ blk' = Lost("blk", blk, lost)
         /\ rev' = Lost("rev", rev, lost)
         /\ chainstate' = SubSeq(chainstate, 1, kept)
    /\ unsynced' = IF PowerLoss THEN {} ELSE unsynced
    /\ UNCHANGED treeVars
    /\ Load
    /\ crashes' = crashes + 1
    /\ UNCHANGED faults

Call(m) == phase' = "decide" /\ mode' = m

\* Shutdown, asked for by the user or by AbortNode.
Shutdown ==
    /\ phase = "run"
    /\ Call("shutdown")
    /\ UNCHANGED <<indexVars, tip, coinsVars, fDoFullFlush, setFilesToPrune,
                   fileVars, treeVars, chainstate, faults, crashes>>

\* The node is started again after a shutdown.
Restart ==
    /\ phase = "stopped"
    /\ UNCHANGED <<fileVars, treeVars, chainstate, faults, crashes>>
    /\ Load

\* FlushStateToDisk after ActivateBestChain (periodic) or for an RPC (always).
Flush(m) ==
    /\ phase = "run"
    /\ Call(m)
    /\ UNCHANGED <<indexVars, tip, coinsVars, fDoFullFlush, setFilesToPrune,
                   fileVars, treeVars, chainstate, faults, crashes>>

-----------------------------------------------------------------------------
(* Blocks arrive and are connected.                                        *)

Fails(kind) == kind \in Faults /\ faults + crashes < MaxFailures

AddToBlockIndex(b) ==
    /\ index' = [index EXCEPT ![b] = Header]
    /\ setDirtyBlockIndex' = setDirtyBlockIndex \cup {b}

AcceptBlockHeader(b) ==
    /\ phase = "run"
    /\ ~index[b].known
    /\ index[Parent[b]].known
    /\ AddToBlockIndex(b)
    /\ UNCHANGED <<setDirtyFileInfo, vinfoBlockFile, nLastBlockFile, fCheckForPruning,
                   tip, coinsVars, callVars, fileVars, treeVars, chainstate, faults, crashes>>

\* FlushBlockFile commits the two files that are current, and only those.
Uncommitted(f) == {u \in unsynced : u[2] # f}

\* The first file from the current one on with room for a block.
FindBlockPos ==
    {f \in Files :
        /\ f >= nLastBlockFile
        /\ vinfoBlockFile[f].nSize < BlocksPerFile
        /\ \A e \in Files : e \in nLastBlockFile..(f - 1) => vinfoBlockFile[e].nSize >= BlocksPerFile}

Truncated(file, n) == SubSeq(file, 1, IF n < Len(file) THEN n ELSE Len(file))

\* A file that FindBlockPos leaves for f is cut to what it holds.
Finalized(files, f, n) ==
    IF f = nLastBlockFile THEN files
    ELSE [files EXCEPT ![nLastBlockFile] = Truncated(@, n)]

Raised(info, b) ==
    [info EXCEPT !.nSize = @ + 1,
                 !.nHeightLast = IF Height[b] > @ THEN Height[b] ELSE @]

\* FindBlockPos, WriteBlockToDisk and ReceivedBlockTransactions for a block that
\* goes to file f; chunk: the file grew by a chunk, and prune mode checks.
StoreBlock(b, ok, f, chunk) ==
    LET pos == vinfoBlockFile[f].nSize + 1
        old == nLastBlockFile
    IN  /\ index' = [index EXCEPT ![b] = Stored(f, pos)]
        /\ vinfoBlockFile' = [vinfoBlockFile EXCEPT ![f] = Raised(@, b)]
        /\ nLastBlockFile' = f
        /\ setDirtyFileInfo' = setDirtyFileInfo \cup {f}
        /\ setDirtyBlockIndex' = setDirtyBlockIndex \cup {b}
        /\ fCheckForPruning' = (fCheckForPruning \/ chunk)
        /\ blk' = [Finalized(blk, f, vinfoBlockFile[old].nSize)
                      EXCEPT ![f] = Written(@, pos, IF ok THEN b ELSE Garbage)]
        /\ rev' = Finalized(rev, f, vinfoBlockFile[old].nUndoSize)
        /\ unsynced' = (IF f # old THEN Uncommitted(old) ELSE unsynced)
                          \cup {<<"blk", f, pos>>}

\* AcceptBlock: a failure to write the block starts a shutdown but does not
\* return, so the index records the block all the same.  A pruned block is
\* downloaded again only when it is not on the active chain.
AcceptBlock(b, ok) ==
    /\ phase = "run"
    /\ b \notin Ancestors[tip]
    /\ index[Parent[b]].known
    /\ index[b].nDataPos = 0
    /\ ok \/ Fails("block")
    /\ \E f \in FindBlockPos, chunk \in IF fPruneMode THEN BOOLEAN ELSE {FALSE} :
         StoreBlock(b, ok, f, chunk)
    /\ IF fCheckForPruning' THEN Call("none") ELSE UNCHANGED <<phase, mode>>
    /\ faults' = IF ok THEN faults ELSE faults + 1
    /\ UNCHANGED <<tip, coinsVars, fDoFullFlush, setFilesToPrune, treeVars, chainstate, crashes>>

UndoPos(b) == vinfoBlockFile[index[b].nFile].nUndoSize + 1

UndoSize(b) == UndoPos(b)

\* Variant for mutation: the entry is not dirty when its undo position changes.
UndoRecordedClean(b, ok) ==
    /\ index' = IF ok THEN [index EXCEPT ![b].nUndoPos = UndoPos(b)] ELSE index
    /\ UNCHANGED setDirtyBlockIndex

UndoRecorded(b, ok) ==
    IF ok THEN /\ index' = [index EXCEPT ![b].nUndoPos = UndoPos(b)]
               /\ setDirtyBlockIndex' = setDirtyBlockIndex \cup {b}
          ELSE UNCHANGED <<index, setDirtyBlockIndex>>

\* FindUndoPos and UndoWriteToDisk.  The undo data goes to the file of the
\* block, which need not be the current one.
WriteUndo(b, ok) ==
    LET f == index[b].nFile
        pos == UndoPos(b)
    IN  /\ \E chunk \in IF fPruneMode THEN BOOLEAN ELSE {FALSE} :
             fCheckForPruning' = (fCheckForPruning \/ chunk)
        /\ vinfoBlockFile' = [vinfoBlockFile EXCEPT ![f].nUndoSize = UndoSize(b)]
        /\ setDirtyFileInfo' = setDirtyFileInfo \cup {f}
        /\ rev' = [rev EXCEPT ![f] = Written(@, pos, IF ok THEN b ELSE Garbage)]
        /\ unsynced' = unsynced \cup {<<"rev", f, pos>>}
        /\ UndoRecorded(b, ok)

\* ConnectBlock's assertion that the view is at the parent, and inputs that
\* are all there.
Connectable(b) ==
    /\ b # Genesis
    /\ tip = Parent[b]
    /\ coinsBest = tip
    /\ CoinsView = Ancestors[tip]
    /\ BlockReadable(index, b)

\* ConnectTip up to its call of FlushStateToDisk.
ConnectTip(b) ==
    /\ phase = "run"
    /\ Connectable(b)
    /\ IF index[b].nUndoPos = 0
       THEN WriteUndo(b, TRUE)
       ELSE UNCHANGED <<index, setDirtyBlockIndex, setDirtyFileInfo, vinfoBlockFile,
                        fCheckForPruning, rev, unsynced>>
    /\ coinsBest' = b
    /\ coinsCache' = Cached(b, TRUE)
    /\ Call("if_needed")
    /\ UNCHANGED <<nLastBlockFile, tip, fDoFullFlush, setFilesToPrune, blk, treeVars,
                   chainstate, faults, crashes>>

\* ConnectTip when the undo data cannot be written: AbortNode, and the view of
\* the block is dropped.
ConnectTipFails(b) ==
    /\ phase = "run"
    /\ Connectable(b)
    /\ index[b].nUndoPos = 0
    /\ Fails("undo")
    /\ WriteUndo(b, FALSE)
    /\ faults' = faults + 1
    /\ UNCHANGED <<nLastBlockFile, tip, coinsVars, callVars, blk, treeVars, chainstate, crashes>>

\* DisconnectTip up to its call of FlushStateToDisk, on the way to a longer
\* branch.
DisconnectTip ==
    /\ phase = "run"
    /\ \E c \in Blocks :
         /\ index[c].nDataPos > 0
         /\ tip \notin Ancestors[c]
         /\ Height[c] > Height[tip]
    /\ tip # Genesis
    /\ coinsBest = tip
    /\ CoinsView = Ancestors[tip]
    /\ BlockReadable(index, tip)
    /\ UndoReadable(index, tip)
    /\ coinsBest' = Parent[tip]
    /\ coinsCache' = Cached(tip, FALSE)
    /\ Call("if_needed")
    /\ UNCHANGED <<indexVars, tip, fDoFullFlush, setFilesToPrune, fileVars, treeVars,
                   chainstate, faults, crashes>>

-----------------------------------------------------------------------------
(* FlushStateToDisk.                                                       *)

\* Its end.  Its callers in ConnectTip and DisconnectTip go on to UpdateTip
\* if it succeeded; Shutdown ends the process in either case.
Return(ok) ==
    /\ phase' = IF mode = "shutdown" THEN "stopped" ELSE "run"
    /\ tip' = IF mode = "if_needed" /\ ok THEN coinsBest ELSE tip
    /\ mode' = "none"
    /\ fDoFullFlush' = FALSE
    /\ setFilesToPrune' = {}

\* FindFilesToPrune takes them in order until the usage is below the target.
Prunable ==
    {f \in Files :
        /\ f < nLastBlockFile
        /\ vinfoBlockFile[f].nSize > 0
        /\ vinfoBlockFile[f].nHeightLast <= Height[tip] - MIN_BLOCKS_TO_KEEP}

FindFilesToPrune ==
    IF fPruneMode /\ fCheckForPruning /\ Height[tip] > nPruneAfterHeight
    THEN {{f \in Prunable : f < n} : n \in 0..nLastBlockFile}
    ELSE {{}}

\* PruneOneBlockFile clears every entry that names the file.
Pruned(files) ==
    {b \in Blocks : index[b].known /\ index[b].nFile \in files}

DirtyPruned(files) == setDirtyBlockIndex \cup Pruned(files)

PruneFiles(files) ==
    /\ index' = [b \in Blocks |-> IF b \in Pruned(files) THEN Header ELSE index[b]]
    /\ setDirtyBlockIndex' = DirtyPruned(files)
    /\ vinfoBlockFile' = [f \in Files |-> IF f \in files THEN NoInfo ELSE vinfoBlockFile[f]]
    /\ setDirtyFileInfo' = setDirtyFileInfo \cup files
    /\ fCheckForPruning' = FALSE
    /\ UNCHANGED nLastBlockFile

\* Variant for mutation: the flush of a shutdown is not forced.
AlwaysUnlessShutdown == mode = "always"

\* FLUSH_STATE_ALWAYS
Always == mode \in {"always", "shutdown"}

\* Variant for mutation: FLUSH_STATE_IF_NEEDED writes only the coins.
BeginWithCoins(full, files) ==
    /\ phase' = IF mode = "if_needed" THEN "coins" ELSE "files"
    /\ fDoFullFlush' = full
    /\ setFilesToPrune' = files
    /\ UNCHANGED <<mode, tip>>

Begin(full, files) ==
    /\ phase' = "files"
    /\ fDoFullFlush' = full
    /\ setFilesToPrune' = files
    /\ UNCHANGED <<mode, tip>>

\* The decision what to write, by mode, cache size and time; pruning is a
\* reason for a full flush.
Decide ==
    /\ phase = "decide"
    /\ \E files \in FindFilesToPrune, full, write \in BOOLEAN :
         /\ full => mode # "none" \/ files # {}
         /\ Always \/ files # {} => full
         /\ write => mode = "periodic"
         /\ PruneFiles(files)
         /\ IF full \/ write THEN Begin(full, files) ELSE Return(TRUE)
    /\ UNCHANGED <<coinsVars, fileVars, treeVars, chainstate, faults, crashes>>

\* CheckDiskSpace fails before anything is written.
OutOfDiskSpace ==
    /\ phase = "decide"
    /\ Fails("space")
    /\ \E files \in FindFilesToPrune : PruneFiles(files)
    /\ Return(FALSE)
    /\ faults' = faults + 1
    /\ UNCHANGED <<coinsVars, fileVars, treeVars, chainstate, crashes>>

FlushBlockFile ==
    /\ phase = "files"
    /\ unsynced' = Uncommitted(nLastBlockFile)
    /\ phase' = "index"
    /\ UNCHANGED <<indexVars, tip, coinsVars, mode, fDoFullFlush, setFilesToPrune,
                   blk, rev, treeVars, chainstate, faults, crashes>>

\* The dirty sets are emptied before the batch is written.
WriteBatchSync(ok) ==
    /\ phase = "index"
    /\ ok \/ Fails("index")
    /\ setDirtyBlockIndex' = {}
    /\ setDirtyFileInfo' = {}
    /\ IF ok
       THEN /\ dbIndex' = [b \in Blocks |->
                  IF b \in setDirtyBlockIndex THEN index[b] ELSE dbIndex[b]]
            /\ dbFileInfo' = [f \in Files |->
                  IF f \in setDirtyFileInfo THEN vinfoBlockFile[f] ELSE dbFileInfo[f]]
            /\ dbLastBlockFile' = nLastBlockFile
            /\ phase' = "unlink"
            /\ UNCHANGED <<tip, mode, fDoFullFlush, setFilesToPrune, faults>>
       ELSE /\ Return(FALSE)
            /\ faults' = faults + 1
            /\ UNCHANGED treeVars
    /\ UNCHANGED <<index, vinfoBlockFile, nLastBlockFile, fCheckForPruning, coinsVars,
                   fileVars, chainstate, crashes>>

UnlinkPrunedFiles ==
    /\ phase = "unlink"
    /\ blk' = [f \in Files |-> IF f \in setFilesToPrune THEN <<>> ELSE blk[f]]
    /\ rev' = [f \in Files |-> IF f \in setFilesToPrune THEN <<>> ELSE rev[f]]
    /\ unsynced' = {u \in unsynced : u[2] \notin setFilesToPrune}
    /\ IF fDoFullFlush
       THEN phase' = "coins" /\ UNCHANGED <<tip, mode, fDoFullFlush, setFilesToPrune>>
       ELSE Return(TRUE)
    /\ UNCHANGED <<indexVars, coinsVars, treeVars, chainstate, faults, crashes>>

\* The second CheckDiskSpace, before the coins.
OutOfDiskSpaceForCoins ==
    /\ phase = "coins"
    /\ Fails("space")
    /\ Return(FALSE)
    /\ faults' = faults + 1
    /\ UNCHANGED <<indexVars, coinsVars, fileVars, treeVars, chainstate, crashes>>

\* The batches that are not yet durable are at most MaxUnsynced: LevelDB and
\* the operating system write the older ones in the background.
Pushed(version) ==
    IF version = Latest THEN chainstate
    ELSE LET all == Append(chainstate, version)
         IN  SubSeq(all, IF Len(all) > MaxUnsynced THEN 2 ELSE 1, Len(all))

\* pcoinsTip->Flush: CCoinsViewDB::BatchWrite empties the cache while it
\* builds the batch, so a batch that cannot be written is gone, and hashBlock
\* stays.
FlushCoins(ok) ==
    /\ phase = "coins"
    /\ ok \/ Fails("coins")
    /\ coinsCache' = EmptyCache
    /\ chainstate' = IF ok THEN Pushed([best |-> coinsBest, applied |-> CoinsView])
                           ELSE chainstate
    /\ faults' = IF ok THEN faults ELSE faults + 1
    /\ Return(ok)
    /\ UNCHANGED <<indexVars, coinsBest, fileVars, treeVars, crashes>>

Steps ==
    \/ \E b \in Arriving \ {Genesis} :
         \/ AcceptBlockHeader(b)
         \/ \E ok \in BOOLEAN : AcceptBlock(b, ok)
         \/ ConnectTip(b)
         \/ ConnectTipFails(b)
    \/ DisconnectTip
    \/ \E m \in {"periodic", "always"} : Flush(m)
    \/ Decide
    \/ OutOfDiskSpace
    \/ FlushBlockFile
    \/ \E ok \in BOOLEAN : WriteBatchSync(ok) \/ FlushCoins(ok)
    \/ UnlinkPrunedFiles
    \/ OutOfDiskSpaceForCoins
    \/ Shutdown
    \/ Restart
    \/ Crash

Next == UNCHANGED node /\ Steps

Spec == Init /\ [][Next]_vars

-----------------------------------------------------------------------------
(* Properties.                                                             *)

Info == [nSize: Nat, nUndoSize: Nat, nHeightLast: Nat]

\* Every variable of the flush model stays in its type.
TypeOK ==
    /\ node \in Nodes
    /\ index \in [Blocks -> Entry]
    /\ setDirtyBlockIndex \subseteq Blocks
    /\ setDirtyFileInfo \subseteq Files
    /\ vinfoBlockFile \in [Files -> Info]
    /\ nLastBlockFile \in Files
    /\ fCheckForPruning \in BOOLEAN
    /\ {tip, coinsBest} \subseteq Blocks
    /\ \E S \in SUBSET Blocks : coinsCache \in [S -> BOOLEAN]
    /\ phase \in {"run", "decide", "files", "index", "unlink", "coins", "stopped", "refused"}
    /\ mode \in {"none", "if_needed", "periodic", "always", "shutdown"}
    /\ fDoFullFlush \in BOOLEAN
    /\ setFilesToPrune \subseteq Files
    /\ blk \in [Files -> Seq(Blocks \cup {Garbage})]
    /\ rev \in [Files -> Seq(Blocks \cup {Garbage})]
    /\ unsynced \subseteq {"blk", "rev"} \X Files \X Nat
    /\ dbIndex \in [Blocks -> Entry]
    /\ dbFileInfo \in [Files -> Info]
    /\ dbLastBlockFile \in Files
    /\ chainstate \in Seq([best: Blocks, applied: SUBSET Blocks])
    /\ Len(chainstate) \in 1..MaxUnsynced
    /\ faults \in Nat
    /\ crashes \in Nat
    /\ faults + crashes <= MaxFailures

\* Wherever a crash or a failed write comes, the node starts again from what
\* is on disk: LoadBlockIndexDB finds the files and the best block, and
\* VerifyDB finds the last blocks, their undo data and their coins.
RestartSucceeds == phase # "refused"

\* Every version of the chain state database a crash may leave is the coins
\* exactly as of its best block (CCoinsViewDB::BatchWrite writes both in one
\* batch).
CoinsMatchBest ==
    \A i \in DOMAIN chainstate : chainstate[i].applied = Ancestors[chainstate[i].best]

\* The chain state never refers to a block the block index database does not
\* hold: FlushStateToDisk writes the index first.
BestIsIndexed ==
    \A i \in DOMAIN chainstate : \A b \in Ancestors[chainstate[i].best] : dbIndex[b].known

\* A block the block index database holds has its parent there, so
\* LoadBlockIndexGuts never has to invent an entry for hashPrev.
IndexClosed ==
    \A b \in Blocks \ {Genesis} : dbIndex[b].known => dbIndex[Parent[b]].known

\* BLOCK_HAVE_DATA and BLOCK_HAVE_UNDO in the block index database are true:
\* the block, or its undo data, is in the file at the recorded position,
\* whatever was written over what a crash left behind and whatever was pruned.
IndexPointsAtData ==
    \A b \in Blocks :
        /\ dbIndex[b].nDataPos > 0 => BlockReadable(dbIndex, b)
        /\ dbIndex[b].nUndoPos > 0 => UndoReadable(dbIndex, b)

\* What the block index database refers to has reached the disk: block and
\* undo data are synced before the index that names them is written.
IndexedIsDurable ==
    \A b \in Blocks :
        /\ dbIndex[b].nDataPos > 0 => <<"blk", dbIndex[b].nFile, dbIndex[b].nDataPos>> \notin unsynced
        /\ dbIndex[b].nUndoPos > 0 => <<"rev", dbIndex[b].nFile, dbIndex[b].nUndoPos>> \notin unsynced

\* After a shutdown without a failed write nothing that was in memory is
\* missing on disk: every change was entered in the dirty sets.
ShutdownKeepsAll ==
    phase = "stopped" /\ faults = 0 =>
        /\ dbIndex = index
        /\ dbFileInfo = vinfoBlockFile
        /\ dbLastBlockFile = nLastBlockFile
        /\ Latest = [best |-> tip, applied |-> Ancestors[tip]]

\* The blocks of the active chain within MIN_BLOCKS_TO_KEEP of its tip are on
\* disk, however FindFilesToPrune was called.
RecentBlocksKept ==
    \A b \in Ancestors[tip] :
        Height[b] > Height[tip] - MIN_BLOCKS_TO_KEEP => BlockReadable(index, b)

\* Every version of the chain state a crash may leave is exactly the coins of
\* its best block, and that block, its ancestors and the ancestors of every
\* other stored block are in the block index database (FlushStateToDisk writes
\* the index before the coins, each in one batch).
DiskConsistent == TypeOK /\ CoinsMatchBest /\ BestIsIndexed /\ IndexClosed

\* Wherever a crash or a failed write comes, the index on disk names only what
\* the block files hold, on the disk itself if the machine may go down, and the
\* node starts again from it.
AlwaysRestarts ==
    /\ RestartSucceeds
    /\ IndexPointsAtData
    /\ PowerLoss => IndexedIsDurable

\* A shutdown without a failed write leaves nothing behind in memory, and no
\* recent block of the active chain is lost.
NothingForgotten == ShutdownKeepsAll /\ RecentBlocksKept
=============================================================================
