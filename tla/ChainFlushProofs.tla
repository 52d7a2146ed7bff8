-------------------------- MODULE ChainFlushProofs --------------------------
(***************************************************************************)
(* The disk of a node is consistent at every moment, for every block tree, *)
(* number and size of block files, pruning, order of operations and place  *)
(* of the crashes and failures, as long as no write of the two databases   *)
(* fails (Consistency); and without pruning, failed block writes and, if   *)
(* the machine may go down, a second block file, the node always starts    *)
(* again (Recovery) and forgets nothing (Retention).                       *)
(***************************************************************************)
EXTENDS ChainFlush, TLAPS

\* What is known of a block in memory: its parent is known, an entry that is
\* not dirty is the one in the database, and what the database knows is known.
IndexAgrees ==
    /\ \A b \in Blocks \ {Genesis} : index[b].known => index[Parent[b]].known
    /\ \A b \in Blocks \ setDirtyBlockIndex : dbIndex[b] = index[b]
    /\ \A f \in Files \ setDirtyFileInfo : dbFileInfo[f] = vinfoBlockFile[f]
    /\ \A b \in Blocks : dbIndex[b].known => index[b].known
    /\ \A b \in Blocks : index[b].nDataPos > 0 => index[b].known
    /\ \A b \in Blocks : dbIndex[b].nDataPos > 0 => dbIndex[b].known

\* pcoinsTip shows the coins of its best block, whose chain is known.
CoinsAgree ==
    /\ CoinsView = Ancestors[coinsBest]
    /\ \A b \in Ancestors[coinsBest] : index[b].known

\* What the call of FlushStateToDisk in progress has reached.
CallInOrder ==
    /\ phase \in {"unlink", "coins"} =>
         /\ setDirtyBlockIndex = {}
         /\ setDirtyFileInfo = {}
         /\ dbLastBlockFile = nLastBlockFile
    /\ phase \in {"files", "index", "unlink"} /\ mode = "shutdown" => fDoFullFlush
    /\ phase \in {"run", "stopped", "refused"} => mode = "none"
    /\ faults = 0 /\ mode # "if_needed" => tip = coinsBest

\* The inductive invariant of the databases.
IInv ==
    /\ TypeOK
    /\ IndexAgrees
    /\ IndexClosed
    /\ CoinsAgree
    /\ CoinsMatchBest
    /\ BestIsIndexed
    /\ CallInOrder
    /\ ShutdownKeepsAll

\* The files hold what is written in them, and what the database says of them
\* is not more than that.
FilesHold ==
    \A f \in Files :
        /\ vinfoBlockFile[f].nSize <= Len(blk[f])
        /\ vinfoBlockFile[f].nUndoSize <= Len(rev[f])
        /\ dbFileInfo[f].nSize <= vinfoBlockFile[f].nSize
        /\ dbFileInfo[f].nUndoSize <= vinfoBlockFile[f].nUndoSize

\* An entry in memory names a place within the file where the block, or its
\* undo data, is.
EntryHolds(b) ==
    /\ index[b].nUndoPos > 0 => index[b].nDataPos > 0
    /\ index[b].nDataPos > 0 =>
         /\ index[b].nDataPos <= vinfoBlockFile[index[b].nFile].nSize
         /\ blk[index[b].nFile][index[b].nDataPos] = b
    /\ index[b].nUndoPos > 0 =>
         /\ index[b].nUndoPos <= vinfoBlockFile[index[b].nFile].nUndoSize
         /\ rev[index[b].nFile][index[b].nUndoPos] = b

\* An entry of the database is still that in memory, and lies within what the
\* database says of the file.
StoredEntryHolds(b) ==
    /\ dbIndex[b].nUndoPos > 0 =>
         /\ dbIndex[b].nDataPos > 0
         /\ dbIndex[b].nUndoPos = index[b].nUndoPos
         /\ dbIndex[b].nUndoPos <= dbFileInfo[dbIndex[b].nFile].nUndoSize
    /\ dbIndex[b].nDataPos > 0 =>
         /\ dbIndex[b].nFile = index[b].nFile
         /\ dbIndex[b].nDataPos = index[b].nDataPos
         /\ dbIndex[b].nDataPos <= dbFileInfo[dbIndex[b].nFile].nSize

\* A block and, but for the genesis block, its undo data have a place.
HasData(ix, b) == ix[b].nDataPos > 0 /\ (b # Genesis => ix[b].nUndoPos > 0)

ChainsStored ==
    /\ \A b \in Ancestors[coinsBest] : HasData(index, b)
    /\ \A b \in Ancestors[tip] : HasData(index, b)
    /\ \A i \in DOMAIN chainstate :
         \A b \in Ancestors[chainstate[i].best] : HasData(dbIndex, b)

\* Nothing is waiting to be synced when the index is written.
SyncedFirst == PowerLoss => IndexedIsDurable /\ (phase = "index" => unsynced = {})

\* The inductive invariant of the files, on top of that of the databases.
FInv ==
    /\ FilesHold
    /\ \A b \in Blocks : EntryHolds(b)
    /\ \A b \in Blocks : StoredEntryHolds(b)
    /\ ChainsStored
    /\ SyncedFirst
    /\ setFilesToPrune = {}
    /\ RestartSucceeds

\* The writes of the two databases succeed.
DatabasesWork == \A n \in Nodes : n.Faults \cap {"index", "coins"} = {}

\* Only undo data may fail to be written, nothing is pruned, and a machine that
\* may go down has one block file.
FilesWork ==
    \A n \in Nodes :
        /\ n.Faults \subseteq {"undo", "space"}
        /\ ~n.fPruneMode
        /\ n.PowerLoss => n.Files = {0}

-----------------------------------------------------------------------------
(* Facts about the operators.                                              *)

LEMMA NodeFacts ==
    ASSUME node \in Nodes
    PROVE  /\ Files \subseteq Nat
           /\ 0 \in Files
           /\ BlocksPerFile \in Nat \ {0}
           /\ MaxUnsynced \in Nat \ {0}
           /\ MaxFailures \in Nat
           /\ fPruneMode \in BOOLEAN
           /\ Arriving \subseteq Blocks
BY Zenon, NodeAssumption
   DEF Files, BlocksPerFile, MaxUnsynced, MaxFailures, fPruneMode, Arriving

LEMMA SameNode ==
    ASSUME node' = node
    PROVE  /\ Files' = Files
           /\ MaxUnsynced' = MaxUnsynced
           /\ MaxFailures' = MaxFailures
           /\ fPruneMode' = fPruneMode
           /\ PowerLoss' = PowerLoss
           /\ nCheckDepth' = nCheckDepth
BY Zenon DEF Files, MaxUnsynced, MaxFailures, fPruneMode, PowerLoss, nCheckDepth

LEMMA Heights == \A b \in Blocks : Height[b] \in Nat
BY Zenon, TreeAssumption

(* Sequences.                                                              *)

LEMMA Appended ==
    ASSUME NEW S, NEW s \in Seq(S), NEW x \in S
    PROVE  /\ Append(s, x) \in Seq(S)
           /\ Append(s, x) # <<>>
           /\ Len(Append(s, x)) = Len(s) + 1
           /\ \A i \in 1..Len(s) : Append(s, x)[i] = s[i]
           /\ Append(s, x)[Len(s) + 1] = x
BY SMTT(30)

LEMMA Replaced ==
    ASSUME NEW S, NEW s \in Seq(S), NEW i \in 1..Len(s), NEW x \in S
    PROVE  /\ [s EXCEPT ![i] = x] \in Seq(S)
           /\ Len([s EXCEPT ![i] = x]) = Len(s)
           /\ \A j \in 1..Len(s) : [s EXCEPT ![i] = x][j] = IF j = i THEN x ELSE s[j]
BY SMTT(30)

LEMMA Taken ==
    ASSUME NEW S, NEW s, NEW m \in Int, NEW n \in Int, \A i \in m..n : s[i] \in S
    PROVE  /\ SubSeq(s, m, n) \in Seq(S)
           /\ Len(SubSeq(s, m, n)) = IF m <= n THEN n - m + 1 ELSE 0
           /\ \A i \in 1..(n - m + 1) : SubSeq(s, m, n)[i] = s[m + i - 1]
BY SMTT(30)

\* A block is in its own chain, the chain of its parent is the rest of it.
LEMMA Chains ==
    /\ Genesis \in Blocks
    /\ \A b \in Blocks : Ancestors[b] \subseteq Blocks /\ b \in Ancestors[b]
    /\ \A b \in Blocks \ {Genesis} :
         /\ Parent[b] \in Blocks
         /\ Ancestors[b] = Ancestors[Parent[b]] \cup {b}
         /\ Ancestors[Parent[b]] = Ancestors[b] \ {b}
BY SMTT(30), TreeAssumption

\* The versions of the chain state and the latest of them.
LEMMA Versions ==
    ASSUME TypeOK
    PROVE  /\ \A i \in DOMAIN chainstate :
                chainstate[i] \in [best: Blocks, applied: SUBSET Blocks]
           /\ \A i \in DOMAIN chainstate : chainstate[i].best \in Blocks
           /\ Len(chainstate) \in DOMAIN chainstate
           /\ Latest = chainstate[Len(chainstate)]
           /\ Latest.best \in Blocks
<1> DEFINE V == [best: Blocks, applied: SUBSET Blocks]
<1>1. /\ chainstate \in Seq(V)
      /\ Len(chainstate) \in 1..MaxUnsynced
      /\ MaxUnsynced \in Nat
  BY Zenon, NodeFacts DEF TypeOK
<1>2. \A v \in V : v.best \in Blocks
  BY Zenon
<1> HIDE DEF V
<1>3. /\ \A i \in DOMAIN chainstate : chainstate[i] \in V
      /\ Len(chainstate) \in DOMAIN chainstate
  BY SMTT(30), <1>1
<1> QED BY Zenon, <1>2, <1>3 DEF Latest, V

\* The versions of the chain state after a crash that keeps some of them.
LEMMA VersionsKept ==
    ASSUME NEW S, NEW s \in Seq(S), NEW n \in 1..Len(s)
    PROVE  /\ SubSeq(s, 1, n) \in Seq(S)
           /\ Len(SubSeq(s, 1, n)) = n
           /\ \A i \in 1..n : SubSeq(s, 1, n)[i] = s[i]
BY SMTT(30), Taken

\* The versions of the chain state after a batch.
LEMMA VersionPushed ==
    ASSUME NEW S, chainstate \in Seq(S), Len(chainstate) \in 1..MaxUnsynced,
           MaxUnsynced \in Nat \ {0}, NEW v \in S
    PROVE  /\ Pushed(v) \in Seq(S)
           /\ Len(Pushed(v)) \in 1..MaxUnsynced
           /\ Pushed(v)[Len(Pushed(v))] = v
           /\ \A i \in DOMAIN Pushed(v) :
                \/ Pushed(v)[i] = v
                \/ \E j \in DOMAIN chainstate : Pushed(v)[i] = chainstate[j]
<1> DEFINE all == Append(chainstate, v)
           first == IF Len(all) > MaxUnsynced THEN 2 ELSE 1
<1>1. CASE v = Latest
  BY Zenon, <1>1 DEF Pushed, Latest
<1>2. CASE v # Latest
  <2>1. /\ all \in Seq(S)
        /\ Len(all) = Len(chainstate) + 1
        /\ all[Len(all)] = v
        /\ \A i \in 1..Len(chainstate) : all[i] = chainstate[i]
    BY SMTT(30), Appended
  <2>2. /\ first \in 1..2
        /\ first <= Len(all)
        /\ Len(all) - first + 1 \in 1..MaxUnsynced
    BY SMTT(30), <2>1
  <2>3. Pushed(v) = SubSeq(all, first, Len(all))
    BY Zenon, <1>2 DEF Pushed
  <2> HIDE DEF all, first
  <2>4. /\ SubSeq(all, first, Len(all)) \in Seq(S)
        /\ Len(SubSeq(all, first, Len(all))) = Len(all) - first + 1
        /\ \A i \in 1..(Len(all) - first + 1) :
              SubSeq(all, first, Len(all))[i] = all[first + i - 1]
    BY SMTT(30), <2>1, <2>2, Taken
  <2>5. Pushed(v)[Len(Pushed(v))] = v
    BY SMTT(30), <2>1, <2>2, <2>3, <2>4
  <2>6. ASSUME NEW i \in DOMAIN Pushed(v)
        PROVE  \/ Pushed(v)[i] = v
               \/ \E j \in DOMAIN chainstate : Pushed(v)[i] = chainstate[j]
    <3>1. i \in 1..(Len(all) - first + 1)
      BY SMTT(30), <2>3, <2>4
    <3>2. Pushed(v)[i] = all[first + i - 1]
      BY Zenon, <2>3, <2>4, <3>1
    <3>3. CASE first + i - 1 = Len(all)
      BY Zenon, <3>2, <3>3, <2>1
    <3>4. CASE first + i - 1 # Len(all)
      <4>1. first + i - 1 \in 1..Len(chainstate)
        BY SMTT(30), <3>1, <3>4, <2>1, <2>2
      <4> QED BY SMTT(30), <4>1, <3>2, <2>1
    <3> QED BY Zenon, <3>3, <3>4
  <2> QED BY Zenon, <2>2, <2>3, <2>4, <2>5, <2>6
<1> QED BY Zenon, <1>1, <1>2

\* A file after a write.
LEMMA FileWritten ==
    ASSUME NEW S, NEW file \in Seq(S), NEW p \in Nat \ {0}, NEW x \in S
    PROVE  /\ Written(file, p, x) \in Seq(S)
           /\ Len(Written(file, p, x)) >= Len(file)
           /\ p <= Len(file) + 1 =>
                /\ Len(Written(file, p, x)) >= p
                /\ Written(file, p, x)[p] = x
                /\ \A q \in 1..Len(file) : q # p => Written(file, p, x)[q] = file[q]
<1>1. CASE p <= Len(file)
  <2>1. Written(file, p, x) = [file EXCEPT ![p] = x]
    BY Zenon, <1>1 DEF Written
  <2> QED BY SMTT(30), <1>1, <2>1, Replaced
<1>2. CASE ~(p <= Len(file))
  <2>1. Written(file, p, x) = Append(file, x)
    BY Zenon, <1>2 DEF Written
  <2> QED BY SMTT(30), <1>2, <2>1, Appended
<1> QED BY Zenon, <1>1, <1>2

\* A write behind the first n records keeps them.
LEMMA FileExtended ==
    ASSUME NEW file \in Seq(Blocks \cup {Garbage}), NEW n \in Nat, n <= Len(file),
           NEW x \in Blocks \cup {Garbage}
    PROVE  /\ Len(Written(file, n + 1, x)) >= n + 1
           /\ Written(file, n + 1, x)[n + 1] = x
           /\ \A q \in 1..n : Written(file, n + 1, x)[q] = file[q]
<1> DEFINE S == Blocks \cup {Garbage}
<1> HIDE DEF S
<1>0. file \in Seq(S) /\ x \in S
  BY Zenon DEF S
<1>1. CASE n + 1 <= Len(file)
  <2>1. Written(file, n + 1, x) = [file EXCEPT ![n + 1] = x]
    BY Zenon, <1>1 DEF Written
  <2>2. n + 1 \in 1..Len(file)
    BY SMTT(30), <1>1, <1>0
  <2> QED BY SMTT(30), <1>0, <2>1, <2>2, Replaced
<1>2. CASE ~(n + 1 <= Len(file))
  <2>1. Written(file, n + 1, x) = Append(file, x) /\ n = Len(file)
    BY SMTT(30), <1>2, <1>0 DEF Written
  <2> QED BY SMTT(30), <1>0, <2>1, Appended
<1> QED BY Zenon, <1>1, <1>2

\* A file after it is cut to n.
LEMMA FileTruncated ==
    ASSUME NEW S, NEW file \in Seq(S), NEW n \in Nat
    PROVE  /\ Truncated(file, n) \in Seq(S)
           /\ n <= Len(file) =>
                /\ Len(Truncated(file, n)) = n
                /\ \A q \in 1..n : Truncated(file, n)[q] = file[q]
<1> DEFINE m == IF n < Len(file) THEN n ELSE Len(file)
<1>1. m \in 0..Len(file) /\ (n <= Len(file) => m = n)
  BY SMTT(30)
<1>2. Truncated(file, n) = SubSeq(file, 1, m)
  BY Zenon DEF Truncated
<1> HIDE DEF m
<1>3. /\ SubSeq(file, 1, m) \in Seq(S)
      /\ Len(SubSeq(file, 1, m)) = m
      /\ \A q \in 1..m : SubSeq(file, 1, m)[q] = file[q]
  BY SMTT(30), <1>1, Taken
<1> QED BY Zenon, <1>1, <1>2, <1>3

\* The files after the machine went down.
LEMMA FilesLost ==
    ASSUME NEW kind, NEW files \in [Files -> Seq(Blocks \cup {Garbage})], NEW lost
    PROVE  Lost(kind, files, lost) \in [Files -> Seq(Blocks \cup {Garbage})]
<1> DEFINE after(f) == [p \in DOMAIN files[f] |->
                          IF <<kind, f, p>> \in lost THEN Garbage ELSE files[f][p]]
<1>1. Lost(kind, files, lost) = [f \in Files |-> after(f)]
  BY Zenon DEF Lost
<1>2. ASSUME NEW f \in Files
      PROVE  after(f) \in Seq(Blocks \cup {Garbage})
  <2>1. files[f] \in Seq(Blocks \cup {Garbage}) /\ Len(files[f]) \in Nat
    BY SMTT(30)
  <2>2. DOMAIN files[f] = 1..Len(files[f])
    BY SMTT(30), <2>1
  <2>3. after(f) \in [1..Len(files[f]) -> Blocks \cup {Garbage}]
    BY SMTT(30), <2>1, <2>2
  <2> QED BY SMTT(30), <2>1, <2>2, <2>3
<1> HIDE DEF after
<1> QED BY Zenon, <1>1, <1>2

\* What is recorded of a file after a block was added.
LEMMA InfoRaised ==
    ASSUME NEW info \in Info, NEW b \in Blocks
    PROVE  /\ Raised(info, b) \in Info
           /\ Raised(info, b).nSize = info.nSize + 1
           /\ Raised(info, b).nUndoSize = info.nUndoSize
<1> DEFINE h == IF Height[b] > info.nHeightLast THEN Height[b] ELSE info.nHeightLast
<1>1. h \in Nat
  BY Zenon, Heights DEF Info
<1>2. Raised(info, b) = [info EXCEPT !.nSize = info.nSize + 1, !.nHeightLast = h]
  BY Zenon DEF Raised, Info
<1> HIDE DEF h
<1>3. info = [nSize |-> info.nSize, nUndoSize |-> info.nUndoSize,
              nHeightLast |-> info.nHeightLast]
  BY Zenon DEF Info
<1>4. info.nSize \in Nat /\ info.nUndoSize \in Nat
  BY Zenon DEF Info
<1>5. Raised(info, b) = [nSize |-> info.nSize + 1, nUndoSize |-> info.nUndoSize,
                         nHeightLast |-> h]
  BY Zenon, <1>2, <1>3
<1> QED BY SMTT(30), <1>1, <1>4, <1>5 DEF Info

-----------------------------------------------------------------------------
(* The databases: what a step leaves alone.                                *)

LEMMA IndexFrame ==
    ASSUME IndexAgrees, IndexClosed, node' = node,
           UNCHANGED <<index, setDirtyBlockIndex, setDirtyFileInfo, vinfoBlockFile,
                       dbIndex, dbFileInfo>>
    PROVE  IndexAgrees' /\ IndexClosed'
BY Zenon, SameNode DEF IndexAgrees, IndexClosed

LEMMA CoinsFrame ==
    ASSUME TypeOK, CoinsAgree, CoinsMatchBest, UNCHANGED <<coinsVars, chainstate>>,
           \A b \in Blocks : index[b].known => index'[b].known
    PROVE  CoinsAgree' /\ CoinsMatchBest'
<1>1. CoinsView' = CoinsView
  BY Zenon DEF CoinsView, Latest, coinsVars
<1>2. coinsBest \in Blocks
  BY Zenon DEF TypeOK
<1> QED BY Zenon, <1>1, <1>2, Chains DEF CoinsAgree, CoinsMatchBest, coinsVars

LEMMA BestFrame ==
    ASSUME BestIsIndexed, UNCHANGED <<chainstate, dbIndex>>
    PROVE  BestIsIndexed'
BY Zenon DEF BestIsIndexed

-----------------------------------------------------------------------------
(* The databases: blocks arrive and are connected.                         *)

LEMMA HeaderStep ==
    ASSUME IInv, node' = node, NEW b \in Blocks \ {Genesis}, AcceptBlockHeader(b)
    PROVE  IInv'
<1> USE DEF IInv
<1>1. /\ index' = [index EXCEPT ![b] = Header]
      /\ setDirtyBlockIndex' = setDirtyBlockIndex \cup {b}
      /\ index[Parent[b]].known
      /\ phase = "run"
      /\ UNCHANGED <<setDirtyFileInfo, vinfoBlockFile, nLastBlockFile, fCheckForPruning,
                     tip, coinsVars, callVars, fileVars, treeVars, chainstate, faults, crashes>>
  BY Zenon DEF AcceptBlockHeader, AddToBlockIndex
<1>2. Header \in Entry /\ Header.known
  BY Zenon, NodeFacts DEF Header, Stored, Entry, TypeOK
<1>3. TypeOK'
  BY Zenon, <1>1, <1>2, SameNode
     DEF TypeOK, Entry, Info, coinsVars, callVars, fileVars, treeVars
<1>4. \A c \in Blocks : index[c].known => index'[c].known
  BY Zenon, <1>1, <1>2 DEF TypeOK
<1>5. IndexAgrees' /\ IndexClosed'
  <2>1. index'[b].known /\ \A c \in Blocks \ {b} : index'[c] = index[c]
    BY Zenon, <1>1, <1>2 DEF TypeOK
  <2>2. dbIndex' = dbIndex /\ dbFileInfo' = dbFileInfo
    BY Zenon, <1>1 DEF treeVars
  <2>3. \A c \in Blocks \ {Genesis} : index'[c].known => index'[Parent[c]].known
    BY SMTT(30), <1>1, <2>1, Chains DEF IndexAgrees
  <2>4. \A c \in Blocks \ setDirtyBlockIndex' : dbIndex'[c] = index'[c]
    BY Zenon, <1>1, <2>1, <2>2 DEF IndexAgrees
  <2>5. \A e \in Files' \ setDirtyFileInfo' : dbFileInfo'[e] = vinfoBlockFile'[e]
    BY Zenon, <1>1, <2>2, SameNode DEF IndexAgrees
  <2>6. \A c \in Blocks : dbIndex'[c].known => index'[c].known
    BY Zenon, <2>1, <2>2 DEF IndexAgrees
  <2>7. \A c \in Blocks : index'[c].nDataPos > 0 => index'[c].known
    BY Zenon, <2>1 DEF IndexAgrees
  <2> QED BY Zenon, <2>2, <2>3, <2>4, <2>5, <2>6, <2>7 DEF IndexAgrees, IndexClosed
<1>6. CoinsAgree' /\ CoinsMatchBest'
  BY Zenon, <1>1, <1>4, CoinsFrame
<1>7. BestIsIndexed'
  BY Zenon, <1>1, BestFrame DEF treeVars
<1>8. CallInOrder' /\ ShutdownKeepsAll'
  BY Zenon, <1>1 DEF CallInOrder, ShutdownKeepsAll, callVars, coinsVars
<1> QED BY Zenon, <1>3, <1>5, <1>6, <1>7, <1>8

LEMMA BlockStep ==
    ASSUME IInv, node' = node, NEW b \in Blocks \ {Genesis}, NEW ok \in BOOLEAN,
           AcceptBlock(b, ok)
    PROVE  IInv'
<1> USE DEF IInv
<1>1. PICK f \in FindBlockPos, chunk \in BOOLEAN : StoreBlock(b, ok, f, chunk)
  <2>1. PICK f \in FindBlockPos, chunk \in IF fPruneMode THEN BOOLEAN ELSE {FALSE} :
            StoreBlock(b, ok, f, chunk)
    BY Zenon DEF AcceptBlock
  <2> QED BY Zenon, <2>1
<1>0. /\ index' = [index EXCEPT ![b] = Stored(f, vinfoBlockFile[f].nSize + 1)]
      /\ vinfoBlockFile' = [vinfoBlockFile EXCEPT ![f] = Raised(@, b)]
      /\ nLastBlockFile' = f
      /\ setDirtyFileInfo' = setDirtyFileInfo \cup {f}
      /\ setDirtyBlockIndex' = setDirtyBlockIndex \cup {b}
      /\ fCheckForPruning' = (fCheckForPruning \/ chunk)
  BY Zenon, <1>1 DEF StoreBlock
<1>2. /\ phase = "run"
      /\ index[Parent[b]].known
      /\ ok \/ Fails("block")
      /\ IF fCheckForPruning' THEN Call("none") ELSE UNCHANGED <<phase, mode>>
      /\ faults' = IF ok THEN faults ELSE faults + 1
      /\ UNCHANGED <<tip, coinsVars, fDoFullFlush, setFilesToPrune, treeVars, chainstate, crashes>>
  BY Zenon DEF AcceptBlock
<1>3. f \in Files
  BY Zenon DEF FindBlockPos
<1>4. vinfoBlockFile[f].nSize \in Nat /\ vinfoBlockFile[nLastBlockFile] \in Info
  BY Zenon, <1>3 DEF TypeOK, Info
<1>5. TypeOK'
  <2>1. index' \in [Blocks -> Entry] /\ setDirtyBlockIndex' \subseteq Blocks
    <3>1. Stored(f, vinfoBlockFile[f].nSize + 1) \in Entry
      BY SMTT(30), <1>3, <1>4 DEF Entry, Stored
    <3> QED BY Zenon, <1>0, <3>1 DEF TypeOK
  <2>2. vinfoBlockFile' \in [Files -> Info] /\ setDirtyFileInfo' \subseteq Files
    <3>1. vinfoBlockFile[f] \in Info /\ Height[b] \in Nat
      BY Zenon, <1>3, Heights DEF TypeOK
    <3>2. Raised(vinfoBlockFile[f], b) \in Info
      BY Zenon, <3>1, InfoRaised
    <3>3. vinfoBlockFile' = [vinfoBlockFile EXCEPT ![f] = Raised(vinfoBlockFile[f], b)]
      BY Zenon, <1>0
    <3> QED BY Zenon, <1>0, <1>3, <3>2, <3>3 DEF TypeOK
  <2>3. fCheckForPruning' \in BOOLEAN
    BY Zenon, <1>0 DEF TypeOK
  <2>4. phase' \in {"run", "decide"} /\ mode' \in {mode, "none"}
    BY Zenon, <1>2 DEF Call
  <2>5. \A n \in Nat, files \in [Files -> Seq(Blocks \cup {Garbage})] :
          Finalized(files, f, n) \in [Files -> Seq(Blocks \cup {Garbage})]
    <3> SUFFICES ASSUME NEW n \in Nat, NEW files \in [Files -> Seq(Blocks \cup {Garbage})]
                 PROVE  Finalized(files, f, n) \in [Files -> Seq(Blocks \cup {Garbage})]
      BY Zenon
    <3>1. nLastBlockFile \in Files
      BY Zenon DEF TypeOK
    <3>2. Truncated(files[nLastBlockFile], n) \in Seq(Blocks \cup {Garbage})
      BY Zenon, <3>1, FileTruncated
    <3> QED BY Zenon, <3>1, <3>2 DEF Finalized
  <2>6. rev' \in [Files -> Seq(Blocks \cup {Garbage})]
    <3>1. vinfoBlockFile[nLastBlockFile].nUndoSize \in Nat
      BY Zenon, <1>4 DEF Info
    <3>2. rev' = Finalized(rev, f, vinfoBlockFile[nLastBlockFile].nUndoSize)
      BY Zenon, <1>1 DEF StoreBlock
    <3> QED BY Zenon, <2>5, <3>1, <3>2 DEF TypeOK
  <2>7. blk' \in [Files -> Seq(Blocks \cup {Garbage})]
    <3> DEFINE cut == Finalized(blk, f, vinfoBlockFile[nLastBlockFile].nSize)
               x == IF ok THEN b ELSE Garbage
    <3>1. cut \in [Files -> Seq(Blocks \cup {Garbage})]
      <4>1. vinfoBlockFile[nLastBlockFile].nSize \in Nat
        BY Zenon, <1>4 DEF Info
      <4> QED BY Zenon, <2>5, <4>1 DEF TypeOK
    <3>4. x \in Blocks \cup {Garbage}
      BY Zenon
    <3>2. blk' = [cut EXCEPT ![f] = Written(cut[f], vinfoBlockFile[f].nSize + 1, x)]
      BY <1>1, Zenon DEF StoreBlock
    <3> HIDE DEF cut, x
    <3>3. Written(cut[f], vinfoBlockFile[f].nSize + 1, x) \in Seq(Blocks \cup {Garbage})
      <4>1. cut[f] \in Seq(Blocks \cup {Garbage}) /\ vinfoBlockFile[f].nSize + 1 \in Nat \ {0}
        BY SMTT(30), <1>3, <1>4, <3>1
      <4> QED BY ZenonT(60), <4>1, <3>4, FileWritten
    <3> QED BY Zenon, <1>3, <3>1, <3>2, <3>3
  <2>8. unsynced' \subseteq {"blk", "rev"} \X Files \X Nat
    <3>1. <<"blk", f, vinfoBlockFile[f].nSize + 1>> \in {"blk", "rev"} \X Files \X Nat
      BY SMTT(30), <1>3, <1>4
    <3>2. Uncommitted(nLastBlockFile) \subseteq unsynced
      BY Zenon DEF Uncommitted
    <3>3. unsynced' \subseteq unsynced \cup {<<"blk", f, vinfoBlockFile[f].nSize + 1>>}
      BY Zenon, <1>1, <3>2 DEF StoreBlock
    <3> QED BY Zenon, <3>1, <3>3 DEF TypeOK
  <2>9. faults' \in Nat /\ faults' + crashes' <= MaxFailures'
    BY SMTT(30), <1>2, SameNode, NodeFacts DEF TypeOK, Fails
  <2>10. Entry' = Entry /\ Info' = Info
    BY Zenon, SameNode DEF Entry, Info
  <2> QED BY Zenon, <1>0, <1>2, <1>3, <2>1, <2>2, <2>3, <2>4, <2>6, <2>7, <2>8, <2>9, <2>10, SameNode
          DEF TypeOK, coinsVars, treeVars
<1>6. index'[b].known /\ \A c \in Blocks \ {b} : index'[c] = index[c]
  BY Zenon, <1>0 DEF TypeOK, Stored
<1>7. IndexAgrees' /\ IndexClosed'
  <2>1. \A e \in Files \ {f} : vinfoBlockFile'[e] = vinfoBlockFile[e]
    BY Zenon, <1>0 DEF TypeOK
  <2>2. dbIndex' = dbIndex /\ dbFileInfo' = dbFileInfo
    BY Zenon, <1>2 DEF treeVars
  <2>3. \A c \in Blocks \ {Genesis} : index'[c].known => index'[Parent[c]].known
    BY SMTT(30), <1>2, <1>6, Chains DEF IndexAgrees
  <2>4. \A c \in Blocks \ setDirtyBlockIndex' : dbIndex'[c] = index'[c]
    BY Zenon, <1>0, <1>6, <2>2 DEF IndexAgrees
  <2>5. \A e \in Files' \ setDirtyFileInfo' : dbFileInfo'[e] = vinfoBlockFile'[e]
    BY Zenon, <1>0, <2>1, <2>2, SameNode DEF IndexAgrees
  <2>6. \A c \in Blocks : dbIndex'[c].known => index'[c].known
    BY Zenon, <1>6, <2>2 DEF IndexAgrees
  <2>7. \A c \in Blocks : index'[c].nDataPos > 0 => index'[c].known
    BY Zenon, <1>6 DEF IndexAgrees
  <2> QED BY Zenon, <2>2, <2>3, <2>4, <2>5, <2>6, <2>7 DEF IndexAgrees, IndexClosed
<1>8. CoinsAgree' /\ CoinsMatchBest'
  BY Zenon, <1>2, <1>6, CoinsFrame
<1>9. BestIsIndexed'
  BY Zenon, <1>2, BestFrame DEF treeVars
<1>10. CallInOrder' /\ ShutdownKeepsAll'
  <2>1. phase' \in {"run", "decide"} /\ (mode' = mode \/ mode' = "none")
    BY Zenon, <1>2 DEF Call
  <2>2. faults' = 0 => faults = 0
    BY SMTT(30), <1>2 DEF TypeOK
  <2> QED BY Zenon, <1>2, <2>1, <2>2 DEF CallInOrder, ShutdownKeepsAll, coinsVars
<1> QED BY Zenon, <1>5, <1>7, <1>8, <1>9, <1>10

\* What WriteUndo does to the index and the files, whether or not the undo data
\* could be written.
LEMMA UndoStep ==
    ASSUME TypeOK, IndexAgrees, IndexClosed, node' = node, UNCHANGED treeVars,
           NEW b \in Blocks, NEW ok \in BOOLEAN, WriteUndo(b, ok)
    PROVE  /\ index' \in [Blocks -> Entry]
           /\ setDirtyBlockIndex' \subseteq Blocks
           /\ setDirtyFileInfo' \subseteq Files
           /\ vinfoBlockFile' \in [Files -> Info]
           /\ fCheckForPruning' \in BOOLEAN
           /\ rev' \in [Files -> Seq(Blocks \cup {Garbage})]
           /\ unsynced' \subseteq {"blk", "rev"} \X Files \X Nat
           /\ \A c \in Blocks : index'[c].known = index[c].known
           /\ IndexAgrees' /\ IndexClosed'
<1> DEFINE f == index[b].nFile
           pos == UndoPos(b)
           x == IF ok THEN b ELSE Garbage
<1>1. /\ f \in Files
      /\ pos \in Nat \ {0}
      /\ vinfoBlockFile[f] \in Info
      /\ UndoSize(b) \in Nat
  <2>1. f \in Files
    BY Zenon DEF TypeOK, Entry
  <2>2. vinfoBlockFile[f] \in Info
    BY Zenon, <2>1 DEF TypeOK
  <2>3. vinfoBlockFile[f].nUndoSize \in Nat
    BY Zenon, <2>2 DEF Info
  <2> QED BY SMTT(30), <2>1, <2>2, <2>3 DEF UndoPos, UndoSize
<1>2. /\ vinfoBlockFile' = [vinfoBlockFile EXCEPT ![f].nUndoSize = UndoSize(b)]
      /\ setDirtyFileInfo' = setDirtyFileInfo \cup {f}
      /\ rev' = [rev EXCEPT ![f] = Written(rev[f], pos, x)]
      /\ unsynced' = unsynced \cup {<<"rev", f, pos>>}
      /\ UndoRecorded(b, ok)
  BY Zenon DEF WriteUndo
<1>3. fCheckForPruning' \in BOOLEAN
  <2>1. PICK chunk \in IF fPruneMode THEN BOOLEAN ELSE {FALSE} :
            fCheckForPruning' = (fCheckForPruning \/ chunk)
    BY Zenon DEF WriteUndo
  <2> QED BY Zenon, <2>1 DEF TypeOK
<1>4. /\ index' = IF ok THEN [index EXCEPT ![b].nUndoPos = pos] ELSE index
      /\ setDirtyBlockIndex' = IF ok THEN setDirtyBlockIndex \cup {b} ELSE setDirtyBlockIndex
  BY Zenon, <1>2 DEF UndoRecorded
<1>5. x \in Blocks \cup {Garbage}
  BY Zenon
<1> HIDE DEF f, pos, x
<1>6. index' \in [Blocks -> Entry] /\ setDirtyBlockIndex' \subseteq Blocks
  BY ZenonT(60), <1>1, <1>4 DEF TypeOK, Entry
<1>7. /\ \A c \in Blocks : index'[c].known = index[c].known
      /\ \A c \in Blocks : index'[c].nDataPos = index[c].nDataPos
      /\ \A c \in Blocks : index'[c] # index[c] => c \in setDirtyBlockIndex'
  BY ZenonT(60), <1>4 DEF TypeOK, Entry
<1>8. vinfoBlockFile' \in [Files -> Info] /\ setDirtyFileInfo' \subseteq Files
  BY Zenon, <1>1, <1>2 DEF TypeOK, Info
<1>9. \A e \in Files \ {f} : vinfoBlockFile'[e] = vinfoBlockFile[e]
  BY Zenon, <1>2 DEF TypeOK
<1>10. rev' \in [Files -> Seq(Blocks \cup {Garbage})]
  <2>1. rev[f] \in Seq(Blocks \cup {Garbage})
    BY Zenon, <1>1 DEF TypeOK
  <2>2. Written(rev[f], pos, x) \in Seq(Blocks \cup {Garbage})
    BY Zenon, <1>1, <1>5, <2>1, FileWritten
  <2> QED BY Zenon, <1>1, <1>2, <2>2 DEF TypeOK
<1>11. unsynced' \subseteq {"blk", "rev"} \X Files \X Nat
  <2>1. <<"rev", f, pos>> \in {"blk", "rev"} \X Files \X Nat
    BY Zenon, <1>1
  <2> QED BY Zenon, <1>2, <2>1 DEF TypeOK
<1>12. IndexAgrees' /\ IndexClosed'
  <2>1. dbIndex' = dbIndex /\ dbFileInfo' = dbFileInfo
    BY Zenon DEF treeVars
  <2>2. \A c \in Blocks \ {Genesis} : index'[c].known => index'[Parent[c]].known
    BY Zenon, <1>7, Chains DEF IndexAgrees
  <2>3. \A c \in Blocks \ setDirtyBlockIndex' : dbIndex'[c] = index'[c]
    BY Zenon, <1>4, <1>7, <2>1 DEF IndexAgrees
  <2>4. \A e \in Files' \ setDirtyFileInfo' : dbFileInfo'[e] = vinfoBlockFile'[e]
    BY Zenon, <1>2, <1>9, <2>1, SameNode DEF IndexAgrees
  <2>5. \A c \in Blocks : dbIndex'[c].known => index'[c].known
    BY Zenon, <1>7, <2>1 DEF IndexAgrees
  <2>6. \A c \in Blocks : index'[c].nDataPos > 0 => index'[c].known
    BY Zenon, <1>7 DEF IndexAgrees
  <2> QED BY Zenon, <2>1, <2>2, <2>3, <2>4, <2>5, <2>6 DEF IndexAgrees, IndexClosed
<1> QED BY Zenon, <1>3, <1>6, <1>7, <1>8, <1>10, <1>11, <1>12

\* The coins after a block's effects were added or taken away.
LEMMA CoinsCached ==
    ASSUME TypeOK, UNCHANGED chainstate, NEW b \in Blocks, NEW applied \in BOOLEAN,
           coinsCache' = Cached(b, applied)
    PROVE  /\ CoinsView' = IF applied THEN CoinsView \cup {b} ELSE CoinsView \ {b}
           /\ \E S \in SUBSET Blocks : coinsCache' \in [S -> BOOLEAN]
<1>1. PICK S \in SUBSET Blocks : coinsCache \in [S -> BOOLEAN]
  BY Zenon DEF TypeOK
<1>2. coinsCache' \in [S \cup {b} -> BOOLEAN]
  BY Zenon, <1>1 DEF Cached
<1>3. Latest' = Latest
  BY Zenon DEF Latest
<1>4. \A c \in Blocks : c \in CoinsView' <=> IF c = b THEN applied ELSE c \in CoinsView
  BY Zenon, <1>1, <1>3 DEF Cached, CoinsView
<1> QED BY Zenon, <1>2, <1>4 DEF CoinsView

LEMMA ConnectTipStep ==
    ASSUME IInv, node' = node, NEW b \in Blocks \ {Genesis}, ConnectTip(b)
    PROVE  IInv'
<1> USE DEF IInv
<1>1. /\ phase = "run"
      /\ tip = Parent[b]
      /\ coinsBest = tip
      /\ CoinsView = Ancestors[tip]
      /\ BlockReadable(index, b)
      /\ coinsBest' = b
      /\ coinsCache' = Cached(b, TRUE)
      /\ phase' = "decide"
      /\ mode' = "if_needed"
      /\ UNCHANGED <<nLastBlockFile, tip, fDoFullFlush, setFilesToPrune, blk, treeVars,
                     chainstate, faults, crashes>>
  BY Zenon DEF ConnectTip, Connectable, Call
<1>2. /\ index' \in [Blocks -> Entry]
      /\ setDirtyBlockIndex' \subseteq Blocks
      /\ setDirtyFileInfo' \subseteq Files
      /\ vinfoBlockFile' \in [Files -> Info]
      /\ fCheckForPruning' \in BOOLEAN
      /\ rev' \in [Files -> Seq(Blocks \cup {Garbage})]
      /\ unsynced' \subseteq {"blk", "rev"} \X Files \X Nat
      /\ \A c \in Blocks : index'[c].known = index[c].known
      /\ IndexAgrees' /\ IndexClosed'
  <2>1. CASE index[b].nUndoPos = 0
    BY Zenon, <1>1, <2>1, UndoStep DEF ConnectTip
  <2>2. CASE index[b].nUndoPos # 0
    <3>1. UNCHANGED <<index, setDirtyBlockIndex, setDirtyFileInfo, vinfoBlockFile,
                      fCheckForPruning, rev, unsynced>>
      BY Zenon, <2>2 DEF ConnectTip
    <3>2. IndexAgrees' /\ IndexClosed'
      BY Zenon, <1>1, <3>1, IndexFrame DEF treeVars
    <3> QED BY Zenon, <3>1, <3>2 DEF TypeOK
  <2> QED BY Zenon, <2>1, <2>2
<1>3. /\ CoinsView' = CoinsView \cup {b}
      /\ \E S \in SUBSET Blocks : coinsCache' \in [S -> BOOLEAN]
  BY Zenon, <1>1, CoinsCached
<1>4. TypeOK'
  <2>1. Entry' = Entry /\ Info' = Info
    BY Zenon, SameNode DEF Entry, Info
  <2> QED BY Zenon, <1>1, <1>2, <1>3, <2>1, SameNode DEF TypeOK, treeVars
<1>5. CoinsAgree'
  <2>1. index[b].known
    BY Zenon, <1>1 DEF BlockReadable, IndexAgrees
  <2>2. CoinsView' = Ancestors[coinsBest']
    BY Zenon, <1>1, <1>3, Chains
  <2>3. \A c \in Ancestors[coinsBest'] : index'[c].known
    BY SMTT(30), <1>1, <1>2, <2>1, Chains DEF CoinsAgree
  <2> QED BY Zenon, <2>2, <2>3 DEF CoinsAgree
<1>6. CoinsMatchBest'
  BY Zenon, <1>1 DEF CoinsMatchBest
<1>7. BestIsIndexed'
  BY Zenon, <1>1, BestFrame DEF treeVars
<1>8. CallInOrder' /\ ShutdownKeepsAll'
  BY Zenon, <1>1 DEF CallInOrder, ShutdownKeepsAll
<1> QED BY Zenon, <1>2, <1>4, <1>5, <1>6, <1>7, <1>8

LEMMA ConnectTipFailsStep ==
    ASSUME IInv, node' = node, NEW b \in Blocks \ {Genesis}, ConnectTipFails(b)
    PROVE  IInv'
<1> USE DEF IInv
<1>1. /\ phase = "run"
      /\ WriteUndo(b, FALSE)
      /\ Fails("undo")
      /\ faults' = faults + 1
      /\ UNCHANGED <<nLastBlockFile, tip, coinsVars, callVars, blk, treeVars, chainstate, crashes>>
  BY Zenon DEF ConnectTipFails
<1>2. /\ index' \in [Blocks -> Entry]
      /\ setDirtyBlockIndex' \subseteq Blocks
      /\ setDirtyFileInfo' \subseteq Files
      /\ vinfoBlockFile' \in [Files -> Info]
      /\ fCheckForPruning' \in BOOLEAN
      /\ rev' \in [Files -> Seq(Blocks \cup {Garbage})]
      /\ unsynced' \subseteq {"blk", "rev"} \X Files \X Nat
      /\ \A c \in Blocks : index'[c].known = index[c].known
      /\ IndexAgrees' /\ IndexClosed'
  BY Zenon, <1>1, UndoStep
<1>3. faults' \in Nat /\ faults' # 0 /\ faults' + crashes' <= MaxFailures'
  BY SMTT(30), <1>1, SameNode, NodeFacts DEF TypeOK, Fails
<1>4. TypeOK'
  <2>1. Entry' = Entry /\ Info' = Info
    BY Zenon, SameNode DEF Entry, Info
  <2> QED BY Zenon, <1>1, <1>2, <1>3, <2>1, SameNode DEF TypeOK, treeVars, coinsVars, callVars
<1>5. CoinsAgree' /\ CoinsMatchBest'
  BY Zenon, <1>1, <1>2, CoinsFrame
<1>6. BestIsIndexed'
  BY Zenon, <1>1, BestFrame DEF treeVars
<1>7. CallInOrder' /\ ShutdownKeepsAll'
  BY Zenon, <1>1, <1>3 DEF CallInOrder, ShutdownKeepsAll, callVars
<1> QED BY Zenon, <1>2, <1>4, <1>5, <1>6, <1>7

LEMMA DisconnectTipStep ==
    ASSUME IInv, node' = node, DisconnectTip
    PROVE  IInv'
<1> USE DEF IInv
<1>1. /\ phase = "run"
      /\ tip # Genesis
      /\ coinsBest = tip
      /\ CoinsView = Ancestors[tip]
      /\ coinsBest' = Parent[tip]
      /\ coinsCache' = Cached(tip, FALSE)
      /\ phase' = "decide"
      /\ mode' = "if_needed"
      /\ UNCHANGED <<indexVars, tip, fDoFullFlush, setFilesToPrune, fileVars, treeVars,
                     chainstate, faults, crashes>>
  BY Zenon DEF DisconnectTip, Call
<1>2. tip \in Blocks \ {Genesis}
  BY Zenon, <1>1 DEF TypeOK
<1>3. /\ CoinsView' = CoinsView \ {tip}
      /\ \E S \in SUBSET Blocks : coinsCache' \in [S -> BOOLEAN]
  BY Zenon, <1>1, <1>2, CoinsCached
<1>4. TypeOK'
  <2>1. Entry' = Entry /\ Info' = Info
    BY Zenon, SameNode DEF Entry, Info
  <2>2. coinsBest' \in Blocks
    BY Zenon, <1>1, <1>2, Chains
  <2> QED BY Zenon, <1>1, <1>3, <2>1, <2>2, SameNode DEF TypeOK, indexVars, fileVars, treeVars
<1>5. IndexAgrees' /\ IndexClosed'
  BY Zenon, <1>1, IndexFrame DEF indexVars, treeVars
<1>6. CoinsAgree'
  <2>1. CoinsView' = Ancestors[coinsBest']
    BY Zenon, <1>1, <1>2, <1>3, Chains
  <2>2. \A c \in Ancestors[coinsBest'] : index'[c].known
    BY SMTT(30), <1>1, <1>2, Chains DEF CoinsAgree, indexVars
  <2> QED BY Zenon, <2>1, <2>2 DEF CoinsAgree
<1>7. CoinsMatchBest' /\ BestIsIndexed'
  BY Zenon, <1>1 DEF CoinsMatchBest, BestIsIndexed, treeVars
<1>8. CallInOrder' /\ ShutdownKeepsAll'
  BY Zenon, <1>1 DEF CallInOrder, ShutdownKeepsAll
<1> QED BY Zenon, <1>4, <1>5, <1>6, <1>7, <1>8

-----------------------------------------------------------------------------
(* The databases: FlushStateToDisk.                                        *)

\* A call of FlushStateToDisk by Flush or Shutdown.
LEMMA CallStep ==
    ASSUME IInv, node' = node, NEW m \in {"periodic", "always", "shutdown"},
           phase = "run", Call(m),
           UNCHANGED <<indexVars, tip, coinsVars, fDoFullFlush, setFilesToPrune,
                       fileVars, treeVars, chainstate, faults, crashes>>
    PROVE  IInv'
<1> USE DEF IInv
<1>1. phase' = "decide" /\ mode' = m
  BY Zenon DEF Call
<1>2. TypeOK'
  <2>1. Entry' = Entry /\ Info' = Info
    BY Zenon, SameNode DEF Entry, Info
  <2> QED BY Zenon, <1>1, <2>1, SameNode DEF TypeOK, indexVars, coinsVars, fileVars, treeVars
<1>3. IndexAgrees' /\ IndexClosed'
  BY Zenon, IndexFrame DEF indexVars, treeVars
<1>4. CoinsAgree' /\ CoinsMatchBest'
  BY Zenon, CoinsFrame DEF indexVars
<1>5. BestIsIndexed'
  BY Zenon, BestFrame DEF treeVars
<1>6. CallInOrder' /\ ShutdownKeepsAll'
  BY Zenon, <1>1 DEF CallInOrder, ShutdownKeepsAll, coinsVars
<1> QED BY Zenon, <1>2, <1>3, <1>4, <1>5, <1>6

\* What a return from FlushStateToDisk does to the call.
LEMMA ReturnStep ==
    ASSUME TypeOK, NEW ok \in BOOLEAN, Return(ok)
    PROVE  /\ phase' = IF mode = "shutdown" THEN "stopped" ELSE "run"
           /\ mode' = "none"
           /\ tip' \in {tip, coinsBest} /\ tip' \in Blocks
           /\ tip' = IF mode = "if_needed" /\ ok THEN coinsBest ELSE tip
           /\ fDoFullFlush' = FALSE
           /\ setFilesToPrune' = {}
BY Zenon DEF Return, TypeOK

LEMMA PruneStep ==
    ASSUME TypeOK, IndexAgrees, IndexClosed, node' = node, UNCHANGED treeVars,
           NEW files \in FindFilesToPrune, PruneFiles(files)
    PROVE  /\ files \subseteq Files
           /\ index' \in [Blocks -> Entry]
           /\ setDirtyBlockIndex' \subseteq Blocks
           /\ setDirtyFileInfo' \subseteq Files
           /\ vinfoBlockFile' \in [Files -> Info]
           /\ fCheckForPruning' \in BOOLEAN
           /\ nLastBlockFile' = nLastBlockFile
           /\ \A c \in Blocks : index'[c].known = index[c].known
           /\ IndexAgrees' /\ IndexClosed'
<1>1. files \subseteq Files
  BY Zenon DEF FindFilesToPrune, Prunable
<1>2. /\ index' = [b \in Blocks |-> IF b \in Pruned(files) THEN Header ELSE index[b]]
      /\ setDirtyBlockIndex' = setDirtyBlockIndex \cup Pruned(files)
      /\ vinfoBlockFile' = [f \in Files |-> IF f \in files THEN NoInfo ELSE vinfoBlockFile[f]]
      /\ setDirtyFileInfo' = setDirtyFileInfo \cup files
      /\ fCheckForPruning' = FALSE
      /\ nLastBlockFile' = nLastBlockFile
  BY Zenon DEF PruneFiles, DirtyPruned
<1>3. Header \in Entry /\ Header.known /\ Header.nDataPos = 0 /\ NoInfo \in Info
  BY Zenon, NodeFacts DEF Header, Stored, Entry, NoInfo, Info, TypeOK
<1>4. Pruned(files) \subseteq Blocks /\ \A b \in Pruned(files) : index[b].known
  BY Zenon DEF Pruned
<1>5. index' \in [Blocks -> Entry]
  BY Zenon, <1>2, <1>3 DEF TypeOK
<1>6. vinfoBlockFile' \in [Files -> Info]
  BY Zenon, <1>2, <1>3 DEF TypeOK
<1>7. \A c \in Blocks : index'[c].known = index[c].known
  BY Zenon, <1>2, <1>3, <1>4 DEF TypeOK, Entry
<1>8. IndexAgrees' /\ IndexClosed'
  <2>1. dbIndex' = dbIndex /\ dbFileInfo' = dbFileInfo
    BY Zenon DEF treeVars
  <2>2. \A c \in Blocks \ {Genesis} : index'[c].known => index'[Parent[c]].known
    BY Zenon, <1>7, Chains DEF IndexAgrees
  <2>3. \A c \in Blocks \ setDirtyBlockIndex' : dbIndex'[c] = index'[c]
    BY Zenon, <1>2, <2>1 DEF IndexAgrees
  <2>4. \A e \in Files' \ setDirtyFileInfo' : dbFileInfo'[e] = vinfoBlockFile'[e]
    BY Zenon, <1>2, <2>1, SameNode DEF IndexAgrees
  <2>5. \A c \in Blocks : dbIndex'[c].known => index'[c].known
    BY Zenon, <1>7, <2>1 DEF IndexAgrees
  <2>6. \A c \in Blocks : index'[c].nDataPos > 0 => index'[c].known
    BY Zenon, <1>2, <1>3, <1>7 DEF IndexAgrees
  <2> QED BY Zenon, <2>1, <2>2, <2>3, <2>4, <2>5, <2>6 DEF IndexAgrees, IndexClosed
<1> QED BY Zenon, <1>1, <1>2, <1>4, <1>5, <1>6, <1>7, <1>8 DEF TypeOK

LEMMA DecideStep ==
    ASSUME IInv, node' = node, Decide
    PROVE  IInv'
<1> USE DEF IInv
<1>1. PICK files \in FindFilesToPrune, full \in BOOLEAN, write \in BOOLEAN :
         /\ Always \/ files # {} => full
         /\ PruneFiles(files)
         /\ IF full \/ write THEN Begin(full, files) ELSE Return(TRUE)
  BY Zenon DEF Decide
<1>2. /\ phase = "decide"
      /\ UNCHANGED <<coinsVars, fileVars, treeVars, chainstate, faults, crashes>>
  BY Zenon DEF Decide
<1>3. /\ files \subseteq Files
      /\ index' \in [Blocks -> Entry]
      /\ setDirtyBlockIndex' \subseteq Blocks
      /\ setDirtyFileInfo' \subseteq Files
      /\ vinfoBlockFile' \in [Files -> Info]
      /\ fCheckForPruning' \in BOOLEAN
      /\ nLastBlockFile' = nLastBlockFile
      /\ \A c \in Blocks : index'[c].known = index[c].known
      /\ IndexAgrees' /\ IndexClosed'
  BY Zenon, <1>1, <1>2, PruneStep
<1>4. \/ /\ phase' = "files" /\ fDoFullFlush' = full /\ setFilesToPrune' = files
         /\ UNCHANGED <<mode, tip>>
      \/ /\ mode # "shutdown" /\ phase' = "run" /\ mode' = "none"
         /\ tip' = IF mode = "if_needed" THEN coinsBest ELSE tip
         /\ tip' \in Blocks
         /\ fDoFullFlush' = FALSE /\ setFilesToPrune' = {}
  <2>1. CASE full \/ write
    BY Zenon, <1>1, <2>1 DEF Begin
  <2>2. CASE ~(full \/ write)
    <3>1. mode # "shutdown"
      BY Zenon, <1>1, <2>2 DEF Always
    <3> QED BY Zenon, <1>1, <2>2, <3>1, ReturnStep
  <2> QED BY Zenon, <2>1, <2>2
<1>5. TypeOK'
  <2>1. Entry' = Entry /\ Info' = Info
    BY Zenon, SameNode DEF Entry, Info
  <2>2. /\ phase' \in {"run", "files"} /\ mode' \in {mode, "none"} /\ tip' \in Blocks
        /\ fDoFullFlush' \in BOOLEAN /\ setFilesToPrune' \subseteq Files
    BY Zenon, <1>3, <1>4 DEF TypeOK
  <2> QED BY Zenon, <1>2, <1>3, <2>1, <2>2, SameNode DEF TypeOK, coinsVars, fileVars, treeVars
<1>6. CoinsAgree' /\ CoinsMatchBest'
  BY Zenon, <1>2, <1>3, CoinsFrame
<1>7. BestIsIndexed'
  BY Zenon, <1>2, BestFrame DEF treeVars
<1>8. CallInOrder' /\ ShutdownKeepsAll'
  <2>1. mode = "shutdown" => full
    BY Zenon, <1>1 DEF Always
  <2> QED BY Zenon, <1>2, <1>4, <2>1 DEF CallInOrder, ShutdownKeepsAll, coinsVars
<1> QED BY Zenon, <1>3, <1>5, <1>6, <1>7, <1>8

\* A failed check of the disk space, at either place.
LEMMA OutOfSpaceStep ==
    ASSUME IInv, node' = node, OutOfDiskSpace \/ OutOfDiskSpaceForCoins
    PROVE  IInv'
<1> USE DEF IInv
<1>1. /\ Fails("space")
      /\ Return(FALSE)
      /\ faults' = faults + 1
      /\ UNCHANGED <<coinsVars, fileVars, treeVars, chainstate, crashes>>
  BY Zenon DEF OutOfDiskSpace, OutOfDiskSpaceForCoins
<1>2. /\ index' \in [Blocks -> Entry]
      /\ setDirtyBlockIndex' \subseteq Blocks
      /\ setDirtyFileInfo' \subseteq Files
      /\ vinfoBlockFile' \in [Files -> Info]
      /\ fCheckForPruning' \in BOOLEAN
      /\ nLastBlockFile' = nLastBlockFile
      /\ \A c \in Blocks : index'[c].known = index[c].known
      /\ IndexAgrees' /\ IndexClosed'
  <2>1. CASE OutOfDiskSpace
    <3>1. PICK files \in FindFilesToPrune : PruneFiles(files)
      BY Zenon, <2>1 DEF OutOfDiskSpace
    <3> QED BY Zenon, <1>1, <3>1, PruneStep
  <2>2. CASE OutOfDiskSpaceForCoins
    <3>1. UNCHANGED indexVars
      BY Zenon, <2>2 DEF OutOfDiskSpaceForCoins
    <3>2. IndexAgrees' /\ IndexClosed'
      BY Zenon, <1>1, <3>1, IndexFrame DEF indexVars, treeVars
    <3> QED BY Zenon, <3>1, <3>2 DEF indexVars, TypeOK
  <2> QED BY Zenon, <2>1, <2>2
<1>3. /\ phase' \in {"stopped", "run"} /\ mode' = "none" /\ tip' \in Blocks
      /\ fDoFullFlush' = FALSE /\ setFilesToPrune' = {}
  BY Zenon, <1>1, ReturnStep
<1>4. faults' \in Nat /\ faults' # 0 /\ faults' + crashes' <= MaxFailures'
  BY SMTT(30), <1>1, SameNode, NodeFacts DEF TypeOK, Fails
<1>5. TypeOK'
  <2>1. Entry' = Entry /\ Info' = Info
    BY Zenon, SameNode DEF Entry, Info
  <2> QED BY Zenon, <1>1, <1>2, <1>3, <1>4, <2>1, SameNode DEF TypeOK, coinsVars, fileVars, treeVars
<1>6. CoinsAgree' /\ CoinsMatchBest'
  BY Zenon, <1>1, <1>2, CoinsFrame
<1>7. BestIsIndexed'
  BY Zenon, <1>1, BestFrame DEF treeVars
<1>8. CallInOrder' /\ ShutdownKeepsAll'
  BY Zenon, <1>3, <1>4 DEF CallInOrder, ShutdownKeepsAll
<1> QED BY Zenon, <1>2, <1>5, <1>6, <1>7, <1>8

LEMMA FlushBlockFileStep ==
    ASSUME IInv, node' = node, FlushBlockFile
    PROVE  IInv'
<1> USE DEF IInv
<1>1. /\ phase = "files"
      /\ phase' = "index"
      /\ unsynced' = Uncommitted(nLastBlockFile)
      /\ UNCHANGED <<indexVars, tip, coinsVars, mode, fDoFullFlush, setFilesToPrune,
                     blk, rev, treeVars, chainstate, faults, crashes>>
  BY Zenon DEF FlushBlockFile
<1>2. TypeOK'
  <2>1. Entry' = Entry /\ Info' = Info
    BY Zenon, SameNode DEF Entry, Info
  <2>2. unsynced' \subseteq unsynced
    BY Zenon, <1>1 DEF Uncommitted
  <2> QED BY Zenon, <1>1, <2>1, <2>2, SameNode DEF TypeOK, indexVars, coinsVars, treeVars
<1>3. IndexAgrees' /\ IndexClosed'
  BY Zenon, <1>1, IndexFrame DEF indexVars, treeVars
<1>4. CoinsAgree' /\ CoinsMatchBest'
  BY Zenon, <1>1, CoinsFrame DEF indexVars
<1>5. BestIsIndexed'
  BY Zenon, <1>1, BestFrame DEF treeVars
<1>6. CallInOrder' /\ ShutdownKeepsAll'
  BY Zenon, <1>1 DEF CallInOrder, ShutdownKeepsAll, coinsVars
<1> QED BY Zenon, <1>2, <1>3, <1>4, <1>5, <1>6

\* Once the dirty entries are written the databases are what is in memory.
LEMMA IndexWritten ==
    ASSUME TypeOK, IndexAgrees
    PROVE  /\ [b \in Blocks |-> IF b \in setDirtyBlockIndex THEN index[b] ELSE dbIndex[b]] = index
           /\ [f \in Files |-> IF f \in setDirtyFileInfo THEN vinfoBlockFile[f]
                                                         ELSE dbFileInfo[f]] = vinfoBlockFile
BY Zenon DEF TypeOK, IndexAgrees

LEMMA WriteBatchStep ==
    ASSUME DatabasesWork, IInv, node' = node, NEW ok \in BOOLEAN, WriteBatchSync(ok)
    PROVE  IInv'
<1> USE DEF IInv
<1>1. ok
  BY Zenon DEF WriteBatchSync, Fails, Faults, DatabasesWork, TypeOK
<1>2. /\ phase = "index"
      /\ phase' = "unlink"
      /\ setDirtyBlockIndex' = {}
      /\ setDirtyFileInfo' = {}
      /\ dbIndex' = index
      /\ dbFileInfo' = vinfoBlockFile
      /\ dbLastBlockFile' = nLastBlockFile
      /\ UNCHANGED <<tip, mode, fDoFullFlush, setFilesToPrune, faults>>
      /\ UNCHANGED <<index, vinfoBlockFile, nLastBlockFile, fCheckForPruning, coinsVars,
                     fileVars, chainstate, crashes>>
  BY Zenon, <1>1, IndexWritten DEF WriteBatchSync
<1>3. TypeOK'
  <2>1. Entry' = Entry /\ Info' = Info
    BY Zenon, SameNode DEF Entry, Info
  <2> QED BY Zenon, <1>2, <2>1, SameNode DEF TypeOK, coinsVars, fileVars
<1>4. IndexAgrees' /\ IndexClosed'
  BY Zenon, <1>2, SameNode DEF IndexAgrees, IndexClosed
<1>5. CoinsAgree' /\ CoinsMatchBest'
  BY Zenon, <1>2, CoinsFrame
<1>6. BestIsIndexed'
  <2> SUFFICES ASSUME NEW i \in DOMAIN chainstate, NEW b \in Ancestors[chainstate[i].best]
               PROVE  dbIndex'[b].known
    BY Zenon, <1>2 DEF BestIsIndexed
  <2>1. dbIndex[b].known
    BY Zenon DEF BestIsIndexed
  <2>2. chainstate[i].best \in Blocks
    BY Zenon, Versions
  <2>3. b \in Blocks
    BY Zenon, <2>2, Chains
  <2> QED BY Zenon, <1>2, <2>1, <2>3 DEF IndexAgrees
<1>7. CallInOrder' /\ ShutdownKeepsAll'
  BY Zenon, <1>2 DEF CallInOrder, ShutdownKeepsAll, coinsVars
<1> QED BY Zenon, <1>3, <1>4, <1>5, <1>6, <1>7

LEMMA UnlinkStep ==
    ASSUME IInv, node' = node, UnlinkPrunedFiles
    PROVE  IInv'
<1> USE DEF IInv
<1>1. /\ phase = "unlink"
      /\ blk' = [f \in Files |-> IF f \in setFilesToPrune THEN <<>> ELSE blk[f]]
      /\ rev' = [f \in Files |-> IF f \in setFilesToPrune THEN <<>> ELSE rev[f]]
      /\ unsynced' \subseteq unsynced
      /\ UNCHANGED <<indexVars, coinsVars, treeVars, chainstate, faults, crashes>>
  BY Zenon DEF UnlinkPrunedFiles
<1>2. \/ phase' = "coins" /\ UNCHANGED <<tip, mode, fDoFullFlush, setFilesToPrune>>
      \/ /\ mode # "shutdown" /\ phase' = "run" /\ mode' = "none"
         /\ tip' = IF mode = "if_needed" THEN coinsBest ELSE tip
         /\ tip' \in Blocks
         /\ fDoFullFlush' = FALSE /\ setFilesToPrune' = {}
  <2>1. CASE fDoFullFlush
    BY Zenon, <2>1 DEF UnlinkPrunedFiles
  <2>2. CASE ~fDoFullFlush
    <3>1. Return(TRUE)
      BY Zenon, <2>2 DEF UnlinkPrunedFiles
    <3>2. mode # "shutdown"
      BY Zenon, <1>1, <2>2 DEF CallInOrder
    <3> QED BY Zenon, <3>1, <3>2, ReturnStep
  <2> QED BY Zenon, <2>1, <2>2
<1>3. TypeOK'
  <2>1. Entry' = Entry /\ Info' = Info
    BY Zenon, SameNode DEF Entry, Info
  <2>2. /\ phase' \in {"run", "coins"} /\ mode' \in {mode, "none"} /\ tip' \in Blocks
        /\ fDoFullFlush' \in BOOLEAN /\ setFilesToPrune' \subseteq Files
    BY Zenon, <1>2 DEF TypeOK
  <2>3. <<>> \in Seq(Blocks \cup {Garbage})
    BY SMTT(30)
  <2>4. /\ blk' \in [Files -> Seq(Blocks \cup {Garbage})]
        /\ rev' \in [Files -> Seq(Blocks \cup {Garbage})]
    BY Zenon, <1>1, <2>3 DEF TypeOK
  <2> QED BY Zenon, <1>1, <2>1, <2>2, <2>4, SameNode DEF TypeOK, indexVars, coinsVars, treeVars
<1>4. IndexAgrees' /\ IndexClosed'
  BY Zenon, <1>1, IndexFrame DEF indexVars, treeVars
<1>5. CoinsAgree' /\ CoinsMatchBest'
  BY Zenon, <1>1, CoinsFrame DEF indexVars
<1>6. BestIsIndexed'
  BY Zenon, <1>1, BestFrame DEF treeVars
<1>7. CallInOrder' /\ ShutdownKeepsAll'
  BY Zenon, <1>1, <1>2 DEF CallInOrder, ShutdownKeepsAll, coinsVars, indexVars, treeVars
<1> QED BY Zenon, <1>3, <1>4, <1>5, <1>6, <1>7

LEMMA EmptyTyped == \E S \in SUBSET Blocks : EmptyCache \in [S -> BOOLEAN]
<1>1. EmptyCache \in [{} -> BOOLEAN] /\ {} \in SUBSET Blocks
  BY Zenon DEF EmptyCache
<1> QED BY <1>1, Zenon

LEMMA FlushCoinsStep ==
    ASSUME DatabasesWork, IInv, node' = node, NEW ok \in BOOLEAN, FlushCoins(ok)
    PROVE  IInv'
<1> USE DEF IInv
<1> DEFINE v == [best |-> coinsBest, applied |-> CoinsView]
           V == [best: Blocks, applied: SUBSET Blocks]
<1>1. ok
  BY Zenon DEF FlushCoins, Fails, Faults, DatabasesWork, TypeOK
<1>2. /\ phase = "coins"
      /\ coinsCache' = EmptyCache
      /\ chainstate' = Pushed(v)
      /\ faults' = faults
      /\ Return(TRUE)
      /\ UNCHANGED <<indexVars, coinsBest, fileVars, treeVars, crashes>>
  BY Zenon, <1>1 DEF FlushCoins
<1>3. /\ phase' = IF mode = "shutdown" THEN "stopped" ELSE "run"
      /\ mode' = "none"
      /\ tip' = IF mode = "if_needed" THEN coinsBest ELSE tip
      /\ tip' \in Blocks
      /\ fDoFullFlush' = FALSE
      /\ setFilesToPrune' = {}
  BY Zenon, <1>2, ReturnStep
<1>4. v \in V /\ v.best = coinsBest /\ v.applied = Ancestors[coinsBest]
  BY Zenon, Chains DEF CoinsAgree, CoinsView, TypeOK
<1> HIDE DEF v
<1>5. /\ chainstate' \in Seq(V)
      /\ Len(chainstate') \in 1..MaxUnsynced
      /\ Latest' = v
      /\ \A i \in DOMAIN chainstate' :
           \/ chainstate'[i] = v
           \/ \E j \in DOMAIN chainstate : chainstate'[i] = chainstate[j]
  <2>1. /\ chainstate \in Seq(V)
        /\ Len(chainstate) \in 1..MaxUnsynced
        /\ MaxUnsynced \in Nat \ {0}
    BY Zenon, NodeFacts DEF TypeOK
  <2> HIDE DEF V
  <2> QED BY ZenonT(60), <1>2, <1>4, <2>1, VersionPushed DEF Latest
<1>6. TypeOK'
  <2>1. Entry' = Entry /\ Info' = Info
    BY Zenon, SameNode DEF Entry, Info
  <2>2. \E S \in SUBSET Blocks : coinsCache' \in [S -> BOOLEAN]
    BY Zenon, <1>2, EmptyTyped
  <2>3. phase' \in {"run", "stopped"}
    BY Zenon, <1>3
  <2> QED BY Zenon, <1>2, <1>3, <1>5, <2>1, <2>2, <2>3, SameNode DEF TypeOK, indexVars, fileVars, treeVars
<1>7. IndexAgrees' /\ IndexClosed'
  BY Zenon, <1>2, IndexFrame DEF indexVars, treeVars
<1>8. CoinsAgree'
  <2>1. CoinsView' = Latest'.applied \cap Blocks
    BY Zenon, <1>2 DEF CoinsView, EmptyCache
  <2>2. coinsBest \in Blocks
    BY Zenon DEF TypeOK
  <2>3. CoinsView' = Ancestors[coinsBest']
    BY Zenon, <1>2, <1>4, <1>5, <2>1, <2>2, Chains
  <2> QED BY Zenon, <1>2, <2>3 DEF CoinsAgree, indexVars
<1>9. CoinsMatchBest'
  BY Zenon, <1>4, <1>5 DEF CoinsMatchBest
<1>10. dbIndex = index
  <2>1. setDirtyBlockIndex = {}
    BY Zenon, <1>2 DEF CallInOrder
  <2> QED BY SMTT(30), <2>1 DEF IndexAgrees, TypeOK
<1>11. BestIsIndexed'
  BY Zenon, <1>2, <1>4, <1>5, <1>10 DEF BestIsIndexed, CoinsAgree, treeVars
<1>12. CallInOrder'
  BY Zenon, <1>2, <1>3 DEF CallInOrder
<1>13. ShutdownKeepsAll'
  <2> SUFFICES ASSUME mode = "shutdown", faults = 0
               PROVE  /\ dbIndex' = index'
                      /\ dbFileInfo' = vinfoBlockFile'
                      /\ dbLastBlockFile' = nLastBlockFile'
                      /\ Latest' = [best |-> tip', applied |-> Ancestors[tip']]
    BY Zenon, <1>2, <1>3 DEF ShutdownKeepsAll
  <2>1. dbFileInfo = vinfoBlockFile
    <3>1. setDirtyFileInfo = {}
      BY Zenon, <1>2 DEF CallInOrder
    <3> QED BY SMTT(30), <3>1 DEF IndexAgrees, TypeOK
  <2>2. tip' = coinsBest /\ dbLastBlockFile = nLastBlockFile
    BY Zenon, <1>2, <1>3 DEF CallInOrder
  <2>3. v = [best |-> coinsBest, applied |-> Ancestors[coinsBest]]
    BY Zenon DEF v, CoinsAgree
  <2> QED BY Zenon, <1>2, <1>5, <1>10, <2>1, <2>2, <2>3 DEF indexVars, treeVars
<1> QED BY Zenon, <1>6, <1>7, <1>8, <1>9, <1>11, <1>12, <1>13

-----------------------------------------------------------------------------
(* The databases: crash and restart.                                       *)

\* The start of the node from some of the versions of the chain state.
LEMMA LoadStep ==
    ASSUME IInv, node' = node, Load, UNCHANGED <<treeVars, faults>>,
           chainstate' \in Seq([best: Blocks, applied: SUBSET Blocks]),
           Len(chainstate') \in 1..MaxUnsynced,
           \A i \in DOMAIN chainstate' :
             \E j \in DOMAIN chainstate : chainstate'[i] = chainstate[j],
           blk' \in [Files -> Seq(Blocks \cup {Garbage})],
           rev' \in [Files -> Seq(Blocks \cup {Garbage})],
           unsynced' \subseteq unsynced,
           crashes' \in Nat, faults' + crashes' <= MaxFailures
    PROVE  IInv'
<1> USE DEF IInv
<1>1. /\ index' = dbIndex
      /\ vinfoBlockFile' = dbFileInfo
      /\ nLastBlockFile' = dbLastBlockFile
      /\ setDirtyBlockIndex' = {}
      /\ setDirtyFileInfo' = {}
      /\ tip' = Latest'.best
      /\ coinsBest' = Latest'.best
      /\ coinsCache' = EmptyCache
      /\ fCheckForPruning' = fPruneMode'
      /\ phase' \in {"refused", "decide", "run"}
      /\ mode' = "none"
      /\ fDoFullFlush' = FALSE
      /\ setFilesToPrune' = {}
      /\ dbIndex' = dbIndex /\ dbFileInfo' = dbFileInfo /\ dbLastBlockFile' = dbLastBlockFile
  BY Zenon, SameNode DEF Load, treeVars
<1>2. Len(chainstate') \in DOMAIN chainstate'
  <2>1. MaxUnsynced \in Nat
    BY Zenon, NodeFacts DEF TypeOK
  <2> QED BY SMTT(30), <2>1
<1>3. PICK j \in DOMAIN chainstate : Latest' = chainstate[j]
  BY Zenon, <1>2 DEF Latest
<1>4. /\ Latest'.best \in Blocks
      /\ Latest'.applied = Ancestors[Latest'.best]
      /\ \A b \in Ancestors[Latest'.best] : dbIndex[b].known
  BY Zenon, <1>3, Versions DEF CoinsMatchBest, BestIsIndexed
<1>5. TypeOK'
  <2>1. Entry' = Entry /\ Info' = Info
    BY Zenon, SameNode DEF Entry, Info
  <2>2. \E S \in SUBSET Blocks : coinsCache' \in [S -> BOOLEAN]
    BY Zenon, <1>1, EmptyTyped
  <2>3. fPruneMode' \in BOOLEAN
    BY Zenon, SameNode, NodeFacts DEF TypeOK
  <2> QED BY Zenon, <1>1, <1>4, <2>1, <2>2, <2>3, SameNode DEF TypeOK
<1>6. IndexAgrees' /\ IndexClosed'
  BY Zenon, <1>1, SameNode DEF IndexAgrees, IndexClosed
<1>7. CoinsAgree'
  <2>1. CoinsView' = Latest'.applied \cap Blocks
    BY Zenon, <1>1 DEF CoinsView, EmptyCache
  <2>2. CoinsView' = Ancestors[coinsBest']
    BY Zenon, <1>1, <1>4, <2>1, Chains
  <2> QED BY Zenon, <1>1, <1>4, <2>2 DEF CoinsAgree
<1>8. CoinsMatchBest' /\ BestIsIndexed'
  <2>1. CoinsMatchBest'
    BY ZenonT(60), <1>1 DEF CoinsMatchBest
  <2>2. BestIsIndexed'
    BY ZenonT(60), <1>1 DEF BestIsIndexed
  <2> QED BY Zenon, <2>1, <2>2
<1>9. CallInOrder' /\ ShutdownKeepsAll'
  BY Zenon, <1>1 DEF CallInOrder, ShutdownKeepsAll
<1> QED BY Zenon, <1>5, <1>6, <1>7, <1>8, <1>9

LEMMA RestartStep ==
    ASSUME IInv, node' = node, Restart
    PROVE  IInv'
<1> USE DEF IInv
<1>1. UNCHANGED <<fileVars, treeVars, chainstate, faults, crashes>> /\ Load
  BY Zenon DEF Restart
<1> QED BY Zenon, <1>1, LoadStep DEF fileVars, TypeOK

LEMMA CrashStep ==
    ASSUME IInv, node' = node, Crash
    PROVE  IInv'
<1> USE DEF IInv
<1>1. /\ faults + crashes < MaxFailures
      /\ unsynced' = IF PowerLoss THEN {} ELSE unsynced
      /\ UNCHANGED treeVars
      /\ Load
      /\ crashes' = crashes + 1
      /\ UNCHANGED faults
  BY Zenon DEF Crash
<1>2. PICK lost \in IF PowerLoss THEN SUBSET unsynced ELSE {{}},
           kept \in IF PowerLoss THEN 1..Len(chainstate) ELSE {Len(chainstate)} :
         /\ blk' = Lost("blk", blk, lost)
         /\ rev' = Lost("rev", rev, lost)
         /\ chainstate' = SubSeq(chainstate, 1, kept)
  BY Zenon DEF Crash
<1>3. /\ chainstate \in Seq([best: Blocks, applied: SUBSET Blocks])
      /\ Len(chainstate) \in 1..MaxUnsynced /\ MaxUnsynced \in Nat
      /\ kept \in 1..Len(chainstate)
  <2>1. Len(chainstate) \in 1..Len(chainstate)
    BY SMTT(30), NodeFacts DEF TypeOK
  <2> QED BY Zenon, <2>1, NodeFacts DEF TypeOK
<1>4. /\ chainstate' \in Seq([best: Blocks, applied: SUBSET Blocks])
      /\ Len(chainstate') = kept
      /\ \A i \in 1..kept : chainstate'[i] = chainstate[i]
  BY Zenon, <1>2, <1>3, VersionsKept
<1>5. Len(chainstate') \in 1..MaxUnsynced
  BY SMTT(30), <1>3, <1>4
<1>6. ASSUME NEW i \in DOMAIN chainstate'
      PROVE  \E j \in DOMAIN chainstate : chainstate'[i] = chainstate[j]
  <2>1. i \in 1..kept /\ i \in DOMAIN chainstate
    BY SMTT(30), <1>3, <1>4
  <2> QED BY Zenon, <1>4, <2>1
<1>7. /\ blk' \in [Files -> Seq(Blocks \cup {Garbage})]
      /\ rev' \in [Files -> Seq(Blocks \cup {Garbage})]
  BY Zenon, <1>2, FilesLost DEF TypeOK
<1>8. crashes' \in Nat /\ faults' + crashes' <= MaxFailures
  BY SMTT(30), <1>1, NodeFacts DEF TypeOK
<1>9. unsynced' \subseteq unsynced
  BY Zenon, <1>1
<1> QED BY Zenon, <1>1, <1>4, <1>5, <1>6, <1>7, <1>8, <1>9, LoadStep

-----------------------------------------------------------------------------
(* The databases: all steps.                                               *)

LEMMA InitIInv == Init => IInv
<1> SUFFICES ASSUME Init PROVE IInv
  BY Zenon
<1>1. node \in Nodes /\ 0 \in Files /\ Files \subseteq Nat /\ MaxUnsynced \in Nat \ {0}
       /\ MaxFailures \in Nat
  BY Zenon, NodeFacts DEF Init
<1>2. /\ index = [b \in Blocks |-> IF b = Genesis THEN Stored(0, 1) ELSE NoEntry]
      /\ vinfoBlockFile = [f \in Files |-> [NoInfo EXCEPT !.nSize = IF f = 0 THEN 1 ELSE 0]]
      /\ dbIndex = index /\ dbFileInfo = vinfoBlockFile
      /\ setDirtyBlockIndex = {} /\ setDirtyFileInfo = {}
      /\ tip = Genesis /\ coinsBest = Genesis /\ coinsCache = EmptyCache
      /\ phase = "run" /\ mode = "none"
      /\ chainstate = <<[best |-> Genesis, applied |-> {Genesis}]>>
  BY Zenon DEF Init
<1>3. \A b \in Blocks :
        /\ index[b] \in Entry
        /\ index[b].known = (b = Genesis)
        /\ index[b].nDataPos = IF b = Genesis THEN 1 ELSE 0
  <2>1. ASSUME NEW b \in Blocks, b = Genesis
        PROVE  index[b] \in Entry /\ index[b].known /\ index[b].nDataPos = 1
    <3>1. index[b] = Stored(0, 1)
      BY Zenon, <1>2, <2>1
    <3> QED BY SMTT(30), <1>1, <3>1 DEF Stored, Entry
  <2>2. ASSUME NEW b \in Blocks, b # Genesis
        PROVE  index[b] \in Entry /\ ~index[b].known /\ index[b].nDataPos = 0
    <3>1. index[b] = NoEntry
      BY Zenon, <1>2, <2>2
    <3> QED BY SMTT(30), <1>1, <3>1 DEF NoEntry, Entry
  <2> QED BY Zenon, <2>1, <2>2 DEF Entry
<1> DEFINE v == [best |-> Genesis, applied |-> {Genesis}]
           V == [best: Blocks, applied: SUBSET Blocks]
<1>4. /\ Len(chainstate) = 1
      /\ Latest = v
      /\ \A i \in DOMAIN chainstate : chainstate[i] = v
      /\ chainstate \in Seq(V)
      /\ v.best = Genesis /\ v.applied = {Genesis}
  <2>1. v \in V /\ v.best = Genesis /\ v.applied = {Genesis}
    BY Zenon, TreeAssumption
  <2>2. chainstate = <<v>>
    BY Zenon, <1>2
  <2> HIDE DEF v, V
  <2> QED BY SMTT(30), <2>1, <2>2 DEF Latest
<1> HIDE DEF v
<1>5. TypeOK
  <2>1. index \in [Blocks -> Entry]
    BY Zenon, <1>2, <1>3
  <2>2. vinfoBlockFile \in [Files -> Info]
    BY Zenon, <1>2 DEF NoInfo, Info
  <2>3. /\ blk \in [Files -> Seq(Blocks \cup {Garbage})]
        /\ rev \in [Files -> Seq(Blocks \cup {Garbage})]
    <3>1. <<Genesis>> \in Seq(Blocks \cup {Garbage}) /\ <<>> \in Seq(Blocks \cup {Garbage})
      BY SMTT(30), TreeAssumption
    <3> QED BY Zenon, <3>1 DEF Init
  <2>4. chainstate \in Seq([best: Blocks, applied: SUBSET Blocks])
    BY Zenon, <1>4
  <2>5. Len(chainstate) \in 1..MaxUnsynced
    BY SMTT(30), <1>1, <1>4
  <2>6. \E S \in SUBSET Blocks : coinsCache \in [S -> BOOLEAN]
    BY Zenon, <1>2, EmptyTyped
  <2>7. /\ nLastBlockFile = 0 /\ dbLastBlockFile = 0
        /\ fCheckForPruning = FALSE /\ fDoFullFlush = FALSE
        /\ setFilesToPrune = {} /\ unsynced = {} /\ faults = 0 /\ crashes = 0
    BY Zenon DEF Init
  <2>8. faults + crashes <= MaxFailures
    BY SMTT(30), <1>1, <2>7
  <2> HIDE DEF V
  <2> QED BY Zenon, <1>1, <1>2, <2>1, <2>2, <2>3, <2>4, <2>5, <2>6, <2>7, <2>8, TreeAssumption
          DEF TypeOK
<1>6. IndexAgrees /\ IndexClosed
  <2>1. \A b \in Blocks \ {Genesis} : ~index[b].known /\ index[b].nDataPos = 0
    BY Zenon, <1>2, <1>3
  <2>2. index[Genesis].known
    BY Zenon, <1>2, <1>3, TreeAssumption
  <2>3. \A b \in Blocks : index[b].nDataPos > 0 => index[b].known
    BY SMTT(30), <2>1, <2>2
  <2>4. dbIndex = index /\ dbFileInfo = vinfoBlockFile
    BY Zenon, <1>2
  <2> QED BY Zenon, <2>1, <2>2, <2>3, <2>4 DEF IndexAgrees, IndexClosed
<1>7. CoinsAgree /\ CoinsMatchBest /\ BestIsIndexed
  <2>1. CoinsView = {Genesis}
    BY Zenon, <1>2, <1>4, TreeAssumption DEF CoinsView, EmptyCache
  <2>2. index[Genesis].known
    BY Zenon, <1>2, <1>3, TreeAssumption
  <2>3. CoinsAgree
    BY Zenon, <1>2, <2>1, <2>2, TreeAssumption DEF CoinsAgree
  <2>4. CoinsMatchBest /\ BestIsIndexed
    <3>1. \A i \in DOMAIN chainstate :
            chainstate[i].best = Genesis /\ chainstate[i].applied = {Genesis}
      BY Zenon, <1>4
    <3>2. dbIndex[Genesis].known /\ Ancestors[Genesis] = {Genesis}
      BY Zenon, <1>2, <2>2, TreeAssumption
    <3> QED BY Zenon, <3>1, <3>2 DEF CoinsMatchBest, BestIsIndexed
  <2> QED BY Zenon, <2>3, <2>4
<1>8. CallInOrder /\ ShutdownKeepsAll
  BY Zenon, <1>2 DEF CallInOrder, ShutdownKeepsAll
<1> QED BY Zenon, <1>5, <1>6, <1>7, <1>8 DEF IInv

LEMMA StutterIInv ==
    ASSUME IInv, UNCHANGED vars
    PROVE  IInv'
<1> USE DEF IInv
<1>1. /\ UNCHANGED <<indexVars, tip, coinsVars, callVars, fileVars, treeVars, chainstate,
                     faults, crashes>>
      /\ node' = node
  BY Zenon DEF vars
<1>2. TypeOK'
  <2>1. Entry' = Entry /\ Info' = Info
    BY Zenon, <1>1, SameNode DEF Entry, Info
  <2> QED BY ZenonT(60), <1>1, <2>1, SameNode DEF TypeOK, indexVars, coinsVars, callVars, fileVars, treeVars
<1>3. IndexAgrees' /\ IndexClosed'
  BY Zenon, <1>1, IndexFrame DEF indexVars, treeVars
<1>4. CoinsAgree' /\ CoinsMatchBest'
  BY Zenon, <1>1, CoinsFrame DEF indexVars
<1>5. BestIsIndexed'
  BY Zenon, <1>1, BestFrame DEF treeVars
<1>6. CallInOrder' /\ ShutdownKeepsAll'
  BY Zenon, <1>1 DEF CallInOrder, ShutdownKeepsAll, coinsVars, callVars, indexVars, treeVars, Latest
<1> QED BY Zenon, <1>2, <1>3, <1>4, <1>5, <1>6

LEMMA NextIInv ==
    ASSUME DatabasesWork, IInv, [Next]_vars
    PROVE  IInv'
<1>1. CASE UNCHANGED vars
  BY Zenon, <1>1, StutterIInv
<1>2. CASE Next
  <2>0. node' = node /\ Arriving \subseteq Blocks
    BY Zenon, <1>2, NodeFacts DEF Next, IInv, TypeOK
  <2>1. ASSUME NEW b \in Arriving \ {Genesis}, AcceptBlockHeader(b) PROVE IInv'
    BY Zenon, <2>0, <2>1, HeaderStep
  <2>2. ASSUME NEW b \in Arriving \ {Genesis}, NEW ok \in BOOLEAN, AcceptBlock(b, ok) PROVE IInv'
    BY Zenon, <2>0, <2>2, BlockStep
  <2>3. ASSUME NEW b \in Arriving \ {Genesis}, ConnectTip(b) PROVE IInv'
    BY Zenon, <2>0, <2>3, ConnectTipStep
  <2>4. ASSUME NEW b \in Arriving \ {Genesis}, ConnectTipFails(b) PROVE IInv'
    BY Zenon, <2>0, <2>4, ConnectTipFailsStep
  <2>5. CASE DisconnectTip
    BY Zenon, <2>0, <2>5, DisconnectTipStep
  <2>6. ASSUME NEW m \in {"periodic", "always"}, Flush(m) PROVE IInv'
    BY Zenon, <2>0, <2>6, CallStep DEF Flush
  <2>7. CASE Decide
    BY Zenon, <2>0, <2>7, DecideStep
  <2>8. CASE OutOfDiskSpace \/ OutOfDiskSpaceForCoins
    BY Zenon, <2>0, <2>8, OutOfSpaceStep
  <2>9. CASE FlushBlockFile
    BY Zenon, <2>0, <2>9, FlushBlockFileStep
  <2>10. ASSUME NEW ok \in BOOLEAN, WriteBatchSync(ok) PROVE IInv'
    BY Zenon, <2>0, <2>10, WriteBatchStep
  <2>11. ASSUME NEW ok \in BOOLEAN, FlushCoins(ok) PROVE IInv'
    BY Zenon, <2>0, <2>11, FlushCoinsStep
  <2>12. CASE UnlinkPrunedFiles
    BY Zenon, <2>0, <2>12, UnlinkStep
  <2>13. CASE Shutdown
    BY Zenon, <2>0, <2>13, CallStep DEF Shutdown
  <2>14. CASE Restart
    BY Zenon, <2>0, <2>14, RestartStep
  <2>15. CASE Crash
    BY Zenon, <2>0, <2>15, CrashStep
  <2> QED BY Zenon, <1>2, <2>1, <2>2, <2>3, <2>4, <2>5, <2>6, <2>7, <2>8, <2>9, <2>10, <2>11,
             <2>12, <2>13, <2>14, <2>15 DEF Next, Steps
<1> QED BY Zenon, <1>1, <1>2

\* For every block tree, node, order of operations and place of the crashes and
\* of failures to write block files or to find disk space, pruning or not: each
\* version of the chain state that FlushStateToDisk wrote and a crash may leave is
\* exactly the coins of its best block, whose chain is in the block index database.
THEOREM Consistency ==
    ASSUME DatabasesWork
    PROVE  Spec => []DiskConsistent
<1>1. IInv => DiskConsistent
  BY Zenon DEF IInv, DiskConsistent
<1>2. IInv /\ [Next]_vars => IInv'
  BY Zenon, NextIInv
<1> QED BY <1>1, <1>2, InitIInv, PTL DEF Spec

\* Without a failed write, a shutdown leaves on disk all that was in memory, with
\* pruning or without.
THEOREM CleanShutdown ==
    ASSUME DatabasesWork
    PROVE  Spec => []ShutdownKeepsAll
<1>1. IInv => ShutdownKeepsAll
  BY Zenon DEF IInv
<1>2. IInv /\ [Next]_vars => IInv'
  BY Zenon, NextIInv
<1> QED BY <1>1, <1>2, InitIInv, PTL DEF Spec

-----------------------------------------------------------------------------
(* The files: what a step leaves alone.                                    *)

LEMMA FilesWorkFacts ==
    ASSUME FilesWork, TypeOK
    PROVE  /\ DatabasesWork
           /\ ~fPruneMode
           /\ ~Fails("block")
           /\ PowerLoss => Files = {0}
           /\ FindFilesToPrune = {{}}
<1>1. DatabasesWork
  BY Zenon, NodeAssumption DEF FilesWork, DatabasesWork
<1>2. ~fPruneMode /\ ~Fails("block") /\ (PowerLoss => Files = {0})
  BY Zenon DEF FilesWork, TypeOK, fPruneMode, Fails, Faults, PowerLoss, Files
<1> QED BY Zenon, <1>1, <1>2 DEF FindFilesToPrune

LEMMA NothingPruned ==
    ASSUME TypeOK, PruneFiles({})
    PROVE  UNCHANGED <<index, vinfoBlockFile, nLastBlockFile>>
<1>1. Pruned({}) = {}
  BY Zenon DEF Pruned
<1> QED BY Zenon, <1>1 DEF PruneFiles, TypeOK

LEMMA FilesFrame ==
    ASSUME FInv, node' = node,
           UNCHANGED <<index, vinfoBlockFile, blk, rev, dbFileInfo, dbIndex>>
    PROVE  /\ FilesHold'
           /\ \A b \in Blocks : EntryHolds(b)'
           /\ \A b \in Blocks : StoredEntryHolds(b)'
BY Zenon, SameNode DEF FInv, FilesHold, EntryHolds, StoredEntryHolds

LEMMA SyncedFrame ==
    ASSUME FInv, node' = node, UNCHANGED dbIndex, unsynced' \subseteq unsynced,
           phase' # "index"
    PROVE  SyncedFirst'
BY Zenon, SameNode DEF FInv, SyncedFirst, IndexedIsDurable

\* The chains stay where they are while a block's entry only gains.
LEMMA ChainsFrame ==
    ASSUME TypeOK, ChainsStored, UNCHANGED <<chainstate, dbIndex>>,
           Ancestors[tip'] \cup Ancestors[coinsBest'] \subseteq Ancestors[tip] \cup Ancestors[coinsBest],
           \A b \in Blocks : HasData(index, b) => HasData(index', b)
    PROVE  ChainsStored'
<1>1. {tip, coinsBest} \subseteq Blocks
  BY Zenon DEF TypeOK
<1>2. \A b \in Ancestors[tip] \cup Ancestors[coinsBest] : HasData(index', b)
  BY Zenon, <1>1, Chains DEF ChainsStored
<1>4. /\ \A b \in Ancestors[coinsBest'] : HasData(index', b)
      /\ \A b \in Ancestors[tip'] : HasData(index', b)
  BY Zenon, <1>2
<1>5. \A i \in DOMAIN chainstate :
        \A b \in Ancestors[chainstate[i].best] : HasData(dbIndex, b)
  BY Zenon DEF ChainsStored
<1> QED BY Zenon, <1>4, <1>5 DEF ChainsStored, HasData

\* A step that touches neither the files nor what is recorded of them.
LEMMA QuietStep ==
    ASSUME TypeOK, FInv, node' = node,
           UNCHANGED <<index, vinfoBlockFile, blk, rev, dbFileInfo, dbIndex, chainstate>>,
           unsynced' \subseteq unsynced, phase' \notin {"index", "refused"},
           setFilesToPrune' = {},
           Ancestors[tip'] \cup Ancestors[coinsBest'] \subseteq Ancestors[tip] \cup Ancestors[coinsBest]
    PROVE  FInv'
<1>1. ChainsStored'
  BY Zenon, ChainsFrame DEF FInv
<1>2. SyncedFirst'
  BY Zenon, SyncedFrame
<1> QED BY Zenon, <1>1, <1>2, FilesFrame DEF FInv, RestartSucceeds

-----------------------------------------------------------------------------
(* The files: blocks arrive and are connected.                             *)

LEMMA HeaderFiles ==
    ASSUME IInv, FInv, node' = node, NEW b \in Blocks \ {Genesis}, AcceptBlockHeader(b)
    PROVE  FInv'
<1> USE DEF IInv
<1>1. /\ index' = [index EXCEPT ![b] = Header]
      /\ ~index[b].known
      /\ phase = "run" /\ phase' = phase /\ setFilesToPrune' = setFilesToPrune
      /\ UNCHANGED <<vinfoBlockFile, blk, rev, unsynced, dbIndex, dbFileInfo, tip, coinsBest,
                     chainstate>>
  BY Zenon DEF AcceptBlockHeader, AddToBlockIndex, callVars, coinsVars, fileVars, treeVars
<1>2. /\ index'[b].nDataPos = 0 /\ index'[b].nUndoPos = 0
      /\ \A c \in Blocks \ {b} : index'[c] = index[c]
  BY Zenon, <1>1 DEF TypeOK, Header, Stored
<1>3. ~(index[b].nDataPos > 0) /\ ~(dbIndex[b].nDataPos > 0) /\ ~(dbIndex[b].nUndoPos > 0)
  BY Zenon, <1>1 DEF IndexAgrees, FInv, StoredEntryHolds
<1>4. FilesHold'
  BY Zenon, <1>1, SameNode DEF FInv, FilesHold
<1>5. ASSUME NEW c \in Blocks PROVE EntryHolds(c)' /\ StoredEntryHolds(c)'
  <2>1. CASE c = b
    BY SMTT(30), <1>1, <1>2, <1>3, <2>1 DEF EntryHolds, StoredEntryHolds
  <2>2. CASE c # b
    <3>1. EntryHolds(c) /\ StoredEntryHolds(c) /\ index'[c] = index[c]
      BY Zenon, <1>2, <2>2 DEF FInv
    <3> QED BY Zenon, <1>1, <3>1 DEF EntryHolds, StoredEntryHolds
  <2> QED BY ZenonT(60), <2>1, <2>2
<1>6. ChainsStored'
  <2>1. \A c \in Blocks : HasData(index, c) => HasData(index', c)
    BY Zenon, <1>2, <1>3 DEF HasData
  <2> QED BY Zenon, <1>1, <2>1, ChainsFrame DEF FInv
<1>7. SyncedFirst'
  BY Zenon, <1>1, SyncedFrame
<1> QED BY Zenon, <1>1, <1>4, <1>5, <1>6, <1>7 DEF FInv, RestartSucceeds

\* The files after AcceptBlock stored a block in file f: nothing within the
\* recorded sizes is changed.
LEMMA FileKept ==
    ASSUME IInv, FInv, NEW b \in Blocks \ {Genesis}, NEW f \in Files, NEW chunk \in BOOLEAN,
           StoreBlock(b, TRUE, f, chunk), NEW e \in Files
    PROVE  /\ vinfoBlockFile'[e].nSize = vinfoBlockFile[e].nSize + (IF e = f THEN 1 ELSE 0)
           /\ vinfoBlockFile'[e].nUndoSize = vinfoBlockFile[e].nUndoSize
           /\ vinfoBlockFile'[e].nSize <= Len(blk'[e])
           /\ vinfoBlockFile'[e].nUndoSize <= Len(rev'[e])
           /\ \A p \in 1..vinfoBlockFile[e].nSize : blk'[e][p] = blk[e][p]
           /\ \A p \in 1..vinfoBlockFile[e].nUndoSize : rev'[e][p] = rev[e][p]
           /\ e = f => blk'[e][vinfoBlockFile[e].nSize + 1] = b
<1> USE DEF IInv
<1> DEFINE S == Blocks \cup {Garbage}
           old == nLastBlockFile
           n == vinfoBlockFile[e].nSize
           u == vinfoBlockFile[e].nUndoSize
           cut == Finalized(blk, f, vinfoBlockFile[old].nSize)
<1>1. /\ vinfoBlockFile' = [vinfoBlockFile EXCEPT ![f] = Raised(vinfoBlockFile[f], b)]
      /\ blk' = [cut EXCEPT ![f] = Written(cut[f], vinfoBlockFile[f].nSize + 1, b)]
      /\ rev' = Finalized(rev, f, vinfoBlockFile[old].nUndoSize)
  BY Zenon DEF StoreBlock
<1>2. /\ vinfoBlockFile[e] \in Info
      /\ n \in Nat /\ u \in Nat
      /\ blk[e] \in Seq(S) /\ rev[e] \in Seq(S)
      /\ n <= Len(blk[e]) /\ u <= Len(rev[e])
      /\ old \in Files
      /\ vinfoBlockFile \in [Files -> Info]
      /\ blk \in [Files -> Seq(S)] /\ rev \in [Files -> Seq(S)]
  BY Zenon DEF TypeOK, Info, FInv, FilesHold
<1>3. /\ vinfoBlockFile'[e].nSize = n + (IF e = f THEN 1 ELSE 0)
      /\ vinfoBlockFile'[e].nUndoSize = u
  BY SMTT(30), <1>1, <1>2, InfoRaised
<1>4. /\ cut[e] = (IF e = old /\ f # old THEN Truncated(blk[e], n) ELSE blk[e])
      /\ rev'[e] = (IF e = old /\ f # old THEN Truncated(rev[e], u) ELSE rev[e])
      /\ e \in DOMAIN cut
  BY Zenon, <1>1, <1>2 DEF Finalized
<1>5. blk'[e] = IF e = f THEN Written(cut[e], n + 1, b) ELSE cut[e]
  BY Zenon, <1>1, <1>4
<1>6. b \in S
  BY Zenon
<1> HIDE DEF S, n, u, cut, old
<1>7. /\ cut[e] \in Seq(S)
      /\ n <= Len(cut[e])
      /\ \A p \in 1..n : cut[e][p] = blk[e][p]
  <2>1. blk[e] \in Seq(S) /\ n \in Nat /\ n <= Len(blk[e])
    BY Zenon, <1>2
  <2>2. /\ Truncated(blk[e], n) \in Seq(S)
        /\ Len(Truncated(blk[e], n)) = n
        /\ \A q \in 1..n : Truncated(blk[e], n)[q] = blk[e][q]
    BY Zenon, <2>1, FileTruncated
  <2>3. CASE e = old /\ f # old
    BY SMTT(30), <1>4, <2>1, <2>2, <2>3
  <2>4. CASE ~(e = old /\ f # old)
    BY Zenon, <1>4, <2>1, <2>4
  <2> QED BY Zenon, <2>3, <2>4
<1>8. /\ rev'[e] \in Seq(S)
      /\ u <= Len(rev'[e])
      /\ \A p \in 1..u : rev'[e][p] = rev[e][p]
  <2>1. rev[e] \in Seq(S) /\ u \in Nat /\ u <= Len(rev[e])
    BY Zenon, <1>2
  <2>2. /\ Truncated(rev[e], u) \in Seq(S)
        /\ Len(Truncated(rev[e], u)) = u
        /\ \A q \in 1..u : Truncated(rev[e], u)[q] = rev[e][q]
    BY Zenon, <2>1, FileTruncated
  <2>3. CASE e = old /\ f # old
    BY SMTT(30), <1>4, <2>1, <2>2, <2>3
  <2>4. CASE ~(e = old /\ f # old)
    BY Zenon, <1>4, <2>1, <2>4
  <2> QED BY Zenon, <2>3, <2>4
<1>9. CASE e = f
  <2>1. cut[e] \in Seq(S) /\ n \in Nat /\ n <= Len(cut[e])
    BY Zenon, <1>2, <1>7
  <2>3. /\ Len(Written(cut[e], n + 1, b)) >= n + 1
        /\ Written(cut[e], n + 1, b)[n + 1] = b
        /\ \A q \in 1..n : Written(cut[e], n + 1, b)[q] = cut[e][q]
    BY Zenon, <1>6, <2>1, FileExtended DEF S
  <2> QED BY ZenonT(60), <1>3, <1>5, <1>7, <1>8, <1>9, <2>3 DEF n, u
<1>10. CASE e # f
  <2>1. blk'[e] = cut[e] /\ vinfoBlockFile'[e].nSize = n /\ vinfoBlockFile'[e].nUndoSize = u
    BY SMTT(30), <1>2, <1>3, <1>5, <1>10
  <2> QED BY Zenon, <1>3, <1>7, <1>8, <1>10, <2>1 DEF n, u
<1> QED BY Zenon, <1>9, <1>10

LEMMA BlockFiles ==
    ASSUME FilesWork, IInv, FInv, node' = node, NEW b \in Blocks \ {Genesis},
           NEW ok \in BOOLEAN, AcceptBlock(b, ok)
    PROVE  FInv'
<1> USE DEF IInv
<1>1. ok /\ ~fPruneMode /\ (PowerLoss => Files = {0})
  BY Zenon, FilesWorkFacts DEF AcceptBlock
<1>2. PICK f \in FindBlockPos, chunk \in {FALSE} : StoreBlock(b, TRUE, f, chunk)
  BY Zenon, <1>1 DEF AcceptBlock
<1>3. f \in Files
  BY Zenon DEF FindBlockPos
<1>3a. ASSUME NEW e \in Files
       PROVE  /\ vinfoBlockFile'[e].nSize = vinfoBlockFile[e].nSize + (IF e = f THEN 1 ELSE 0)
              /\ vinfoBlockFile'[e].nUndoSize = vinfoBlockFile[e].nUndoSize
              /\ vinfoBlockFile'[e].nSize <= Len(blk'[e])
              /\ vinfoBlockFile'[e].nUndoSize <= Len(rev'[e])
              /\ \A p \in 1..vinfoBlockFile[e].nSize : blk'[e][p] = blk[e][p]
              /\ \A p \in 1..vinfoBlockFile[e].nUndoSize : rev'[e][p] = rev[e][p]
              /\ e = f => blk'[e][vinfoBlockFile[e].nSize + 1] = b
  <2>1. chunk \in BOOLEAN
    BY Zenon
  <2> QED BY <1>2, <1>3, <2>1, FileKept, ZenonT(60)
<1>4. /\ phase = "run" /\ phase' \in {"run", "decide"}
      /\ index[b].nDataPos = 0
      /\ setFilesToPrune' = setFilesToPrune
      /\ UNCHANGED <<tip, coinsBest, dbIndex, dbFileInfo, chainstate>>
  BY Zenon DEF AcceptBlock, Call, coinsVars, treeVars
<1>5. /\ index' = [index EXCEPT ![b] = Stored(f, vinfoBlockFile[f].nSize + 1)]
      /\ unsynced' \subseteq unsynced \cup {<<"blk", f, vinfoBlockFile[f].nSize + 1>>}
  BY Zenon, <1>2 DEF StoreBlock, Uncommitted
<1>6. /\ index'[b].nFile = f /\ index'[b].nDataPos = vinfoBlockFile[f].nSize + 1
      /\ index'[b].nUndoPos = 0
      /\ \A c \in Blocks \ {b} : index'[c] = index[c]
  BY Zenon, <1>5 DEF TypeOK, Stored
<1>7. ~(index[b].nDataPos > 0) /\ ~(dbIndex[b].nDataPos > 0) /\ ~(dbIndex[b].nUndoPos > 0)
  BY SMTT(30), <1>4 DEF FInv, StoredEntryHolds
<1>8. \A e \in Files :
        /\ vinfoBlockFile[e].nSize \in Nat /\ vinfoBlockFile[e].nUndoSize \in Nat
        /\ dbFileInfo[e].nSize \in Nat /\ dbFileInfo[e].nUndoSize \in Nat
  BY Zenon DEF TypeOK, Info
<1>9. FilesHold'
  <2> SUFFICES ASSUME NEW e \in Files
               PROVE  /\ vinfoBlockFile'[e].nSize <= Len(blk'[e])
                      /\ vinfoBlockFile'[e].nUndoSize <= Len(rev'[e])
                      /\ dbFileInfo'[e].nSize <= vinfoBlockFile'[e].nSize
                      /\ dbFileInfo'[e].nUndoSize <= vinfoBlockFile'[e].nUndoSize
    BY Zenon, SameNode DEF FilesHold
  <2>1. /\ vinfoBlockFile'[e].nSize = vinfoBlockFile[e].nSize + (IF e = f THEN 1 ELSE 0)
        /\ vinfoBlockFile'[e].nUndoSize = vinfoBlockFile[e].nUndoSize
        /\ vinfoBlockFile'[e].nSize <= Len(blk'[e])
        /\ vinfoBlockFile'[e].nUndoSize <= Len(rev'[e])
    BY Zenon, <1>3, <1>3a
  <2>2. /\ dbFileInfo[e].nSize <= vinfoBlockFile[e].nSize
        /\ dbFileInfo[e].nUndoSize <= vinfoBlockFile[e].nUndoSize
    BY Zenon DEF FInv, FilesHold
  <2> QED BY SMTT(30), <1>4, <1>8, <2>1, <2>2
<1>10. ASSUME NEW c \in Blocks PROVE EntryHolds(c)'
  <2>1. CASE c = b
    <3>1. /\ vinfoBlockFile'[f].nSize = vinfoBlockFile[f].nSize + 1
          /\ blk'[f][vinfoBlockFile[f].nSize + 1] = b
      BY ZenonT(60), <1>3, <1>3a
    <3> QED BY SMTT(30), <1>3, <1>6, <1>8, <2>1, <3>1 DEF EntryHolds
  <2>2. CASE c # b
    <3> DEFINE e == index[c].nFile
    <3>1. EntryHolds(c) /\ index'[c] = index[c]
      BY Zenon, <1>6, <2>2 DEF FInv
    <3>2. e \in Files /\ index[c].nDataPos \in Nat /\ index[c].nUndoPos \in Nat
      BY Zenon DEF TypeOK, Entry
    <3>3. /\ vinfoBlockFile'[e].nSize = vinfoBlockFile[e].nSize + (IF e = f THEN 1 ELSE 0)
          /\ vinfoBlockFile'[e].nUndoSize = vinfoBlockFile[e].nUndoSize
          /\ \A p \in 1..vinfoBlockFile[e].nSize : blk'[e][p] = blk[e][p]
          /\ \A p \in 1..vinfoBlockFile[e].nUndoSize : rev'[e][p] = rev[e][p]
      BY Zenon, <3>2, <1>3a
    <3>4. vinfoBlockFile[e].nSize \in Nat /\ vinfoBlockFile[e].nUndoSize \in Nat
      BY Zenon, <1>8, <3>2
    <3> QED BY SMTT(30), <3>1, <3>2, <3>3, <3>4 DEF EntryHolds
  <2> QED BY Zenon, <2>1, <2>2
<1>11. ASSUME NEW c \in Blocks PROVE StoredEntryHolds(c)'
  <2>1. CASE c = b
    BY Zenon, <1>4, <1>7, <2>1 DEF StoredEntryHolds
  <2>2. CASE c # b
    BY Zenon, <1>4, <1>6, <2>2 DEF FInv, StoredEntryHolds
  <2> QED BY Zenon, <2>1, <2>2
<1>12. ChainsStored'
  <2>1. \A c \in Blocks : HasData(index, c) => HasData(index', c)
    BY Zenon, <1>6, <1>7 DEF HasData
  <2> QED BY Zenon, <1>4, <2>1, ChainsFrame DEF FInv
<1>13. SyncedFirst'
  <2> SUFFICES ASSUME PowerLoss, NEW c \in Blocks
               PROVE  /\ dbIndex[c].nDataPos > 0 =>
                           <<"blk", dbIndex[c].nFile, dbIndex[c].nDataPos>> \notin unsynced'
                      /\ dbIndex[c].nUndoPos > 0 =>
                           <<"rev", dbIndex[c].nFile, dbIndex[c].nUndoPos>> \notin unsynced'
    BY Zenon, <1>4, SameNode DEF SyncedFirst, IndexedIsDurable
  <2>1. /\ dbIndex[c].nDataPos > 0 =>
             <<"blk", dbIndex[c].nFile, dbIndex[c].nDataPos>> \notin unsynced
        /\ dbIndex[c].nUndoPos > 0 =>
             <<"rev", dbIndex[c].nFile, dbIndex[c].nUndoPos>> \notin unsynced
    BY Zenon DEF FInv, SyncedFirst, IndexedIsDurable
  <2>2. dbIndex[c].nFile \in Files /\ dbIndex[c].nDataPos \in Nat
    BY Zenon DEF TypeOK, Entry
  <2>3. dbIndex[c].nDataPos > 0 => dbIndex[c].nDataPos <= dbFileInfo[dbIndex[c].nFile].nSize
    BY Zenon DEF FInv, StoredEntryHolds
  <2>4. dbFileInfo[dbIndex[c].nFile].nSize <= vinfoBlockFile[dbIndex[c].nFile].nSize
    BY Zenon, <2>2 DEF FInv, FilesHold
  <2>5. /\ dbIndex[c].nDataPos > 0 =>
             <<"blk", dbIndex[c].nFile, dbIndex[c].nDataPos>>
               # <<"blk", f, vinfoBlockFile[f].nSize + 1>>
    <3>1. dbIndex[c].nDataPos > 0 /\ dbIndex[c].nFile = f
            => dbIndex[c].nDataPos # vinfoBlockFile[f].nSize + 1
      BY SMTT(30), <1>3, <1>8, <2>2, <2>3, <2>4
    <3> QED BY Zenon, <3>1
  <2>6. <<"rev", dbIndex[c].nFile, dbIndex[c].nUndoPos>> # <<"blk", f, vinfoBlockFile[f].nSize + 1>>
    BY Zenon
  <2> QED BY Zenon, <1>5, <2>1, <2>5, <2>6
<1> QED BY Zenon, <1>4, <1>9, <1>10, <1>11, <1>12, <1>13 DEF FInv, RestartSucceeds

\* The files after WriteUndo, whether or not the undo data could be written.
LEMMA UndoFiles ==
    ASSUME IInv, FInv, node' = node, NEW b \in Blocks, NEW ok \in BOOLEAN,
           WriteUndo(b, ok), UNCHANGED <<blk, treeVars>>,
           index[b].nDataPos > 0, index[b].nUndoPos = 0, phase' # "index"
    PROVE  /\ FilesHold'
           /\ \A c \in Blocks : EntryHolds(c)' /\ StoredEntryHolds(c)'
           /\ SyncedFirst'
           /\ \A c \in Blocks \ {b} : index'[c] = index[c]
           /\ index'[b].nDataPos > 0
           /\ ok => index'[b].nUndoPos > 0
<1> USE DEF IInv
<1> DEFINE f == index[b].nFile
           n == vinfoBlockFile[f].nUndoSize
           x == IF ok THEN b ELSE Garbage
<1>1. /\ f \in Files /\ n \in Nat
      /\ rev[f] \in Seq(Blocks \cup {Garbage}) /\ n <= Len(rev[f])
      /\ x \in Blocks \cup {Garbage}
  <2>1. f \in Files
    BY Zenon DEF TypeOK, Entry
  <2> QED BY Zenon, <2>1 DEF TypeOK, Info, FInv, FilesHold
<1>2. /\ vinfoBlockFile' = [vinfoBlockFile EXCEPT ![f].nUndoSize = n + 1]
      /\ rev' = [rev EXCEPT ![f] = Written(rev[f], n + 1, x)]
      /\ unsynced' = unsynced \cup {<<"rev", f, n + 1>>}
      /\ index' = IF ok THEN [index EXCEPT ![b].nUndoPos = n + 1] ELSE index
      /\ dbIndex' = dbIndex /\ dbFileInfo' = dbFileInfo /\ blk' = blk
  BY Zenon DEF WriteUndo, UndoRecorded, UndoPos, UndoSize, treeVars
<1>3. /\ index'[b].nFile = f /\ index'[b].nDataPos = index[b].nDataPos
      /\ index'[b].nUndoPos = IF ok THEN n + 1 ELSE 0
      /\ \A c \in Blocks \ {b} : index'[c] = index[c]
  BY ZenonT(60), <1>2 DEF TypeOK, Entry
<1>4. /\ Len(Written(rev[f], n + 1, x)) >= n + 1
      /\ Written(rev[f], n + 1, x)[n + 1] = x
      /\ \A q \in 1..n : Written(rev[f], n + 1, x)[q] = rev[f][q]
  BY ZenonT(60), <1>1, FileExtended
<1>5. \A e \in Files :
        /\ vinfoBlockFile[e].nSize \in Nat /\ vinfoBlockFile[e].nUndoSize \in Nat
        /\ dbFileInfo[e].nSize \in Nat /\ dbFileInfo[e].nUndoSize \in Nat
  BY Zenon DEF TypeOK, Info
<1>6. ASSUME NEW e \in Files
      PROVE  /\ vinfoBlockFile'[e].nSize = vinfoBlockFile[e].nSize
             /\ vinfoBlockFile'[e].nUndoSize =
                  IF e = f THEN n + 1 ELSE vinfoBlockFile[e].nUndoSize
             /\ rev'[e] = IF e = f THEN Written(rev[f], n + 1, x) ELSE rev[e]
  BY ZenonT(60), <1>1, <1>2 DEF TypeOK, Info
<1> HIDE DEF f, n, x
<1>7. FilesHold'
  <2> SUFFICES ASSUME NEW e \in Files
               PROVE  /\ vinfoBlockFile'[e].nSize <= Len(blk'[e])
                      /\ vinfoBlockFile'[e].nUndoSize <= Len(rev'[e])
                      /\ dbFileInfo'[e].nSize <= vinfoBlockFile'[e].nSize
                      /\ dbFileInfo'[e].nUndoSize <= vinfoBlockFile'[e].nUndoSize
    BY Zenon, SameNode DEF FilesHold
  <2>1. /\ vinfoBlockFile[e].nSize <= Len(blk[e])
        /\ vinfoBlockFile[e].nUndoSize <= Len(rev[e])
        /\ dbFileInfo[e].nSize <= vinfoBlockFile[e].nSize
        /\ dbFileInfo[e].nUndoSize <= vinfoBlockFile[e].nUndoSize
    BY Zenon DEF FInv, FilesHold
  <2>2. CASE e = f
    <3>1. vinfoBlockFile'[e].nUndoSize = n + 1 /\ n = vinfoBlockFile[e].nUndoSize
      BY Zenon, <1>6, <2>2 DEF n
    <3> QED BY SMTT(30), <1>1, <1>2, <1>4, <1>5, <1>6, <2>1, <2>2, <3>1
  <2>3. CASE e # f
    BY Zenon, <1>2, <1>6, <2>1, <2>3
  <2> QED BY Zenon, <2>2, <2>3
<1>8. ASSUME NEW c \in Blocks PROVE EntryHolds(c)'
  <2> DEFINE e == index[c].nFile
  <2>1. e \in Files /\ index[c].nDataPos \in Nat /\ index[c].nUndoPos \in Nat
    BY Zenon DEF TypeOK, Entry
  <2>2. EntryHolds(c)
    BY Zenon DEF FInv
  <2>3. /\ vinfoBlockFile'[e].nSize = vinfoBlockFile[e].nSize
        /\ vinfoBlockFile'[e].nUndoSize = IF e = f THEN n + 1 ELSE vinfoBlockFile[e].nUndoSize
        /\ rev'[e] = IF e = f THEN Written(rev[f], n + 1, x) ELSE rev[e]
    BY Zenon, <1>6, <2>1
  <2>4. e = f => n = vinfoBlockFile[e].nUndoSize
    BY ZenonT(60) DEF n
  <2>5. CASE c = b
    <3>1. e = f /\ (ok => x = b)
      BY Zenon, <2>5 DEF f, x
    <3>2. blk'[f] = blk[f] /\ rev'[f] = Written(rev[f], n + 1, x)
      BY Zenon, <1>2, <2>3, <3>1
    <3> QED BY SMTT(30), <1>1, <1>3, <1>4, <2>1, <2>2, <2>3, <2>5, <3>1, <3>2 DEF EntryHolds
  <2>6. CASE c # b
    <3>1. index'[c] = index[c]
      BY Zenon, <1>3, <2>6
    <3>2. ASSUME index[c].nUndoPos > 0
          PROVE  /\ index[c].nUndoPos <= vinfoBlockFile'[e].nUndoSize
                 /\ rev'[e][index[c].nUndoPos] = c
      <4>1. /\ index[c].nUndoPos <= vinfoBlockFile[e].nUndoSize
            /\ rev[e][index[c].nUndoPos] = c
        BY ZenonT(60), <2>2, <3>2 DEF EntryHolds
      <4>2. CASE e = f
        <5>1. index[c].nUndoPos \in 1..n
          BY SMTT(30), <1>1, <2>1, <2>4, <3>2, <4>1, <4>2
        <5> QED BY SMTT(30), <1>1, <1>4, <2>3, <4>1, <4>2, <5>1
      <4>3. CASE e # f
        BY Zenon, <2>3, <4>1, <4>3
      <4> QED BY Zenon, <4>2, <4>3
    <3> QED BY Zenon, <1>2, <2>2, <2>3, <3>1, <3>2 DEF EntryHolds
  <2> QED BY Zenon, <2>5, <2>6
<1>9. ASSUME NEW c \in Blocks PROVE StoredEntryHolds(c)'
  <2>1. StoredEntryHolds(c)
    BY Zenon DEF FInv
  <2>2. CASE c = b
    BY SMTT(30), <1>2, <1>3, <2>1, <2>2 DEF StoredEntryHolds, f
  <2>3. CASE c # b
    BY Zenon, <1>2, <1>3, <2>1, <2>3 DEF StoredEntryHolds
  <2> QED BY Zenon, <2>2, <2>3
<1>10. SyncedFirst'
  <2> SUFFICES ASSUME PowerLoss, NEW c \in Blocks
               PROVE  /\ dbIndex[c].nDataPos > 0 =>
                           <<"blk", dbIndex[c].nFile, dbIndex[c].nDataPos>> \notin unsynced'
                      /\ dbIndex[c].nUndoPos > 0 =>
                           <<"rev", dbIndex[c].nFile, dbIndex[c].nUndoPos>> \notin unsynced'
    BY Zenon, <1>2, SameNode DEF SyncedFirst, IndexedIsDurable
  <2>1. /\ dbIndex[c].nDataPos > 0 =>
             <<"blk", dbIndex[c].nFile, dbIndex[c].nDataPos>> \notin unsynced
        /\ dbIndex[c].nUndoPos > 0 =>
             <<"rev", dbIndex[c].nFile, dbIndex[c].nUndoPos>> \notin unsynced
    BY Zenon DEF FInv, SyncedFirst, IndexedIsDurable
  <2>2. dbIndex[c].nFile \in Files /\ dbIndex[c].nUndoPos \in Nat
    BY Zenon DEF TypeOK, Entry
  <2>3. dbIndex[c].nUndoPos > 0 => dbIndex[c].nUndoPos <= dbFileInfo[dbIndex[c].nFile].nUndoSize
    BY Zenon DEF FInv, StoredEntryHolds
  <2>4. dbFileInfo[dbIndex[c].nFile].nUndoSize <= vinfoBlockFile[dbIndex[c].nFile].nUndoSize
    BY Zenon, <2>2 DEF FInv, FilesHold
  <2>5. dbIndex[c].nUndoPos > 0 =>
          <<"rev", dbIndex[c].nFile, dbIndex[c].nUndoPos>> # <<"rev", f, n + 1>>
    <3>1. dbIndex[c].nUndoPos > 0 /\ dbIndex[c].nFile = f => dbIndex[c].nUndoPos # n + 1
      BY SMTT(30), <1>1, <1>5, <2>2, <2>3, <2>4 DEF n
    <3> QED BY Zenon, <3>1
  <2>6. <<"blk", dbIndex[c].nFile, dbIndex[c].nDataPos>> # <<"rev", f, n + 1>>
    BY Zenon
  <2> QED BY Zenon, <1>2, <2>1, <2>5, <2>6
<1> QED BY SMTT(30), <1>1, <1>3, <1>7, <1>8, <1>9, <1>10

LEMMA ConnectTipFiles ==
    ASSUME IInv, FInv, node' = node, NEW b \in Blocks \ {Genesis}, ConnectTip(b)
    PROVE  FInv'
<1> USE DEF IInv
<1>1. /\ tip = Parent[b] /\ tip' = tip /\ coinsBest' = b
      /\ index[b].nDataPos > 0
      /\ phase' = "decide"
      /\ setFilesToPrune' = setFilesToPrune
      /\ UNCHANGED <<blk, treeVars, chainstate>>
  BY Zenon DEF ConnectTip, Connectable, BlockReadable, Call
<1>2. /\ FilesHold'
      /\ \A c \in Blocks : EntryHolds(c)' /\ StoredEntryHolds(c)'
      /\ SyncedFirst'
      /\ \A c \in Blocks \ {b} : index'[c] = index[c]
      /\ HasData(index', b)
  <2>1. CASE index[b].nUndoPos = 0
    BY Zenon, <1>1, <2>1, UndoFiles DEF ConnectTip, HasData
  <2>2. CASE index[b].nUndoPos # 0
    <3>1. UNCHANGED <<index, vinfoBlockFile, rev, unsynced>>
      BY Zenon, <2>2 DEF ConnectTip
    <3>2. index[b].nUndoPos > 0
      <4>1. index[b].nUndoPos \in Nat
        BY Zenon DEF TypeOK, Entry
      <4> QED BY SMTT(30), <2>2, <4>1
    <3> QED BY Zenon, <1>1, <3>1, <3>2, FilesFrame, SyncedFrame DEF HasData, treeVars
  <2> QED BY Zenon, <2>1, <2>2
<1>3. ChainsStored'
  <2>1. \A c \in Ancestors[b] : HasData(index', c)
    <3>1. \A c \in Ancestors[tip] : c \in Blocks /\ HasData(index, c)
      BY Zenon, Chains DEF FInv, ChainsStored, TypeOK
    <3> QED BY SMTT(30), <1>1, <1>2, <3>1, Chains DEF HasData
  <2>2. Ancestors[tip] \subseteq Ancestors[b]
    BY ZenonT(60), <1>1, Chains
  <2> QED BY Zenon, <1>1, <2>1, <2>2 DEF FInv, ChainsStored, HasData, treeVars
<1> QED BY Zenon, <1>1, <1>2, <1>3 DEF FInv, RestartSucceeds

LEMMA ConnectTipFailsFiles ==
    ASSUME IInv, FInv, node' = node, NEW b \in Blocks \ {Genesis}, ConnectTipFails(b)
    PROVE  FInv'
<1> USE DEF IInv
<1>1. /\ index[b].nDataPos > 0 /\ index[b].nUndoPos = 0
      /\ phase = "run" /\ phase' = phase /\ setFilesToPrune' = setFilesToPrune
      /\ WriteUndo(b, FALSE)
      /\ UNCHANGED <<tip, coinsBest, blk, treeVars, chainstate>>
  BY Zenon DEF ConnectTipFails, Connectable, BlockReadable, callVars, coinsVars
<1>2. /\ FilesHold'
      /\ \A c \in Blocks : EntryHolds(c)' /\ StoredEntryHolds(c)'
      /\ SyncedFirst'
  BY Zenon, <1>1, UndoFiles
<1>3. index' = index
  BY Zenon, <1>1 DEF WriteUndo, UndoRecorded
<1>4. ChainsStored'
  BY Zenon, <1>1, <1>3, ChainsFrame DEF FInv, treeVars
<1> QED BY Zenon, <1>1, <1>2, <1>4 DEF FInv, RestartSucceeds

LEMMA DisconnectTipFiles ==
    ASSUME IInv, FInv, node' = node, DisconnectTip
    PROVE  FInv'
<1> USE DEF IInv
<1>1. /\ tip # Genesis /\ tip' = tip /\ coinsBest' = Parent[tip]
      /\ phase' = "decide"
      /\ setFilesToPrune' = setFilesToPrune
      /\ UNCHANGED <<indexVars, fileVars, treeVars, chainstate>>
  BY Zenon DEF DisconnectTip, Call
<1>2. Ancestors[Parent[tip]] \subseteq Ancestors[tip]
  BY ZenonT(60), <1>1, Chains DEF TypeOK
<1> QED BY Zenon, <1>1, <1>2, QuietStep DEF FInv, indexVars, fileVars, treeVars

-----------------------------------------------------------------------------
(* The files: FlushStateToDisk.                                            *)

LEMMA DecideFiles ==
    ASSUME FilesWork, IInv, FInv, node' = node, Decide
    PROVE  FInv'
<1> USE DEF IInv
<1>1. PICK full \in BOOLEAN, write \in BOOLEAN :
         /\ PruneFiles({})
         /\ IF full \/ write THEN Begin(full, {}) ELSE Return(TRUE)
  BY Zenon, FilesWorkFacts DEF Decide
<1>2. UNCHANGED <<coinsVars, fileVars, treeVars, chainstate>>
  BY Zenon DEF Decide
<1>3. UNCHANGED <<index, vinfoBlockFile>>
  BY Zenon, <1>1, NothingPruned
<1>4. /\ phase' \notin {"index", "refused"}
      /\ setFilesToPrune' = {}
      /\ tip' \in {tip, coinsBest}
  BY Zenon, <1>1 DEF Begin, Return
<1>5. Ancestors[tip'] \cup Ancestors[coinsBest'] \subseteq Ancestors[tip] \cup Ancestors[coinsBest]
  BY Zenon, <1>2, <1>4 DEF coinsVars
<1> QED BY Zenon, <1>2, <1>3, <1>4, <1>5, QuietStep DEF fileVars, treeVars

LEMMA OutOfSpaceFiles ==
    ASSUME FilesWork, IInv, FInv, node' = node, OutOfDiskSpace \/ OutOfDiskSpaceForCoins
    PROVE  FInv'
<1> USE DEF IInv
<1>1. UNCHANGED <<coinsVars, fileVars, treeVars, chainstate>> /\ Return(FALSE)
  BY Zenon DEF OutOfDiskSpace, OutOfDiskSpaceForCoins
<1>2. UNCHANGED <<index, vinfoBlockFile>>
  <2>1. CASE OutOfDiskSpace
    <3>1. PruneFiles({})
      BY Zenon, <2>1, FilesWorkFacts DEF OutOfDiskSpace
    <3> QED BY Zenon, <3>1, NothingPruned
  <2>2. CASE OutOfDiskSpaceForCoins
    BY Zenon, <2>2 DEF OutOfDiskSpaceForCoins, indexVars
  <2> QED BY Zenon, <2>1, <2>2
<1>3. /\ phase' \notin {"index", "refused"}
      /\ setFilesToPrune' = {}
      /\ tip' \in {tip, coinsBest}
  BY Zenon, <1>1 DEF Return
<1>4. Ancestors[tip'] \cup Ancestors[coinsBest'] \subseteq Ancestors[tip] \cup Ancestors[coinsBest]
  BY Zenon, <1>1, <1>3 DEF coinsVars
<1> QED BY Zenon, <1>1, <1>2, <1>3, <1>4, QuietStep DEF fileVars, treeVars

LEMMA CallFiles ==
    ASSUME IInv, FInv, node' = node, NEW m, Call(m),
           UNCHANGED <<indexVars, tip, coinsVars, fDoFullFlush, setFilesToPrune,
                       fileVars, treeVars, chainstate, faults, crashes>>
    PROVE  FInv'
<1>1. phase' = "decide"
  BY Zenon DEF Call
<1> QED BY Zenon, <1>1, QuietStep DEF IInv, FInv, indexVars, coinsVars, fileVars, treeVars

LEMMA FlushBlockFileFiles ==
    ASSUME FilesWork, IInv, FInv, node' = node, FlushBlockFile
    PROVE  FInv'
<1> USE DEF IInv
<1>1. /\ phase' = "index"
      /\ unsynced' = Uncommitted(nLastBlockFile)
      /\ UNCHANGED <<indexVars, tip, coinsVars, setFilesToPrune, blk, rev, treeVars, chainstate>>
  BY Zenon DEF FlushBlockFile
<1>2. unsynced' \subseteq unsynced
  BY Zenon, <1>1 DEF Uncommitted
<1>3. PowerLoss => unsynced' = {}
  <2> SUFFICES ASSUME PowerLoss, NEW u \in unsynced PROVE u \notin unsynced'
    BY Zenon, <1>2
  <2>1. Files = {0}
    BY Zenon, FilesWorkFacts
  <2>2. u \in {"blk", "rev"} \X Files \X Nat
    BY Zenon DEF TypeOK
  <2>3. u[2] \in Files /\ nLastBlockFile \in Files
    BY Zenon, <2>2 DEF TypeOK
  <2> QED BY Zenon, <1>1, <2>1, <2>3 DEF Uncommitted
<1>4. SyncedFirst'
  BY Zenon, <1>3, SameNode DEF SyncedFirst, IndexedIsDurable
<1>5. ChainsStored'
  BY Zenon, <1>1, ChainsFrame DEF FInv, indexVars, coinsVars, treeVars
<1>6. /\ FilesHold'
      /\ \A b \in Blocks : EntryHolds(b)'
      /\ \A b \in Blocks : StoredEntryHolds(b)'
  BY Zenon, <1>1, FilesFrame DEF indexVars, treeVars
<1> QED BY Zenon, <1>1, <1>4, <1>5, <1>6 DEF FInv, RestartSucceeds

LEMMA WriteBatchFiles ==
    ASSUME FilesWork, IInv, FInv, node' = node, NEW ok \in BOOLEAN, WriteBatchSync(ok)
    PROVE  FInv'
<1> USE DEF IInv
<1>1. ok
  <2>1. DatabasesWork
    BY Zenon, FilesWorkFacts
  <2> QED BY Zenon, <2>1 DEF WriteBatchSync, Fails, Faults, DatabasesWork, TypeOK
<1>2. /\ phase = "index"
      /\ phase' = "unlink"
      /\ dbIndex' = index
      /\ dbFileInfo' = vinfoBlockFile
      /\ UNCHANGED <<tip, setFilesToPrune, index, vinfoBlockFile, coinsVars, fileVars, chainstate>>
  BY Zenon, <1>1, IndexWritten DEF WriteBatchSync
<1>3. FilesHold'
  <2>1. \A e \in Files : vinfoBlockFile[e].nSize \in Nat /\ vinfoBlockFile[e].nUndoSize \in Nat
    BY Zenon DEF TypeOK, Info
  <2> QED BY SMTT(30), <1>2, <2>1, SameNode DEF FInv, FilesHold, fileVars
<1>4. ASSUME NEW b \in Blocks PROVE EntryHolds(b)' /\ StoredEntryHolds(b)'
  <2>1. EntryHolds(b)
    BY Zenon DEF FInv
  <2> QED BY Zenon, <1>2, <2>1 DEF EntryHolds, StoredEntryHolds, fileVars
<1>5. ChainsStored'
  <2>1. ASSUME NEW i \in DOMAIN chainstate, NEW b \in Ancestors[chainstate[i].best]
        PROVE  HasData(index, b)
    <3>1. HasData(dbIndex, b)
      BY Zenon DEF FInv, ChainsStored
    <3>2. b \in Blocks
      BY Zenon, Versions, Chains
    <3>3. StoredEntryHolds(b)
      BY Zenon, <3>2 DEF FInv
    <3> QED BY Zenon, <3>1, <3>3 DEF HasData, StoredEntryHolds
  <2> QED BY Zenon, <1>2, <2>1 DEF FInv, ChainsStored, HasData, coinsVars
<1>6. SyncedFirst'
  BY Zenon, <1>2, SameNode DEF FInv, SyncedFirst, IndexedIsDurable, fileVars
<1> QED BY Zenon, <1>2, <1>3, <1>4, <1>5, <1>6 DEF FInv, RestartSucceeds

LEMMA UnlinkFiles ==
    ASSUME IInv, FInv, node' = node, UnlinkPrunedFiles
    PROVE  FInv'
<1> USE DEF IInv
<1>1. blk' = blk /\ rev' = rev /\ unsynced' \subseteq unsynced
  BY Zenon DEF UnlinkPrunedFiles, FInv, TypeOK
<1>2. UNCHANGED <<indexVars, coinsVars, treeVars, chainstate>>
  BY Zenon DEF UnlinkPrunedFiles
<1>3. /\ phase' \notin {"index", "refused"}
      /\ setFilesToPrune' = {}
      /\ tip' \in {tip, coinsBest}
  BY Zenon DEF UnlinkPrunedFiles, Return, FInv
<1>4. Ancestors[tip'] \cup Ancestors[coinsBest'] \subseteq Ancestors[tip] \cup Ancestors[coinsBest]
  BY Zenon, <1>2, <1>3 DEF coinsVars
<1> QED BY Zenon, <1>1, <1>2, <1>3, <1>4, QuietStep DEF indexVars, treeVars

LEMMA FlushCoinsFiles ==
    ASSUME FilesWork, IInv, FInv, node' = node, NEW ok \in BOOLEAN, FlushCoins(ok)
    PROVE  FInv'
<1> USE DEF IInv
<1> DEFINE v == [best |-> coinsBest, applied |-> CoinsView]
           V == [best: Blocks, applied: SUBSET Blocks]
<1>1. ok
  <2>1. DatabasesWork
    BY Zenon, FilesWorkFacts
  <2> QED BY Zenon, <2>1 DEF FlushCoins, Fails, Faults, DatabasesWork, TypeOK
<1>2. /\ phase = "coins"
      /\ chainstate' = Pushed(v)
      /\ Return(TRUE)
      /\ UNCHANGED <<indexVars, coinsBest, fileVars, treeVars>>
  BY Zenon, <1>1 DEF FlushCoins
<1>3. /\ phase' \notin {"index", "refused"}
      /\ setFilesToPrune' = {}
      /\ tip' \in {tip, coinsBest}
  BY Zenon, <1>2 DEF Return
<1>4. v \in V /\ v.best = coinsBest
  BY ZenonT(60) DEF CoinsView, TypeOK
<1>5. dbIndex = index
  <2>1. setDirtyBlockIndex = {}
    BY Zenon, <1>2 DEF CallInOrder
  <2> QED BY SMTT(30), <2>1 DEF IndexAgrees, TypeOK
<1> HIDE DEF v
<1>6. \A i \in DOMAIN chainstate' :
         \/ chainstate'[i] = v
         \/ \E j \in DOMAIN chainstate : chainstate'[i] = chainstate[j]
  <2>1. /\ chainstate \in Seq(V)
        /\ Len(chainstate) \in 1..MaxUnsynced
        /\ MaxUnsynced \in Nat \ {0}
    BY Zenon, NodeFacts DEF TypeOK
  <2> HIDE DEF V
  <2> QED BY Zenon, <1>2, <1>4, <2>1, VersionPushed
<1>7. ChainsStored'
  <2>1. \A b \in Ancestors[coinsBest] : HasData(dbIndex, b)
    BY Zenon, <1>5 DEF FInv, ChainsStored
  <2>2. \A i \in DOMAIN chainstate :
          \A b \in Ancestors[chainstate[i].best] : HasData(dbIndex, b)
    BY Zenon DEF FInv, ChainsStored
  <2>3. \A i \in DOMAIN chainstate' :
          \A b \in Ancestors[chainstate'[i].best] : HasData(dbIndex, b)
    BY Zenon, <1>4, <1>6, <2>1, <2>2
  <2>4. \A b \in Ancestors[tip'] : HasData(index, b)
    BY Zenon, <1>3 DEF FInv, ChainsStored
  <2> QED BY Zenon, <1>2, <1>5, <2>1, <2>3, <2>4 DEF ChainsStored, HasData, indexVars, treeVars
<1>8. SyncedFirst'
  BY Zenon, <1>2, <1>3, SyncedFrame DEF fileVars, treeVars
<1>9. /\ FilesHold'
      /\ \A b \in Blocks : EntryHolds(b)'
      /\ \A b \in Blocks : StoredEntryHolds(b)'
  BY Zenon, <1>2, FilesFrame DEF indexVars, fileVars, treeVars
<1> QED BY Zenon, <1>3, <1>7, <1>8, <1>9 DEF FInv, RestartSucceeds

-----------------------------------------------------------------------------
(* The files: crash and restart.                                           *)

\* What an entry of the database names is in the files.
LEMMA StoredData ==
    ASSUME IInv, FInv, NEW b \in Blocks
    PROVE  /\ dbIndex[b].nFile \in Files
           /\ dbIndex[b].nDataPos > 0 =>
                /\ dbIndex[b].nDataPos \in 1..Len(blk[dbIndex[b].nFile])
                /\ dbIndex[b].nDataPos <= dbFileInfo[dbIndex[b].nFile].nSize
                /\ blk[dbIndex[b].nFile][dbIndex[b].nDataPos] = b
           /\ dbIndex[b].nUndoPos > 0 =>
                /\ dbIndex[b].nDataPos > 0
                /\ dbIndex[b].nUndoPos \in 1..Len(rev[dbIndex[b].nFile])
                /\ dbIndex[b].nUndoPos <= dbFileInfo[dbIndex[b].nFile].nUndoSize
                /\ rev[dbIndex[b].nFile][dbIndex[b].nUndoPos] = b
<1> USE DEF IInv
<1> DEFINE f == dbIndex[b].nFile
<1>1. f \in Files /\ dbIndex[b].nDataPos \in Nat /\ dbIndex[b].nUndoPos \in Nat
  BY Zenon DEF TypeOK, Entry
<1>2. /\ vinfoBlockFile[f].nSize \in Nat /\ vinfoBlockFile[f].nUndoSize \in Nat
      /\ Len(blk[f]) \in Nat /\ Len(rev[f]) \in Nat
  <2>1. vinfoBlockFile[f] \in Info /\ blk[f] \in Seq(Blocks \cup {Garbage})
          /\ rev[f] \in Seq(Blocks \cup {Garbage})
    BY Zenon, <1>1 DEF TypeOK
  <2> QED BY SMTT(30), <2>1 DEF Info
<1>3. vinfoBlockFile[f].nSize <= Len(blk[f]) /\ vinfoBlockFile[f].nUndoSize <= Len(rev[f])
  BY Zenon, <1>1 DEF FInv, FilesHold
<1>4. EntryHolds(b) /\ StoredEntryHolds(b)
  BY Zenon DEF FInv
<1>5. ASSUME dbIndex[b].nDataPos > 0
      PROVE  /\ dbIndex[b].nDataPos \in 1..Len(blk[f])
             /\ dbIndex[b].nDataPos <= dbFileInfo[f].nSize
             /\ blk[f][dbIndex[b].nDataPos] = b
  BY SMTT(30), <1>1, <1>2, <1>3, <1>4, <1>5 DEF EntryHolds, StoredEntryHolds
<1>6. ASSUME dbIndex[b].nUndoPos > 0
      PROVE  /\ dbIndex[b].nDataPos > 0
             /\ dbIndex[b].nUndoPos \in 1..Len(rev[f])
             /\ dbIndex[b].nUndoPos <= dbFileInfo[f].nUndoSize
             /\ rev[f][dbIndex[b].nUndoPos] = b
  BY SMTT(30), <1>1, <1>2, <1>3, <1>4, <1>6 DEF EntryHolds, StoredEntryHolds
<1> QED BY Zenon, <1>1, <1>5, <1>6

\* The start of the node when all that was synced is there.
LEMMA LoadFiles ==
    ASSUME FilesWork, IInv, IInv', FInv, node' = node, Load, UNCHANGED treeVars,
           \A i \in DOMAIN chainstate' :
             \E j \in DOMAIN chainstate : chainstate'[i] = chainstate[j],
           \A f \in Files :
             /\ Len(blk'[f]) = Len(blk[f])
             /\ Len(rev'[f]) = Len(rev[f])
             /\ \A p \in 1..Len(blk[f]) :
                  ~PowerLoss \/ <<"blk", f, p>> \notin unsynced => blk'[f][p] = blk[f][p]
             /\ \A p \in 1..Len(rev[f]) :
                  ~PowerLoss \/ <<"rev", f, p>> \notin unsynced => rev'[f][p] = rev[f][p],
           unsynced' \subseteq unsynced
    PROVE  FInv'
<1>1. /\ index' = dbIndex
      /\ vinfoBlockFile' = dbFileInfo
      /\ tip' = Latest'.best
      /\ coinsBest' = Latest'.best
      /\ Startable' => phase' = "run"
      /\ setFilesToPrune' = {}
      /\ dbIndex' = dbIndex /\ dbFileInfo' = dbFileInfo
  <2>1. ~fPruneMode
    BY Zenon, FilesWorkFacts DEF IInv
  <2> QED BY Zenon, <2>1, SameNode DEF Load, treeVars
<1>2. ASSUME NEW b \in Blocks
      PROVE  /\ dbIndex[b].nFile \in Files
             /\ dbIndex[b].nDataPos > 0 =>
                  /\ dbIndex[b].nDataPos \in 1..Len(blk'[dbIndex[b].nFile])
                  /\ dbIndex[b].nDataPos <= dbFileInfo[dbIndex[b].nFile].nSize
                  /\ blk'[dbIndex[b].nFile][dbIndex[b].nDataPos] = b
             /\ dbIndex[b].nUndoPos > 0 =>
                  /\ dbIndex[b].nDataPos > 0
                  /\ dbIndex[b].nUndoPos \in 1..Len(rev'[dbIndex[b].nFile])
                  /\ dbIndex[b].nUndoPos <= dbFileInfo[dbIndex[b].nFile].nUndoSize
                  /\ rev'[dbIndex[b].nFile][dbIndex[b].nUndoPos] = b
  <2> DEFINE f == dbIndex[b].nFile
  <2>1. f \in Files
    BY Zenon, StoredData
  <2>2. ASSUME dbIndex[b].nDataPos > 0
        PROVE  /\ dbIndex[b].nDataPos \in 1..Len(blk'[f])
               /\ dbIndex[b].nDataPos <= dbFileInfo[f].nSize
               /\ blk'[f][dbIndex[b].nDataPos] = b
    <3>1. /\ dbIndex[b].nDataPos \in 1..Len(blk[f])
          /\ dbIndex[b].nDataPos <= dbFileInfo[f].nSize
          /\ blk[f][dbIndex[b].nDataPos] = b
      BY Zenon, <2>2, StoredData
    <3>2. PowerLoss => <<"blk", f, dbIndex[b].nDataPos>> \notin unsynced
      BY Zenon, <2>2 DEF FInv, SyncedFirst, IndexedIsDurable
    <3> QED BY Zenon, <2>1, <3>1, <3>2
  <2>3. ASSUME dbIndex[b].nUndoPos > 0
        PROVE  /\ dbIndex[b].nDataPos > 0
               /\ dbIndex[b].nUndoPos \in 1..Len(rev'[f])
               /\ dbIndex[b].nUndoPos <= dbFileInfo[f].nUndoSize
               /\ rev'[f][dbIndex[b].nUndoPos] = b
    <3>1. /\ dbIndex[b].nDataPos > 0
          /\ dbIndex[b].nUndoPos \in 1..Len(rev[f])
          /\ dbIndex[b].nUndoPos <= dbFileInfo[f].nUndoSize
          /\ rev[f][dbIndex[b].nUndoPos] = b
      BY Zenon, <2>3, StoredData
    <3>2. PowerLoss => <<"rev", f, dbIndex[b].nUndoPos>> \notin unsynced
      BY Zenon, <2>3 DEF FInv, SyncedFirst, IndexedIsDurable
    <3> QED BY Zenon, <2>1, <3>1, <3>2
  <2> QED BY Zenon, <2>1, <2>2, <2>3
<1>3. ASSUME NEW b \in Blocks PROVE EntryHolds(b)' /\ StoredEntryHolds(b)'
  BY ZenonT(60), <1>1, <1>2 DEF EntryHolds, StoredEntryHolds
<1>4. FilesHold'
  <2> SUFFICES ASSUME NEW f \in Files
               PROVE  /\ dbFileInfo[f].nSize <= Len(blk'[f])
                      /\ dbFileInfo[f].nUndoSize <= Len(rev'[f])
                      /\ dbFileInfo[f].nSize <= dbFileInfo[f].nSize
                      /\ dbFileInfo[f].nUndoSize <= dbFileInfo[f].nUndoSize
    BY Zenon, <1>1, SameNode DEF FilesHold
  <2>1. /\ dbFileInfo[f] \in Info /\ vinfoBlockFile[f] \in Info
        /\ blk[f] \in Seq(Blocks \cup {Garbage}) /\ rev[f] \in Seq(Blocks \cup {Garbage})
    BY Zenon DEF IInv, TypeOK
  <2>2. /\ dbFileInfo[f].nSize \in Nat /\ dbFileInfo[f].nUndoSize \in Nat
        /\ vinfoBlockFile[f].nSize \in Nat /\ vinfoBlockFile[f].nUndoSize \in Nat
        /\ Len(blk[f]) \in Nat /\ Len(rev[f]) \in Nat
    BY SMTT(30), <2>1 DEF Info
  <2>3. /\ vinfoBlockFile[f].nSize <= Len(blk[f])
        /\ vinfoBlockFile[f].nUndoSize <= Len(rev[f])
        /\ dbFileInfo[f].nSize <= vinfoBlockFile[f].nSize
        /\ dbFileInfo[f].nUndoSize <= vinfoBlockFile[f].nUndoSize
    BY Zenon DEF FInv, FilesHold
  <2>4. Len(blk'[f]) = Len(blk[f]) /\ Len(rev'[f]) = Len(rev[f])
    BY Zenon
  <2> QED BY SMTT(30), <2>2, <2>3, <2>4
<1>5. /\ Latest'.best \in Blocks
      /\ Latest' \in {chainstate'[i] : i \in DOMAIN chainstate'}
      /\ Latest'.applied = Ancestors[Latest'.best]
  <2>1. TypeOK' /\ CoinsMatchBest'
    BY Zenon DEF IInv
  <2>2. Len(chainstate') \in DOMAIN chainstate' /\ Latest' = chainstate'[Len(chainstate')]
    <3>1. MaxUnsynced' \in Nat
      BY Zenon, SameNode, NodeFacts DEF IInv, TypeOK
    <3> QED BY SMTT(30), <2>1, <3>1 DEF TypeOK, Latest
  <2>3. Latest'.best \in Blocks
    BY Zenon, <1>1, <2>1 DEF TypeOK
  <2> QED BY Zenon, <2>1, <2>2, <2>3 DEF CoinsMatchBest
<1>6. \A i \in DOMAIN chainstate' :
        \A b \in Ancestors[chainstate'[i].best] : HasData(dbIndex, b)
  <2>1. \A j \in DOMAIN chainstate :
          \A b \in Ancestors[chainstate[j].best] : HasData(dbIndex, b)
    BY Zenon DEF FInv, ChainsStored
  <2> QED BY Zenon, <2>1
<1>7. \A b \in Ancestors[Latest'.best] : HasData(dbIndex, b)
  BY Zenon, <1>5, <1>6
<1>8. ChainsStored'
  BY Zenon, <1>1, <1>6, <1>7 DEF ChainsStored, HasData
<1>9. Startable'
  <2>1. \A b \in Blocks : dbIndex'[b].nDataPos > 0 => blk'[dbIndex'[b].nFile] # <<>>
    <3> SUFFICES ASSUME NEW b \in Blocks, dbIndex[b].nDataPos > 0
                 PROVE  blk'[dbIndex[b].nFile] # <<>>
      BY Zenon, <1>1
    <3>1. dbIndex[b].nDataPos \in 1..Len(blk'[dbIndex[b].nFile])
      BY Zenon, <1>2
    <3> QED BY SMTT(30), <3>1
  <2>2. dbIndex'[Latest'.best].known
    <3>1. BestIsIndexed'
      BY Zenon DEF IInv
    <3> QED BY SMTT(30), <1>5, <3>1, Chains DEF BestIsIndexed
  <2>3. ASSUME NEW b \in Ancestors[Latest'.best] \ {Genesis}
        PROVE  BlockReadable(dbIndex, b)' /\ UndoReadable(dbIndex, b)' /\ b \in Latest'.applied
    <3>1. b \in Blocks
      BY Zenon, <1>5, Chains
    <3>2. dbIndex[b].nDataPos > 0 /\ dbIndex[b].nUndoPos > 0
      BY Zenon, <1>7 DEF HasData
    <3>3. /\ blk'[dbIndex[b].nFile] \in Seq(Blocks \cup {Garbage})
          /\ rev'[dbIndex[b].nFile] \in Seq(Blocks \cup {Garbage})
      <4>1. dbIndex[b].nFile \in Files'
        BY ZenonT(60), <1>2, <3>1, SameNode
      <4> QED BY Zenon, <4>1 DEF IInv, TypeOK
    <3>4. /\ dbIndex[b].nDataPos \in DOMAIN blk'[dbIndex[b].nFile]
          /\ dbIndex[b].nUndoPos \in DOMAIN rev'[dbIndex[b].nFile]
      BY SMTT(30), <1>2, <3>1, <3>2, <3>3
    <3>5. BlockReadable(dbIndex, b)'
      BY Zenon, <1>1, <1>2, <3>1, <3>2, <3>4 DEF BlockReadable, At
    <3>6. UndoReadable(dbIndex, b)'
      BY Zenon, <1>1, <1>2, <3>1, <3>2, <3>4 DEF UndoReadable, At
    <3> QED BY Zenon, <1>5, <3>5, <3>6
  <2> QED BY Zenon, <2>1, <2>2, <2>3 DEF Startable, VerifyDB
<1>10. SyncedFirst'
  BY Zenon, <1>1, <1>9, SyncedFrame
<1> QED BY Zenon, <1>1, <1>3, <1>4, <1>8, <1>9, <1>10 DEF FInv, RestartSucceeds

LEMMA RestartFiles ==
    ASSUME FilesWork, IInv, IInv', FInv, node' = node, Restart
    PROVE  FInv'
<1>1. UNCHANGED <<fileVars, treeVars, chainstate>> /\ Load
  BY Zenon DEF Restart
<1> QED BY Zenon, <1>1, LoadFiles DEF fileVars

LEMMA CrashFiles ==
    ASSUME FilesWork, IInv, IInv', FInv, node' = node, Crash
    PROVE  FInv'
<1>1. /\ unsynced' \subseteq unsynced
      /\ UNCHANGED treeVars
      /\ Load
  BY Zenon DEF Crash
<1>2. PICK lost \in IF PowerLoss THEN SUBSET unsynced ELSE {{}},
           kept \in IF PowerLoss THEN 1..Len(chainstate) ELSE {Len(chainstate)} :
         /\ blk' = Lost("blk", blk, lost)
         /\ rev' = Lost("rev", rev, lost)
         /\ chainstate' = SubSeq(chainstate, 1, kept)
  BY Zenon DEF Crash
<1>3. /\ blk \in [Files -> Seq(Blocks \cup {Garbage})]
      /\ rev \in [Files -> Seq(Blocks \cup {Garbage})]
  BY Zenon DEF IInv, TypeOK
<1>4. ASSUME NEW f \in Files
      PROVE  /\ Len(blk'[f]) = Len(blk[f])
             /\ Len(rev'[f]) = Len(rev[f])
             /\ \A p \in 1..Len(blk[f]) :
                  ~PowerLoss \/ <<"blk", f, p>> \notin unsynced => blk'[f][p] = blk[f][p]
             /\ \A p \in 1..Len(rev[f]) :
                  ~PowerLoss \/ <<"rev", f, p>> \notin unsynced => rev'[f][p] = rev[f][p]
  <2>1. /\ Len(blk'[f]) = Len(blk[f])
        /\ \A p \in 1..Len(blk[f]) : <<"blk", f, p>> \notin lost => blk'[f][p] = blk[f][p]
    <3>1. blk'[f] = [p \in DOMAIN blk[f] |->
                      IF <<"blk", f, p>> \in lost THEN Garbage ELSE blk[f][p]]
      BY Zenon, <1>2 DEF Lost
    <3>2. blk[f] \in Seq(Blocks \cup {Garbage}) /\ DOMAIN blk[f] = 1..Len(blk[f])
            /\ Len(blk[f]) \in Nat
      BY SMTT(30), <1>3
    <3>3. blk'[f] \in Seq(Blocks \cup {Garbage})
      BY SMTT(30), <3>1, <3>2
    <3> QED BY SMTT(30), <3>1, <3>2, <3>3
  <2>2. /\ Len(rev'[f]) = Len(rev[f])
        /\ \A p \in 1..Len(rev[f]) : <<"rev", f, p>> \notin lost => rev'[f][p] = rev[f][p]
    <3>1. rev'[f] = [p \in DOMAIN rev[f] |->
                      IF <<"rev", f, p>> \in lost THEN Garbage ELSE rev[f][p]]
      BY Zenon, <1>2 DEF Lost
    <3>2. rev[f] \in Seq(Blocks \cup {Garbage}) /\ DOMAIN rev[f] = 1..Len(rev[f])
            /\ Len(rev[f]) \in Nat
      BY SMTT(30), <1>3
    <3>3. rev'[f] \in Seq(Blocks \cup {Garbage})
      BY SMTT(30), <3>1, <3>2
    <3> QED BY SMTT(30), <3>1, <3>2, <3>3
  <2>3. \A u : ~PowerLoss \/ u \notin unsynced => u \notin lost
    BY Zenon
  <2> QED BY Zenon, <2>1, <2>2, <2>3
<1>5. ASSUME NEW i \in DOMAIN chainstate'
      PROVE  \E j \in DOMAIN chainstate : chainstate'[i] = chainstate[j]
  <2> DEFINE V == [best: Blocks, applied: SUBSET Blocks]
  <2>1. /\ chainstate \in Seq(V)
        /\ Len(chainstate) \in 1..MaxUnsynced /\ MaxUnsynced \in Nat
    BY Zenon, NodeFacts DEF IInv, TypeOK
  <2> HIDE DEF V
  <2>2. kept \in 1..Len(chainstate)
    BY SMTT(30), <2>1
  <2>3. /\ chainstate' \in Seq(V)
        /\ Len(chainstate') = kept
        /\ \A k \in 1..kept : chainstate'[k] = chainstate[k]
    BY Zenon, <1>2, <2>1, <2>2, VersionsKept
  <2>4. i \in 1..kept /\ i \in DOMAIN chainstate
    BY SMTT(30), <2>1, <2>2, <2>3
  <2> QED BY Zenon, <2>3, <2>4
<1> QED BY Zenon, <1>1, <1>4, <1>5, LoadFiles

LEMMA InitFInv == Init => FInv
<1> SUFFICES ASSUME Init PROVE FInv
  BY Zenon
<1>1. IInv
  BY Zenon, InitIInv
<1>2. node \in Nodes /\ 0 \in Files
  BY Zenon, NodeFacts DEF Init
<1>3. /\ index = [b \in Blocks |-> IF b = Genesis THEN Stored(0, 1) ELSE NoEntry]
      /\ vinfoBlockFile = [f \in Files |-> [NoInfo EXCEPT !.nSize = IF f = 0 THEN 1 ELSE 0]]
      /\ blk = [f \in Files |-> IF f = 0 THEN <<Genesis>> ELSE <<>>]
      /\ rev = [f \in Files |-> <<>>]
      /\ dbIndex = index /\ dbFileInfo = vinfoBlockFile
      /\ unsynced = {} /\ phase = "run" /\ setFilesToPrune = {}
      /\ tip = Genesis /\ coinsBest = Genesis
      /\ chainstate = <<[best |-> Genesis, applied |-> {Genesis}]>>
  BY Zenon DEF Init
<1>4. /\ index[Genesis].nFile = 0 /\ index[Genesis].nDataPos = 1 /\ index[Genesis].nUndoPos = 0
      /\ \A b \in Blocks \ {Genesis} : index[b].nDataPos = 0 /\ index[b].nUndoPos = 0
  BY Zenon, <1>3, TreeAssumption DEF Stored, NoEntry
<1>5. \A f \in Files : /\ vinfoBlockFile[f].nSize = IF f = 0 THEN 1 ELSE 0
                       /\ vinfoBlockFile[f].nUndoSize = 0
  BY Zenon, <1>3 DEF NoInfo
<1>6. FilesHold
  BY SMTT(30), <1>3, <1>5 DEF FilesHold
<1>7. ASSUME NEW b \in Blocks PROVE EntryHolds(b) /\ StoredEntryHolds(b)
  <2>1. blk[0][1] = Genesis
    BY Zenon, <1>2, <1>3
  <2> QED BY SMTT(30), <1>2, <1>3, <1>4, <1>5, <2>1 DEF EntryHolds, StoredEntryHolds
<1>8. ChainsStored
  <2>1. Ancestors[Genesis] = {Genesis}
    BY Zenon, TreeAssumption
  <2>2. \A i \in DOMAIN chainstate : chainstate[i].best = Genesis
    BY SMTT(30), <1>3
  <2>3. HasData(index, Genesis) /\ dbIndex = index
    BY SMTT(30), <1>3, <1>4 DEF HasData
  <2> HIDE DEF HasData
  <2>4. ASSUME NEW i \in DOMAIN chainstate, NEW b \in Ancestors[chainstate[i].best]
        PROVE  HasData(dbIndex, b)
    BY SMTT(30), <2>1, <2>2, <2>3
  <2> QED BY Zenon, <1>3, <2>1, <2>3, <2>4 DEF ChainsStored
<1>9. SyncedFirst
  BY Zenon, <1>3 DEF SyncedFirst, IndexedIsDurable
<1> QED BY Zenon, <1>3, <1>6, <1>7, <1>8, <1>9 DEF FInv, RestartSucceeds

LEMMA StutterFInv ==
    ASSUME TypeOK, FInv, UNCHANGED vars
    PROVE  FInv'
<1>1. /\ node' = node
      /\ UNCHANGED <<index, vinfoBlockFile, blk, rev, unsynced, dbFileInfo, dbIndex, chainstate,
                     phase, setFilesToPrune, tip, coinsBest>>
  BY Zenon DEF vars, indexVars, coinsVars, callVars, fileVars, treeVars
<1>2. Files' = Files /\ PowerLoss' = PowerLoss
  BY Zenon, <1>1, SameNode
<1> QED BY Zenon, <1>1, <1>2 DEF FInv, FilesHold, EntryHolds, StoredEntryHolds, ChainsStored, HasData,
           SyncedFirst, IndexedIsDurable, RestartSucceeds

LEMMA NextFInv ==
    ASSUME FilesWork, IInv, FInv, [Next]_vars
    PROVE  FInv'
<1>1. CASE UNCHANGED vars
  BY Zenon, <1>1, StutterFInv DEF IInv
<1>2. CASE Next
  <2>0. node' = node /\ Arriving \subseteq Blocks
    BY Zenon, <1>2, NodeFacts DEF Next, IInv, TypeOK
  <2>1. ASSUME NEW b \in Arriving \ {Genesis}, AcceptBlockHeader(b) PROVE FInv'
    BY Zenon, <2>0, <2>1, HeaderFiles
  <2>2. ASSUME NEW b \in Arriving \ {Genesis}, NEW ok \in BOOLEAN, AcceptBlock(b, ok) PROVE FInv'
    BY Zenon, <2>0, <2>2, BlockFiles
  <2>3. ASSUME NEW b \in Arriving \ {Genesis}, ConnectTip(b) PROVE FInv'
    BY Zenon, <2>0, <2>3, ConnectTipFiles
  <2>4. ASSUME NEW b \in Arriving \ {Genesis}, ConnectTipFails(b) PROVE FInv'
    BY Zenon, <2>0, <2>4, ConnectTipFailsFiles
  <2>5. CASE DisconnectTip
    BY Zenon, <2>0, <2>5, DisconnectTipFiles
  <2>6. ASSUME NEW m \in {"periodic", "always"}, Flush(m) PROVE FInv'
    BY Zenon, <2>0, <2>6, CallFiles DEF Flush
  <2>7. CASE Decide
    BY Zenon, <2>0, <2>7, DecideFiles
  <2>8. CASE OutOfDiskSpace \/ OutOfDiskSpaceForCoins
    BY Zenon, <2>0, <2>8, OutOfSpaceFiles
  <2>9. CASE FlushBlockFile
    BY Zenon, <2>0, <2>9, FlushBlockFileFiles
  <2>10. ASSUME NEW ok \in BOOLEAN, WriteBatchSync(ok) PROVE FInv'
    BY Zenon, <2>0, <2>10, WriteBatchFiles
  <2>11. ASSUME NEW ok \in BOOLEAN, FlushCoins(ok) PROVE FInv'
    BY Zenon, <2>0, <2>11, FlushCoinsFiles
  <2>12. CASE UnlinkPrunedFiles
    BY Zenon, <2>0, <2>12, UnlinkFiles
  <2>13. CASE Shutdown
    BY Zenon, <2>0, <2>13, CallFiles DEF Shutdown
  <2>14. IInv'
    BY Zenon, NextIInv, FilesWorkFacts DEF IInv
  <2>15. CASE Restart
    BY Zenon, <2>0, <2>14, <2>15, RestartFiles
  <2>16. CASE Crash
    BY Zenon, <2>0, <2>14, <2>16, CrashFiles
  <2> QED BY Zenon, <1>2, <2>1, <2>2, <2>3, <2>4, <2>5, <2>6, <2>7, <2>8, <2>9, <2>10, <2>11,
             <2>12, <2>13, <2>15, <2>16 DEF Next, Steps
<1> QED BY Zenon, <1>1, <1>2

-----------------------------------------------------------------------------
(* The files: what follows.                                                *)

LEMMA PointersHold ==
    ASSUME IInv, FInv
    PROVE  AlwaysRestarts
<1>1. ASSUME NEW b \in Blocks
      PROVE  /\ dbIndex[b].nDataPos > 0 => BlockReadable(dbIndex, b)
             /\ dbIndex[b].nUndoPos > 0 => UndoReadable(dbIndex, b)
  <2>1. dbIndex[b].nFile \in Files
    BY Zenon, StoredData
  <2>2. /\ blk[dbIndex[b].nFile] \in Seq(Blocks \cup {Garbage})
        /\ rev[dbIndex[b].nFile] \in Seq(Blocks \cup {Garbage})
    BY Zenon, <2>1 DEF IInv, TypeOK
  <2>3. ASSUME dbIndex[b].nDataPos > 0 PROVE BlockReadable(dbIndex, b)
    <3>1. /\ dbIndex[b].nDataPos \in DOMAIN blk[dbIndex[b].nFile]
          /\ blk[dbIndex[b].nFile][dbIndex[b].nDataPos] = b
      BY SMTT(30), <2>2, <2>3, StoredData
    <3> QED BY ZenonT(60), <2>3, <3>1 DEF BlockReadable, At
  <2>4. ASSUME dbIndex[b].nUndoPos > 0 PROVE UndoReadable(dbIndex, b)
    <3>1. /\ dbIndex[b].nUndoPos \in DOMAIN rev[dbIndex[b].nFile]
          /\ rev[dbIndex[b].nFile][dbIndex[b].nUndoPos] = b
      BY SMTT(30), <2>2, <2>4, StoredData
    <3> QED BY Zenon, <2>4, <3>1 DEF UndoReadable, At
  <2> QED BY Zenon, <2>3, <2>4
<1>2. IndexPointsAtData
  BY Zenon, <1>1 DEF IndexPointsAtData
<1> QED BY Zenon, <1>2 DEF AlwaysRestarts, FInv, SyncedFirst

LEMMA BlocksHeld ==
    ASSUME IInv, FInv
    PROVE  NothingForgotten
<1> SUFFICES ASSUME NEW b \in Ancestors[tip] PROVE BlockReadable(index, b)
  BY Zenon DEF NothingForgotten, RecentBlocksKept, IInv
<1>1. b \in Blocks
  BY Zenon, Chains DEF IInv, TypeOK
<1>2. index[b].nDataPos > 0
  BY Zenon DEF FInv, ChainsStored, HasData
<1>3. index[b].nFile \in Files /\ index[b].nDataPos \in Nat
  BY Zenon, <1>1 DEF IInv, TypeOK, Entry
<1>4. /\ vinfoBlockFile[index[b].nFile].nSize \in Nat
      /\ blk[index[b].nFile] \in Seq(Blocks \cup {Garbage})
  <2>1. vinfoBlockFile[index[b].nFile] \in Info
    BY Zenon, <1>3 DEF IInv, TypeOK
  <2> QED BY Zenon, <1>3, <2>1 DEF IInv, TypeOK, Info
<1>5. /\ index[b].nDataPos <= vinfoBlockFile[index[b].nFile].nSize
      /\ blk[index[b].nFile][index[b].nDataPos] = b
      /\ vinfoBlockFile[index[b].nFile].nSize <= Len(blk[index[b].nFile])
  BY ZenonT(60), <1>1, <1>2, <1>3 DEF FInv, EntryHolds, FilesHold
<1>6. index[b].nDataPos \in DOMAIN blk[index[b].nFile]
  BY SMTT(30), <1>2, <1>3, <1>4, <1>5
<1> QED BY Zenon, <1>2, <1>5, <1>6 DEF BlockReadable, At

\* A node that prunes nothing, whose block and database writes succeed, starts
\* again after every crash, even if undo data could not be written or the disk
\* was full: the block index database only names what the files hold, and after
\* a power loss, with one block file, what was synced.  For every block tree, order
\* of operations, place and number of crashes.
THEOREM Recovery ==
    ASSUME FilesWork
    PROVE  Spec => []AlwaysRestarts
<1>1. DatabasesWork
  BY Zenon, NodeAssumption DEF FilesWork, DatabasesWork
<1>2. Init => IInv /\ FInv
  BY Zenon, InitIInv, InitFInv
<1>3. IInv /\ FInv /\ [Next]_vars => IInv' /\ FInv'
  BY Zenon, <1>1, NextIInv, NextFInv
<1>4. IInv /\ FInv => AlwaysRestarts
  BY Zenon, PointersHold
<1> QED BY <1>2, <1>3, <1>4, PTL DEF Spec

\* On the same nodes no block of the active chain is ever lost, and a shutdown
\* without a failed write leaves nothing behind in memory.
THEOREM Retention ==
    ASSUME FilesWork
    PROVE  Spec => []NothingForgotten
<1>1. DatabasesWork
  BY Zenon, NodeAssumption DEF FilesWork, DatabasesWork
<1>2. Init => IInv /\ FInv
  BY Zenon, InitIInv, InitFInv
<1>3. IInv /\ FInv /\ [Next]_vars => IInv' /\ FInv'
  BY Zenon, <1>1, NextIInv, NextFInv
<1>4. IInv /\ FInv => NothingForgotten
  BY Zenon, BlocksHeld
<1> QED BY <1>2, <1>3, <1>4, PTL DEF Spec
=============================================================================
