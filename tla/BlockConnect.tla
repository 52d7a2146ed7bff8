---------------------------- MODULE BlockConnect ----------------------------
(***************************************************************************)
(* ConnectBlock and DisconnectBlock of main.cpp: a block's transactions    *)
(* are applied one input at a time to a view over pcoinsTip, the view is   *)
(* flushed when every check passed and dropped otherwise, and the undo     *)
(* data written on the way takes the block off again when the chain        *)
(* reorganises.  The view's cache layers are the subject of CoinsCache;    *)
(* here a view is its contents.  A commitment tree, and the anchor that is *)
(* its root, is the sequence of transactions that appended to it.          *)
(***************************************************************************)
EXTENDS Integers, Sequences, FiniteSets, SequencesExt, FiniteSetsExt

CONSTANTS Tx,                \* txid -> transaction (record, see TxType)
          Coinbases,         \* the txids that are coinbases
          nSubsidy,          \* height -> GetBlockSubsidy
          nCoinbaseMaturity,
          fCoinbaseMustBeProtected,
          fZIP209Enabled,
          fAddressIndex,     \* the node keeps the address indexes
          SaplingHeight,     \* activation height of UPGRADE_SAPLING
          MaxHeight,         \* bound: length of the active chain
          MaxTxs             \* bound: transactions of a block, coinbase aside

Txids == DOMAIN Tx

(* The part of CTransaction that connecting a block looks at. *)
TxType(t) ==
    /\ t.vin \in Seq(Txids \X Nat)
    /\ t.vout \in Seq(Nat)
    /\ t.unspendable \subseteq DOMAIN t.vout
    /\ t.sproutAnchors \subseteq Seq(Txids)
    /\ t.saplingAnchors \subseteq Seq(Txids)
    /\ t.sproutCm \in BOOLEAN /\ t.saplingCm \in BOOLEAN
    /\ t.vpub_old \in Nat /\ t.vpub_new \in Nat /\ t.valueBalance \in Int

(* CheckTransaction: no input twice, and a coinbase spends nothing and has
   no shielded parts; ContextualCheckBlock: it names its height (BIP34). *)
TxAssumption ==
    /\ Coinbases \subseteq Txids
    /\ \A t \in Txids : TxType(Tx[t]) /\ IsInjective(Tx[t].vin)
    /\ \A c \in Coinbases :
         /\ Tx[c].vin = <<>> /\ Tx[c].nullifiers = {} /\ Tx[c].nHeight \in Nat
         /\ ~Tx[c].sproutCm /\ ~Tx[c].saplingCm
         /\ Tx[c].vpub_old = 0 /\ Tx[c].vpub_new = 0 /\ Tx[c].valueBalance = 0

HeightAssumption ==
    /\ MaxHeight \in Nat /\ MaxTxs \in Nat /\ SaplingHeight \in Nat \ {0}
    /\ nCoinbaseMaturity \in Nat /\ nSubsidy \in [1 .. MaxHeight -> Nat]
    /\ {fCoinbaseMustBeProtected, fZIP209Enabled, fAddressIndex} \subseteq BOOLEAN

VARIABLES
    pcoinsTip,   \* contents of the coins view of the active chain
    view,        \* the view of the block being connected or disconnected
    chain,       \* the active chain above the genesis block
    phase,       \* "idle", "connect" or "disconnect"
    vtx,         \* the block at hand
    i, j,        \* the transaction of vtx, and its input, that is next
    nFees,
    blockundo,   \* undo data of vtx: per transaction, per input
    fClean,
    revFile      \* undo data on disk of one block that was disconnected, any

vars == <<pcoinsTip, view, chain, phase, vtx, i, j, nFees, blockundo, fClean, revFile>>

-----------------------------------------------------------------------------
(* A CCoins with no available output is pruned: it equals any other pruned
   one, and is stored as none at all. *)
NoCoins == [vout |-> {}, nHeight |-> 0, fCoinBase |-> FALSE]
Cleanup(c) == IF c.vout = {} THEN NoCoins ELSE c

(* CCoins::FromTx and ClearUnspendable. *)
FromTx(t, h) ==
    Cleanup([vout      |-> DOMAIN Tx[t].vout \ Tx[t].unspendable,
             nHeight   |-> h,
             fCoinBase |-> t \in Coinbases])

EmptyView ==
    [coins |-> [t \in Txids |-> NoCoins], nullifiers |-> {},
     sproutAnchors |-> {}, bestSprout |-> <<>>,
     saplingAnchors |-> {}, bestSapling |-> <<>>,
     addressUnspent |-> {}]

SumSeq(s) == FoldSeq(LAMBDA x, y : x + y, 0, s)
Positive(n) == IF n > 0 THEN n ELSE 0

GetValueOut(t) ==
    SumSeq(Tx[t].vout) + Positive(-Tx[t].valueBalance) + Tx[t].vpub_old
GetShieldedValueIn(t) == Positive(Tx[t].valueBalance) + Tx[t].vpub_new
GetValueIn(t) ==
    SumSeq([k \in DOMAIN Tx[t].vin |-> Tx[Tx[t].vin[k][1]].vout[Tx[t].vin[k][2]]])
      + GetShieldedValueIn(t)

nHeight == Len(chain) + 1     \* height of the block being connected

IsAvailable(v, op) == op[2] \in v.coins[op[1]].vout
HaveInputs(v, t) == \A k \in DOMAIN Tx[t].vin : IsAvailable(v, Tx[t].vin[k])

(* Nullifiers unseen; anchors known, the empty tree always is. *)
HaveShieldedRequirements(v, t) ==
    /\ Tx[t].nullifiers \cap v.nullifiers = {}
    /\ Tx[t].sproutAnchors \subseteq v.sproutAnchors \cup {<<>>}
    /\ Tx[t].saplingAnchors \subseteq v.saplingAnchors \cup {<<>>}

CheckTxInputs(v, t) ==
    /\ \A k \in DOMAIN Tx[t].vin :
         LET coins == v.coins[Tx[t].vin[k][1]]
         IN  coins.fCoinBase =>
               /\ nHeight - coins.nHeight >= nCoinbaseMaturity
               /\ fCoinbaseMustBeProtected => Tx[t].vout = <<>>
    /\ GetValueIn(t) >= GetValueOut(t)

(* What is checked of a transaction before it is applied.  Shielded outputs
   of Sapling exist from its activation on (ContextualCheckTransaction). *)
TxOk(v, t) ==
    t \notin Coinbases => /\ HaveInputs(v, t)
                          /\ HaveShieldedRequirements(v, t)
                          /\ CheckTxInputs(v, t)

SaplingActive(h) == h >= SaplingHeight

(* Blocks CheckBlock and ContextualCheckBlock let through: a coinbase for
   this height, then other transactions. *)
Candidates ==
    {<<c>> \o s : c \in {d \in Coinbases : Tx[d].nHeight = nHeight},
                  s \in {r \in BoundedSeq(Txids \ Coinbases, MaxTxs) : IsInjective(r)}}
IsCandidate(b) ==
    \A k \in DOMAIN b : SaplingActive(nHeight)
                          \/ (~Tx[b[k]].saplingCm /\ Tx[b[k]].valueBalance = 0)

(* nChainSproutValue and nChainSaplingValue of ReceivedBlockTransactions. *)
SproutValue(b) == SumSeq([k \in DOMAIN b |-> Tx[b[k]].vpub_old - Tx[b[k]].vpub_new])
SaplingValue(b) == SumSeq([k \in DOMAIN b |-> -Tx[b[k]].valueBalance])
nChainSproutValue(ch) == SumSeq([h \in DOMAIN ch |-> SproutValue(ch[h].vtx)])
nChainSaplingValue(ch) == SumSeq([h \in DOMAIN ch |-> SaplingValue(ch[h].vtx)])

-----------------------------------------------------------------------------
(* Spend of one output with its undo record: the height and the coinbase
   flag go with the last output that is spent, 0 says there are more. *)
TxInUndo(coins, n) ==
    IF coins.vout = {n} THEN [nHeight |-> coins.nHeight, fCoinBase |-> coins.fCoinBase]
                        ELSE [nHeight |-> 0, fCoinBase |-> FALSE]

Spend(v, op) ==
    [v EXCEPT !.coins[op[1]] = Cleanup([@ EXCEPT !.vout = @ \ {op[2]}]),
              !.addressUnspent = {e \in @ : e[1] # op}]

(* Entries of the address index for outputs of a known script type. *)
AddressEntries(ops, h) == IF fAddressIndex THEN ops \X {h} ELSE {}

SetNullifiers(v, t, spent) ==
    [v EXCEPT !.nullifiers = IF spent THEN @ \cup Tx[t].nullifiers
                                      ELSE @ \ Tx[t].nullifiers]

(* The rest of UpdateCoins, and the entries of the address index. *)
AddOutputs(v, t, h) ==
    [SetNullifiers(v, t, TRUE) EXCEPT
        !.coins[t] = FromTx(t, h),
        !.addressUnspent = @ \cup AddressEntries({t} \X FromTx(t, h).vout, h)]

PushAnchor(v, sprout, sapling) ==
    [v EXCEPT !.bestSprout = sprout, !.bestSapling = sapling,
              !.sproutAnchors = IF sprout = v.bestSprout THEN @ ELSE @ \cup {sprout},
              !.saplingAnchors = IF sapling = v.bestSapling THEN @ ELSE @ \cup {sapling}]

PopAnchor(v, sprout, sapling) ==
    [v EXCEPT !.bestSprout = sprout, !.bestSapling = sapling,
              !.sproutAnchors = IF sprout = v.bestSprout THEN @ ELSE @ \ {v.bestSprout},
              !.saplingAnchors = IF sapling = v.bestSapling THEN @ ELSE @ \ {v.bestSapling}]

(* The trees at the end of block b on view v. *)
SproutTree(v, b) == v.bestSprout \o SelectSeq(b, LAMBDA t : Tx[t].sproutCm)
SaplingTree(v, b) == v.bestSapling \o SelectSeq(b, LAMBDA t : Tx[t].saplingCm)

(* Before the activation that header field holds anything: a value no tree
   has as its root. *)
hashReserved == <<CHOOSE c \in Coinbases : TRUE>>

-----------------------------------------------------------------------------
Init ==
    /\ pcoinsTip = EmptyView /\ view = EmptyView
    /\ chain = <<>> /\ phase = "idle"
    /\ vtx = <<>> /\ i = 0 /\ j = 0 /\ nFees = 0
    /\ blockundo = <<>> /\ fClean = TRUE
    /\ revFile = <<>>

(* No transaction of the block overwrites one with unspent outputs. *)
NoOverwrite(b) == \A k \in DOMAIN b : pcoinsTip.coins[b[k]] = NoCoins

(* The turnstile: pools may not go negative. *)
PoolsCovered(b) ==
    fZIP209Enabled => /\ nChainSproutValue(chain) + SproutValue(b) >= 0
                      /\ nChainSaplingValue(chain) + SaplingValue(b) >= 0

(* ConnectBlock up to the loop over the transactions. *)
StartConnect(b) ==
    /\ phase = "idle" /\ Len(chain) < MaxHeight
    /\ IsCandidate(b) /\ PoolsCovered(b) /\ NoOverwrite(b)
    /\ phase' = "connect" /\ vtx' = b /\ i' = 1 /\ j' = 1
    /\ view' = pcoinsTip /\ nFees' = 0 /\ fClean' = TRUE
    /\ blockundo' = [k \in DOMAIN b |-> <<>>]
    /\ UNCHANGED <<pcoinsTip, chain, revFile>>

Vin(k) == Tx[vtx[k]].vin
Connecting == phase = "connect" /\ i <= Len(vtx)
TxChecked == j > 1 \/ TxOk(view, vtx[i])

(* One round of the loop over the inputs in UpdateCoins. *)
SpendInput ==
    /\ Connecting /\ j <= Len(Vin(i)) /\ TxChecked
    /\ LET op == Vin(i)[j]
       IN  /\ blockundo' = [blockundo EXCEPT ![i] =
                              Append(@, TxInUndo(view.coins[op[1]], op[2]))]
           /\ view' = Spend(view, op)
    /\ j' = j + 1
    /\ UNCHANGED <<pcoinsTip, chain, phase, vtx, i, nFees, fClean, revFile>>

(* The rest of UpdateCoins for one transaction. *)
UpdateCoins ==
    /\ Connecting /\ j > Len(Vin(i)) /\ TxChecked
    /\ view' = AddOutputs(view, vtx[i], nHeight)
    /\ nFees' = IF vtx[i] \in Coinbases THEN nFees
                ELSE nFees + GetValueIn(vtx[i]) - GetValueOut(vtx[i])
    /\ i' = i + 1 /\ j' = 1
    /\ UNCHANGED <<pcoinsTip, chain, phase, vtx, blockundo, fClean, revFile>>

CoinbaseOk == GetValueOut(vtx[1]) <= nFees + nSubsidy[nHeight]

(* The end of ConnectBlock and the flush in ConnectTip.  The undo data is
   written unless the block index already points at the block's own. *)
Ancestry == [h \in DOMAIN chain |-> chain[h].vtx]      \* hashPrevBlock
Block(b, undo, v) ==
    [vtx |-> b, hashPrevBlock |-> Ancestry,
     hashFinalSaplingRoot |-> IF SaplingActive(nHeight) THEN SaplingTree(v, b) ELSE hashReserved,
     undo |-> undo, old_sprout_tree_root |-> v.bestSprout,
     before |-> v]                                     \* history: what it was connected to

Idle(p) ==
    /\ phase' = "idle" /\ pcoinsTip' = p /\ view' = p
    /\ vtx' = <<>> /\ i' = 0 /\ j' = 0 /\ nFees' = 0 /\ blockundo' = <<>>

HasUndo(b) == revFile # <<>> /\ revFile.vtx = b /\ revFile.hashPrevBlock = Ancestry

FinishConnect ==
    /\ phase = "connect" /\ i > Len(vtx) /\ CoinbaseOk
    /\ LET b == Block(vtx, blockundo, pcoinsTip)
       IN  /\ chain' = Append(chain, IF HasUndo(vtx) THEN [revFile EXCEPT !.before = pcoinsTip] ELSE b)
           /\ Idle(PushAnchor(view, SproutTree(pcoinsTip, vtx), SaplingTree(pcoinsTip, vtx)))
    /\ UNCHANGED <<fClean, revFile>>

(* A check fails (the scripts' and the reward shares' at the end, whatever
   the rest says): the view is dropped. *)
RejectBlock ==
    /\ phase = "connect"
    /\ (i <= Len(vtx) /\ ~TxChecked) \/ i > Len(vtx)
    /\ Idle(pcoinsTip)
    /\ UNCHANGED <<chain, fClean, revFile>>

(* DisconnectTip: the block and its undo data are read back. *)
StartDisconnect ==
    /\ phase = "idle" /\ chain # <<>>
    /\ phase' = "disconnect" /\ vtx' = Last(chain).vtx /\ blockundo' = Last(chain).undo
    /\ i' = Len(vtx') /\ j' = Len(Tx[Last(vtx')].vin) + 1
    /\ view' = pcoinsTip /\ fClean' = TRUE
    /\ UNCHANGED <<pcoinsTip, chain, nFees, revFile>>

(* The loop visits transactions and inputs in reverse; a transaction's
   outputs go before its inputs come back. *)
StepBack ==
    IF j > 1 THEN j' = j - 1 /\ i' = i
    ELSE i' = i - 1 /\ j' = IF i > 1 THEN Len(Vin(i - 1)) + 1 ELSE 0

(* The outputs must be there exactly as the block made them. *)
RemoveOutputs ==
    /\ phase = "disconnect" /\ i > 0 /\ j = Len(Vin(i)) + 1
    /\ fClean' = (fClean /\ view.coins[vtx[i]] = FromTx(vtx[i], Len(chain)))
    /\ view' = [SetNullifiers(view, vtx[i], FALSE) EXCEPT
                  !.coins[vtx[i]] = NoCoins,
                  !.addressUnspent = {e \in @ : e[1][1] # vtx[i]}]
    /\ StepBack
    /\ UNCHANGED <<pcoinsTip, chain, phase, vtx, nFees, blockundo, revFile>>

(* ApplyTxInUndo. *)
UndoClean(coins, undo, n) ==
    /\ (undo.nHeight # 0) <=> (coins = NoCoins)
    /\ n \notin coins.vout

(* Mutant: the coinbase flag is not restored. *)
RestoredCoinsNoFlag(coins, undo, n) ==
    IF undo.nHeight # 0
    THEN [vout |-> {n}, nHeight |-> undo.nHeight, fCoinBase |-> FALSE]
    ELSE [coins EXCEPT !.vout = @ \cup {n}]

RestoredCoins(coins, undo, n) ==
    IF undo.nHeight # 0
    THEN [vout |-> {n}, nHeight |-> undo.nHeight, fCoinBase |-> undo.fCoinBase]
    ELSE [coins EXCEPT !.vout = @ \cup {n}]

RestoreInput ==
    /\ phase = "disconnect" /\ i > 0 /\ j <= Len(Vin(i))
    /\ LET op   == Vin(i)[j]
           undo == blockundo[i][j]
       IN  /\ fClean' = (fClean /\ UndoClean(view.coins[op[1]], undo, op[2]))
           /\ view' = [view EXCEPT
                         !.coins[op[1]] = RestoredCoins(@, undo, op[2]),
                         !.addressUnspent = @ \cup AddressEntries({op}, undo.nHeight)]
    /\ StepBack
    /\ UNCHANGED <<pcoinsTip, chain, phase, vtx, nFees, blockundo, revFile>>

(* Mutant: the parent's header is relied on before the activation. *)
OldSaplingRootFromHeader ==
    IF Len(chain) > 1 THEN chain[Len(chain) - 1].hashFinalSaplingRoot ELSE <<>>

(* The Sapling root the parent's header names, if it can be relied on. *)
OldSaplingRoot ==
    IF SaplingActive(Len(chain) - 1) THEN chain[Len(chain) - 1].hashFinalSaplingRoot ELSE <<>>

(* The end of DisconnectBlock and the flush in DisconnectTip, which drops
   the view when the result is not DISCONNECT_OK. *)
FinishDisconnect ==
    /\ phase = "disconnect" /\ i = 0
    /\ IF fClean
       THEN /\ Idle(PopAnchor(view, Last(chain).old_sprout_tree_root, OldSaplingRoot))
            /\ chain' = Front(chain)
            /\ revFile' \in {revFile, [Last(chain) EXCEPT !.before = EmptyView]}
       ELSE Idle(pcoinsTip) /\ UNCHANGED <<chain, revFile>>
    /\ UNCHANGED fClean

Next ==
    \/ \E b \in Candidates : StartConnect(b)
    \/ SpendInput \/ UpdateCoins \/ FinishConnect \/ RejectBlock
    \/ StartDisconnect \/ RemoveOutputs \/ RestoreInput \/ FinishDisconnect

Spec == Init /\ [][Next]_vars

-----------------------------------------------------------------------------
(* Every variable keeps its type. *)
CoinsType == [vout : SUBSET (1 .. 3), nHeight : 0 .. MaxHeight, fCoinBase : BOOLEAN]
ViewOK(v) ==
    /\ v.coins \in [Txids -> CoinsType]
    /\ v.sproutAnchors \cup v.saplingAnchors \cup {v.bestSprout, v.bestSapling} \subseteq Seq(Txids)
    /\ \A e \in v.addressUnspent : e[1] \in Txids \X (1 .. 3) /\ e[2] \in 0 .. MaxHeight
TypeOK ==
    /\ ViewOK(pcoinsTip) /\ ViewOK(view)
    /\ Len(chain) <= MaxHeight /\ phase \in {"idle", "connect", "disconnect"}
    /\ vtx \in Seq(Txids) /\ i \in 0 .. MaxTxs + 2 /\ j \in Nat
    /\ nFees \in Nat /\ fClean \in BOOLEAN
    /\ phase # "idle" => DOMAIN blockundo = DOMAIN vtx

Contents(v) == [coins |-> v.coins, nullifiers |-> v.nullifiers,
                sprout |-> v.sproutAnchors, bestSprout |-> v.bestSprout,
                sapling |-> v.saplingAnchors, bestSapling |-> v.bestSapling]

(* Taking the tip off with its undo data gives back exactly the chain state
   the block was connected to: outputs with their heights and coinbase
   flags, nullifiers, anchors and best anchors (DisconnectBlock). *)
UndoRestores ==
    [][Len(chain') < Len(chain) =>
         Contents(pcoinsTip') = Contents(Last(chain).before)]_vars

(* DisconnectBlock never meets undo data that does not fit the view, so
   DisconnectTip never gives up on a block this node connected. *)
DisconnectIsClean == fClean

(* The undo data ConnectBlock leaves on disk when it finds nUndoPos set is
   what it would have written now. *)
UndoDataReusable ==
    phase = "connect" /\ i > Len(vtx) /\ HasUndo(vtx) => revFile.undo = blockundo

(* ConnectBlock's single look at the parent state (BIP30) covers the whole
   block: each transaction still to come is pruned in the view when
   UpdateCoins calls ModifyNewCoins, which relies on it. *)
NewCoinsArePruned ==
    phase = "connect" => \A k \in i .. Len(vtx) : view.coins[vtx[k]] = NoCoins

ChainTxs == UNION {ToSet(chain[h].vtx) : h \in DOMAIN chain}
Created == {op \in Txids \X (1 .. 3) :
              op[1] \in ChainTxs /\ op[2] \in DOMAIN Tx[op[1]].vout \ Tx[op[1]].unspendable}
Spent == UNION {ToSet(Tx[t].vin) : t \in ChainTxs}
Cms(h, flag(_)) == FoldSeq(LAMBDA s, acc : s \o acc, <<>>,
                       [k \in 1 .. h |-> SelectSeq(chain[k].vtx, flag)])

(* The outputs the active chain created and did not spend, at the height of
   their block; the nullifiers it reveals, and an anchor for the tree after
   every block. *)
UnspentMatch ==
    /\ {op \in Txids \X (1 .. 3) : IsAvailable(pcoinsTip, op)} = Created \ Spent
    /\ \A h \in DOMAIN chain : \A k \in DOMAIN chain[h].vtx :
         pcoinsTip.coins[chain[h].vtx[k]].nHeight \in {0, h}
ShieldedMatch ==
    LET sprout(t) == Tx[t].sproutCm
        sapling(t) == Tx[t].saplingCm
    IN  /\ pcoinsTip.nullifiers = UNION {Tx[t].nullifiers : t \in ChainTxs}
        /\ pcoinsTip.sproutAnchors = {Cms(h, sprout) : h \in 1 .. Len(chain)} \ {<<>>}
        /\ pcoinsTip.saplingAnchors = {Cms(h, sapling) : h \in 1 .. Len(chain)} \ {<<>>}
        /\ pcoinsTip.bestSprout = Cms(Len(chain), sprout)
        /\ pcoinsTip.bestSapling = Cms(Len(chain), sapling)

(* Whatever ConnectBlock and DisconnectBlock connected, disconnected or gave
   up half way, the chain state is the one the active chain defines, coins
   and shielded state alike. *)
CoinsMatchChain == UnspentMatch /\ ShieldedMatch

(* No value from nothing: unspent outputs and the two pools together never
   exceed the subsidies of the chain's blocks (CheckTxInputs, the coinbase
   limit), and with the turnstile on no pool is overdrawn. *)
Unspent == {op \in Txids \X (1 .. 3) : IsAvailable(pcoinsTip, op)}
ValueConserved ==
    /\ MapThenSumSet(LAMBDA op : Tx[op[1]].vout[op[2]], Unspent)
         + nChainSproutValue(chain) + nChainSaplingValue(chain)
         <= SumSeq([h \in DOMAIN chain |-> nSubsidy[h]])
    /\ fZIP209Enabled => nChainSproutValue(chain) >= 0 /\ nChainSaplingValue(chain) >= 0

(* The address index lists the unspent outputs with the heights of their
   transactions; DisconnectBlock says of its entries "restore unspent
   index". *)
AddressIndexMatches ==
    pcoinsTip.addressUnspent =
        {<<op, pcoinsTip.coins[op[1]].nHeight>> : op \in Unspent}
=============================================================================
