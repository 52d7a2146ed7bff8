--------------------------- MODULE MCTxAcceptance ---------------------------
(***************************************************************************)
(* An instance of TxAcceptance for TLC: six transactions and a fork.       *)
(*                                                                         *)
(*   c  spends the coinbase of g, and  has a shielded output               *)
(*   d  spends c, and expires                                              *)
(*   e  spends c and d                                                     *)
(*   f  spends what d spends, and is large                                 *)
(*   s  reveals a nullifier, anchored at a2                                *)
(*   u  spends the coinbase of a1, signed for the second branch            *)
(*                                                                         *)
(*   g - a1 - a2 (c) - a3 (s) - a4      c is confirmed, then spent by f on *)
(*          \ b2 - b3 (c f) - b4        the other branch                   *)
(***************************************************************************)
EXTENDS TxAcceptance

CONSTANTS c, d, e, f, s, u, g, a1, a2, a3, a4, b2, b3, b4, n1

Map(pairs, default) ==
    [t \in Txs |-> IF \E p \in pairs : p[1] = t THEN (CHOOSE p \in pairs : p[1] = t)[2] ELSE default]
Block(prev, height, vtx, valid) == [prev |-> prev, height |-> height, vtx |-> vtx, valid |-> valid]

InOf == Map({<<c, {<<g, 1>>}>>, <<d, {<<c, 1>>}>>, <<e, {<<c, 2>>, <<d, 1>>}>>, <<f, {<<c, 1>>}>>, <<u, {<<a1, 1>>}>>}, {})
NullifiersOf == Map({<<s, {n1}>>}, {})
AnchorOf == Map({<<s, a2>>}, None)
ExpiryOf == Map({<<d, 3>>}, 0)
LockTimeOf == Map({<<f, 2>>}, 0)
BranchOf == Map({<<u, 2>>}, 1)
MemUsageOf == Map({<<c, 2>>, <<e, 2>>, <<f, 4>>}, 1)
FeeRankOf == Map({<<c, 1>>, <<d, 3>>, <<e, 2>>, <<f, 0>>, <<s, 5>>}, 4)
PriorityRankOf == Map({<<c, 3>>, <<d, 1>>, <<e, 4>>, <<f, 5>>, <<s, 0>>}, 2)
Fork ==
    (g :> Block(None, 0, <<>>, TRUE)) @@ (a1 :> Block(g, 1, <<>>, TRUE))
    @@ (a2 :> Block(a1, 2, <<c>>, TRUE)) @@ (a3 :> Block(a2, 3, <<s>>, TRUE)) @@ (a4 :> Block(a3, 4, <<>>, TRUE))
    @@ (b2 :> Block(a1, 2, <<>>, TRUE)) @@ (b3 :> Block(b2, 3, <<c, f>>, TRUE))
    @@ (b4 :> Block(b3, 4, <<>>, FALSE))

\* TLC evaluates the definition that stands for a constant at each use of the
\* constant, and the definitions in it only once.
MCIn == InOf
MCNullifiers == NullifiersOf
MCAnchor == AnchorOf
MCExpiry == ExpiryOf
MCLockTime == LockTimeOf
MCBranch == BranchOf
MCMemUsage == MemUsageOf
MCFeeRank == FeeRankOf
MCPriorityRank == PriorityRankOf
MCBlocks == Fork
=============================================================================
