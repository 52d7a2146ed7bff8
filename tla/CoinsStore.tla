----------------------------- MODULE CoinsStore -----------------------------
(***************************************************************************)
(* What the stack of coin views promises, with no cache in it.             *)
(*                                                                         *)
(* Three complete states of the chain are kept apart: the one on disk      *)
(* (pcoinsdbview), the one the node has committed to (pcoinsTip) and the   *)
(* one a block being connected or disconnected works on (the local view of *)
(* ConnectTip and DisconnectTip).  A view is committed or dropped as a     *)
(* whole, the committed state reaches the disk as a whole, and a crash     *)
(* falls back to what is on disk.  CoinsCache implements this module.      *)
(***************************************************************************)
CONSTANTS
    Txids,        \* transaction ids
    Outs,         \* output positions of a transaction
    Nullifiers,   \* nullifiers of both pools
    Pools,        \* shielded pools (SPROUT, SAPLING)
    Roots,        \* note commitment tree roots
    EmptyRoot,    \* root of the empty tree
    Blocks,       \* block hashes
    NULL          \* the null hash

VARIABLES
    disk,         \* the state in the chainstate database
    committed,    \* the state pcoinsTip stands for
    working       \* the state the block's own view stands for

vars == <<disk, committed, working>>

States ==
    [coins      : [Txids -> SUBSET Outs],
     nullifiers : SUBSET Nullifiers,
     anchors    : [Pools -> SUBSET Roots],
     hashBlock  : Blocks \cup {NULL},
     hashAnchor : [Pools -> Roots]]

EmptyState ==
    [coins      |-> [t \in Txids |-> {}],
     nullifiers |-> {},
     anchors    |-> [p \in Pools |-> {EmptyRoot}],
     hashBlock  |-> NULL,
     hashAnchor |-> [p \in Pools |-> EmptyRoot]]

Init ==
    /\ disk = EmptyState
    /\ committed = EmptyState
    /\ working = EmptyState

(* The unspent outputs of a transaction change in the working state.       *)
PutCoins(t, c) ==
    /\ working' = [working EXCEPT !.coins[t] = c]
    /\ UNCHANGED <<disk, committed>>

PutNullifiers(N, spent) ==
    /\ working' = [working EXCEPT !.nullifiers = IF spent THEN @ \cup N ELSE @ \ N]
    /\ UNCHANGED <<disk, committed>>

(* A block appends note commitments: its final root becomes an anchor.     *)
AddAnchor(p, r) ==
    /\ working' = [working EXCEPT !.anchors[p] = @ \cup {r}, !.hashAnchor[p] = r]
    /\ UNCHANGED <<disk, committed>>

(* A block is undone: its root stops being an anchor, an older one is best *)
DropAnchor(p, r) ==
    /\ r \in working.anchors[p] \ {working.hashAnchor[p]}
    /\ working' = [working EXCEPT !.anchors[p] = @ \ {working.hashAnchor[p]},
                                  !.hashAnchor[p] = r]
    /\ UNCHANGED <<disk, committed>>

PutBestBlock(b) ==
    /\ working' = [working EXCEPT !.hashBlock = b]
    /\ UNCHANGED <<disk, committed>>

Commit ==
    /\ committed' = working
    /\ UNCHANGED <<disk, working>>

Discard ==
    /\ working' = committed
    /\ UNCHANGED <<disk, committed>>

Persist ==
    /\ working = committed
    /\ disk' = committed
    /\ UNCHANGED <<committed, working>>

Crash ==
    /\ committed' = disk
    /\ working' = disk
    /\ UNCHANGED disk

Next ==
    \/ \E t \in Txids, c \in SUBSET Outs : PutCoins(t, c)
    \/ \E N \in SUBSET Nullifiers, spent \in BOOLEAN : PutNullifiers(N, spent)
    \/ \E p \in Pools, r \in Roots : AddAnchor(p, r) \/ DropAnchor(p, r)
    \/ \E b \in Blocks : PutBestBlock(b)
    \/ Commit
    \/ Discard
    \/ Persist
    \/ Crash

Spec == Init /\ [][Next]_vars

=============================================================================
