---------------------------- MODULE MCWalletNotes ----------------------------
(***************************************************************************)
(* An instance of WalletNotes: a chain g-p1-p2 without shielded             *)
(* transactions, and two branches above it.  On branch a the note n1 is the *)
(* first leaf of the Sapling tree and ta spends it; on branch b it is the   *)
(* second leaf and has another nullifier.  The wallet knows ta by its       *)
(* transparent part; the key of n1 and of the Sprout note s1 is imported.   *)
(***************************************************************************)
EXTENDS WalletNotes

CONSTANTS g, p1, p2, a1, a2, a3, b1,            \* blocks
          t0, t1, ta,                           \* transactions
          n1, s1, f1, f2,                       \* notes
          key, other                            \* keys

MCBlocks == {g, p1, p2, a1, a2, a3, b1}
ParentOf == p1 :> g @@ p2 :> p1 @@ a1 :> p2 @@ a2 :> a1 @@ a3 :> a2 @@ b1 :> p2
VtxOf == g :> <<>> @@ p1 :> <<>> @@ p2 :> <<>> @@ a1 :> <<t1>> @@ a2 :> <<ta>>
         @@ a3 :> <<>> @@ b1 :> <<t0, t1>>

OutputsOf == t0 :> <<f1>> @@ t1 :> <<n1, s1>> @@ ta :> <<f2>>
RevealsOf == t0 :> {} @@ t1 :> {} @@ ta :> {<<n1, 1>>, <<s1>>}
OwnerOf == n1 :> key @@ s1 :> key @@ f1 :> other @@ f2 :> other

\* TLC evaluates the definition that stands for a constant at each use of the
\* constant, and the definitions in it only once.
MCParent == ParentOf
MCVtx == VtxOf
MCOutputs == OutputsOf
MCReveals == RevealsOf
MCOwner == OwnerOf
=============================================================================
