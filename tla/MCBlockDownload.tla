-------------------------- MODULE MCBlockDownload --------------------------
(***************************************************************************)
(* An instance of BlockDownload for TLC: a peer that answers (fast) and    *)
(* one that may not (slow), and a tree with a fork whose second branch     *)
(* ends in an invalid block.                                               *)
(*                                                                         *)
(*   g - a1 - a2 - a3                                                      *)
(*     \ b1 - b2 (invalid)                                                 *)
(***************************************************************************)
EXTENDS BlockDownload, TLC

CONSTANTS g, a1, a2, a3, b1, b2, fast, slow

ParentOf == (a1 :> g) @@ (a2 :> a1) @@ (a3 :> a2) @@ (b1 :> g) @@ (b2 :> b1)
AncestorsOf == (g :> {g}) @@ (a1 :> {g, a1}) @@ (a2 :> {g, a1, a2}) @@ (a3 :> {g, a1, a2, a3})
               @@ (b1 :> {g, b1}) @@ (b2 :> {g, b1, b2})
HeightOf == (g :> 0) @@ (a1 :> 1) @@ (a2 :> 2) @@ (a3 :> 3) @@ (b1 :> 1) @@ (b2 :> 2)
ThreeHistories ==
    {(fast :> <<a3>>) @@ (slow :> <<a2>>), (fast :> <<b1, a2>>) @@ (slow :> <<b1>>),
     (fast :> <<a2>>) @@ (slow :> <<b2>>)}

\* TLC evaluates the definition that stands for a constant at each use of the
\* constant, and the definitions in it only once.
MCParent == ParentOf
MCAncestors == AncestorsOf
MCHeight == HeightOf
MCHistories == ThreeHistories
=============================================================================
