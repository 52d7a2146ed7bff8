---------------------------- MODULE MCChainState ----------------------------
(***************************************************************************)
(* Three nodes for ChainState.  The block tree has two branches a and b    *)
(* from the genesis block g and a third one, c, that leaves the first      *)
(* branch after a1.  Every block has the same work.                        *)
(***************************************************************************)
EXTENDS ChainState, TLC

CONSTANTS g, a1, a2, a3, b1, b2, b3, b4, c2

ParentOf ==
    [x \in Blocks \ {g} |->
        CASE x = a1 -> g
          [] x = a2 -> a1
          [] x = a3 -> a2
          [] x = b1 -> g
          [] x = b2 -> b1
          [] x = b3 -> b2
          [] x = b4 -> b3
          [] x = c2 -> a1]

AncestorsOf ==
    LET above[x \in Blocks] == IF x = g THEN {g} ELSE above[ParentOf[x]] \cup {x}
    IN  [x \in Blocks |-> above[x]]

HeightOf == [x \in Blocks |-> Cardinality(AncestorsOf[x]) - 1]
WorkOf == [x \in Blocks |-> Cardinality(AncestorsOf[x])]

\* Two threads deliver blocks of all three branches, some of them invalid.
Forks ==
    [Arriving |-> {a1, a2, a3, b1, b2, b3, c2}, BadBlocks |-> {a3}, BadScripts |-> {b2},
     Invalidated |-> {}, Reconsidered |-> {}, MAX_REORG_LENGTH |-> 2,
     MIN_BLOCKS_TO_KEEP |-> 3, Threads |-> 2, MaxRpcs |-> 0, MaxSequenceId |-> 8,
     MaxPrunes |-> 0]

\* invalidateblock and reconsiderblock between the blocks.
Rpcs ==
    [Forks EXCEPT !.Arriving = {a1, a2, b1, b2, c2}, !.BadBlocks = {}, !.BadScripts = {c2},
                  !.Invalidated = {a1, b1}, !.Reconsidered = {a1, b1}, !.MaxRpcs = 3]

\* Block files are deleted while a branch overtakes the other.
Prunes ==
    [Forks EXCEPT !.Arriving = {a1, a2, a3, b1, b2, b3, b4}, !.BadBlocks = {},
                  !.BadScripts = {}, !.MAX_REORG_LENGTH = 1, !.MIN_BLOCKS_TO_KEEP = 2,
                  !.Threads = 1, !.MaxSequenceId = 9, !.MaxPrunes = 2]

ThreeNodes == {Forks, Rpcs, Prunes}

\* TLC evaluates the definition that stands for a constant at each use of the
\* constant, and the definitions in it only once.
MCParent == ParentOf
MCAncestors == AncestorsOf
MCHeight == HeightOf
MCChainWork == WorkOf
MCNodes == ThreeNodes
=============================================================================
