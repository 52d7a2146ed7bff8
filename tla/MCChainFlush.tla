---------------------------- MODULE MCChainFlush ----------------------------
(***************************************************************************)
(* Four nodes for ChainFlush.  The block tree is a chain g, a1, a2, a3,    *)
(* a4 and a branch b1 of the genesis block.                                *)
(***************************************************************************)
EXTENDS ChainFlush, TLC

CONSTANTS g, a1, a2, a3, a4, b1

ParentOf ==
    [x \in Blocks \ {g} |->
        CASE x \in {a1, b1} -> g [] x = a2 -> a1 [] x = a3 -> a2 [] x = a4 -> a3]

AncestorsOf ==
    LET above[x \in Blocks] == IF x = g THEN {g} ELSE above[ParentOf[x]] \cup {x}
    IN  [x \in Blocks |-> above[x]]

HeightOf ==
    LET height[x \in Blocks] == IF x = g THEN 0 ELSE height[ParentOf[x]] + 1
    IN  [x \in Blocks |-> height[x]]

\* The process dies, or a write fails, at any step, with two block files.
Crashing ==
    [Arriving |-> {a1, a2, b1}, Files |-> {0, 1}, BlocksPerFile |-> 2,
     fPruneMode |-> FALSE, nCheckDepth |-> 2, PowerLoss |-> FALSE,
     Faults |-> {"undo", "space"}, MaxFailures |-> 1, MaxUnsynced |-> 1]

\* The machine goes down, up to twice, with what was not synced; the blocks are
\* a chain or two branches.
Unpowered(blocks) ==
    [Crashing EXCEPT !.Arriving = blocks, !.Files = {0}, !.BlocksPerFile = 4,
                     !.PowerLoss = TRUE, !.Faults = {}, !.MaxFailures = 2,
                     !.MaxUnsynced = 2]

\* Old block files are deleted.
Pruning ==
    [Crashing EXCEPT !.Arriving = {a1, a2, a3, a4}, !.Files = {0, 1, 2, 3},
                     !.fPruneMode = TRUE, !.nCheckDepth = 1,
                     !.Faults = {}, !.MaxFailures = 0]

FourNodes == {Crashing, Unpowered({a1, a2}), Unpowered({a1, b1}), Pruning}

\* The write of the coins may fail.
CoinsFailing == [Crashing EXCEPT !.Faults = {"coins"}]

CoinsFailingNodes == {CoinsFailing}

\* TLC evaluates the definition that stands for a constant at each use of the
\* constant, and the definitions in it only once.
MCParent == ParentOf
MCAncestors == AncestorsOf
MCHeight == HeightOf
MCNodes == FourNodes
=============================================================================
