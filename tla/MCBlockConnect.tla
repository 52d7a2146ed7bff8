--------------------------- MODULE MCBlockConnect ---------------------------
(***************************************************************************)
(* The two halves of connecting a block, one after the other in one run    *)
(* (`part'): ConnectBlock and DisconnectBlock on a small set of            *)
(* transactions, and the queue of script checks with two workers and the   *)
(* master, a block of up to three checks the second of which fails.        *)
(***************************************************************************)
EXTENDS CheckQueue, TLC

CONSTANTS w1, w2, master

Plain == [vin |-> <<>>, vout |-> <<>>, unspendable |-> {}, nullifiers |-> {},
          sproutAnchors |-> {}, saplingAnchors |-> {}, sproutCm |-> FALSE, saplingCm |-> FALSE,
          vpub_old |-> 0, vpub_new |-> 0, valueBalance |-> 0, nHeight |-> 0]

Cb(h, outs) == [Plain EXCEPT !.nHeight = h, !.vout = outs]
Pay(ins, outs) == [Plain EXCEPT !.vin = ins, !.vout = outs]

(* Transparent: two outputs of one transaction spent together (t2) or apart *)
(* (t3, t5), an unspendable output (t5), more paid than spent (t6), a       *)
(* coinbase that claims a fee (d2) and one with two outputs (c3).           *)
(* Shielded: s1 and z1 each shield the coinbase t1 also spends, s2 and s3   *)
(* reveal the same Sprout nullifier and s3 takes more than the pool has, z2 *)
(* spends in Sapling.                                                       *)
MCTx ==
    [c1 |-> Cb(1, <<2>>), c2 |-> Cb(2, <<2>>), d2 |-> Cb(2, <<3>>), c3 |-> Cb(3, <<1, 1>>),
     t1 |-> Pay(<< <<"c1", 1>> >>, <<1, 1>>),
     t2 |-> Pay(<< <<"t1", 2>>, <<"t1", 1>> >>, <<1>>),
     t3 |-> Pay(<< <<"t1", 2>> >>, <<1>>),
     t5 |-> [Pay(<< <<"t1", 1>>, <<"c2", 1>> >>, <<1, 2>>) EXCEPT !.unspendable = {1}],
     t6 |-> Pay(<< <<"t1", 2>> >>, <<2>>),
     s1 |-> [Pay(<< <<"c1", 1>> >>, <<>>) EXCEPT !.vpub_old = 2, !.sproutCm = TRUE],
     s2 |-> [Pay(<<>>, <<1>>) EXCEPT !.vpub_new = 1, !.sproutCm = TRUE,
                !.nullifiers = {"n"}, !.sproutAnchors = {<<"s1">>}],
     s3 |-> [Pay(<<>>, <<3>>) EXCEPT !.vpub_new = 3, !.nullifiers = {"n"}, !.sproutAnchors = {<<>>}],
     z1 |-> [Pay(<< <<"c1", 1>> >>, <<>>) EXCEPT !.valueBalance = -2, !.saplingCm = TRUE],
     z2 |-> [Pay(<<>>, <<1>>) EXCEPT !.valueBalance = 1, !.saplingCm = TRUE,
                !.nullifiers = {"m"}, !.saplingAnchors = {<<"z1">>}]]

MCCoinbases == {"c1", "c2", "d2", "c3"}

-----------------------------------------------------------------------------
VARIABLES part, pcoinsTip, view, chain, phase, vtx, i, j, nFees, blockundo, fClean, revFile

bvars == <<pcoinsTip, view, chain, phase, vtx, i, j, nFees, blockundo, fClean, revFile>>

Block == INSTANCE BlockConnect WITH
    Tx <- MCTx, Coinbases <- MCCoinbases, nSubsidy <- [h \in 1 .. 3 |-> 2], nCoinbaseMaturity <- 1,
    fCoinbaseMustBeProtected <- FALSE, fZIP209Enabled <- TRUE, fAddressIndex <- FALSE,
    SaplingHeight <- 2, MaxHeight <- 3, MaxTxs <- 2

ASSUME BlockAssumption == Block!TxAssumption /\ Block!HeightAssumption

MCInit == part \in {"block", "queue"} /\ Init /\ Block!Init

MCNext ==
    /\ UNCHANGED part
    /\ \/ part = "block" /\ Block!Next /\ UNCHANGED vars
       \/ part = "queue" /\ Next /\ UNCHANGED bvars

\* WF_vars(Loop(t)) for every thread, with its enabling condition spelled out: a
\* thread that is notified or has a batch is run.
MCSpec ==
    /\ MCInit /\ [][MCNext]_<<vars, bvars, part>>
    /\ \A t \in Threads :
        \/ []<>(part = "block" \/ pc[t] \notin {"start", "notified", "work"})
        \/ []<><<part = "queue" /\ Loop(t)>>_vars

\* CoinsMatchChain, with what ConnectBlock and DisconnectBlock rely on while they are
\* at work: transactions still to come are pruned in the view (NewCoinsArePruned),
\* undo data fits (DisconnectIsClean) and can be used again (UndoDataReusable); and no
\* value comes into being (ValueConserved).
CoinsExact ==
    /\ Block!TypeOK /\ Block!CoinsMatchChain /\ Block!NewCoinsArePruned /\ Block!DisconnectIsClean
    /\ Block!UndoDataReusable /\ Block!ValueConserved

\* BlockConnect's UndoRestores: taking the block off gives back the coins from before.
UndoRestores == Block!UndoRestores
=============================================================================
