---------------------------- MODULE WalletSpends ----------------------------
(***************************************************************************)
(* How the wallet spends: the RPCs z_sendmany, z_shieldcoinbase,           *)
(* z_mergetoaddress and sendtoaddress, the locks on coins and notes that   *)
(* keep two of them from choosing the same input, the asynchronous         *)
(* operations that build a transaction JoinSplit by JoinSplit without      *)
(* holding the wallet's lock, the TransactionBuilder, and the migration of *)
(* Sprout funds to Sapling (wallet/asyncrpcoperation_*.cpp,                *)
(* transaction_builder.cpp, wallet/rpcwallet.cpp, wallet/wallet.cpp).      *)
(*                                                                         *)
(* An input is a coin, a Sprout note or a Sapling note; all of them are    *)
(* confirmed.  The change of a transaction is not spent again in an        *)
(* instance.  Keys, memos, sizes and proofs are left out; a proof, a       *)
(* signature or a witness that cannot be made is Throw.  A Sprout          *)
(* treestate is the sequence of the JoinSplits of this transaction that    *)
(* follow the anchor of the chain.                                         *)
(***************************************************************************)
EXTENDS Integers, Sequences, FiniteSets, SequencesExt, FiniteSetsExt

CONSTANTS
    Coins, Coinbase,        \* transparent outputs, and those of coinbases
    SproutNotes, SaplingNotes,
    Value,                  \* what an input is worth
    Setups,                 \* sequences of calls and of heights reached
    Threads,                \* -rpcasyncthreads
    CENT, DustThreshold,
    FeePerInput,            \* what GetMinimumFee asks for each input
    MaxMigrationTxs         \* migration transactions of a batch

VARIABLES
    calls,        \* the calls still to come
    ops,          \* the operations, in the order of the queue
    setLocked,    \* setLockedCoins, setLockedSproutNotes, setLockedSaplingNotes
    txs,          \* the transactions in mapWallet, with whether they are pooled
    pendingSaplingMigrationTxs,
    byUser, freed \* what the user locked; what they took from an operation

vars == <<calls, ops, setLocked, txs, pendingSaplingMigrationTxs, byUser, freed>>

Inputs == Coins \cup SproutNotes \cup SaplingNotes
NoAnchor == <<0>>
ZC_NUM_JS_INPUTS == 2
ZC_NUM_JS_OUTPUTS == 2

Worth(s) == FoldLeft(LAMBDA sum, i : sum + Value[i], 0, s)
Total(s) == FoldLeft(LAMBDA sum, v : sum + v, 0, s)
Paid(outs) == FoldLeft(LAMBDA sum, x : sum + x.value, 0, outs)
Smallest(x, y) == IF x < y THEN x ELSE y
Recipients(kind, amounts) == [i \in DOMAIN amounts |-> [to |-> <<kind, i>>, value |-> amounts[i]]]
ToChange(v) == IF v > 0 THEN <<[to |-> <<"change", 0>>, value |-> v]>> ELSE <<>>

-----------------------------------------------------------------------------
(* What the wallet offers to a selection. *)

\* A wallet transaction that is neither in a block nor in the mempool has
\* depth -1 and spends nothing.
IsSpent(i) == \E t \in DOMAIN txs : txs[t].pooled /\ i \in ToSet(txs[t].ins)

AvailableCoins(fIncludeCoinBase) ==
    {c \in Coins : ~IsSpent(c) /\ c \notin setLocked /\ (fIncludeCoinBase \/ c \notin Coinbase)}
GetFilteredNotes(notes) == {n \in notes : ~IsSpent(n) /\ n \notin setLocked}

InOrder(S) == SetToSortSeq(S, LAMBDA x, y : x < y)
Ascending(S) ==
    SetToSortSeq(S, LAMBDA x, y : Value[x] < Value[y] \/ (Value[x] = Value[y] /\ x < y))
Descending(S) ==
    SetToSortSeq(S, LAMBDA x, y : Value[x] > Value[y] \/ (Value[x] = Value[y] /\ x < y))

\* The shortest prefix that pays target and leaves no dust, or nothing.
SelectUtxos(found, target) ==
    LET change(k) == Worth(SubSeq(found, 1, k)) - target
        ends == {k \in DOMAIN found : change(k) = 0 \/ change(k) >= DustThreshold}
    IN  IF ends = {} THEN <<>> ELSE SubSeq(found, 1, Min(ends))

\* The shortest prefix that pays target.
SelectNotes(found, target) ==
    LET ends == {k \in DOMAIN found : Worth(SubSeq(found, 1, k)) >= target}
    IN  SubSeq(found, 1, Min(ends \cup {Len(found)}))

-----------------------------------------------------------------------------
(* CreateTransaction: the coins chosen for an amount, the fee raised until *)
(* it covers the transaction that came out, and where the rest goes.       *)

\* The results SelectCoinsMinConf can have: its search is randomised.
SelectCoinsMinConf(nTargetValue, vCoins) ==
    LET sum(S) == MapThenSumSet(LAMBDA c : Value[c], S)
        exact == {c \in vCoins : Value[c] = nTargetValue}
        lower == {c \in vCoins : Value[c] < nTargetValue + CENT}
        larger == vCoins \ lower
        lowestLarger == {{c} : c \in {x \in larger : \A y \in larger : Value[x] <= Value[y]}}
        reaching(v) == {S \in SUBSET lower : sum(S) >= v}
        better(S) == \E L \in lowestLarger :
                         \/ sum(S) # nTargetValue /\ sum(S) < nTargetValue + CENT
                         \/ sum(L) <= sum(S)
        best == {S \in reaching(nTargetValue) : sum(S) = nTargetValue} \cup
                reaching(IF sum(lower) >= nTargetValue + CENT THEN nTargetValue + CENT ELSE nTargetValue)
    IN  IF exact # {} THEN {{c} : c \in exact}
        ELSE IF sum(lower) = nTargetValue THEN {lower}
        ELSE IF sum(lower) < nTargetValue THEN lowestLarger
        ELSE UNION {IF better(S) THEN lowestLarger ELSE {S} : S \in best}

IsDust(v) == v < DustThreshold

\* What becomes of the rest of the coins S: an output, dust raised to an output
\* at the expense of a recipient who pays the fee, or dust left to the fee.
FillTransaction(S, nValue, subtract, nFeeRet) ==
    LET pay == IF subtract THEN nValue - nFeeRet ELSE nValue
        nChange == MapThenSumSet(LAMBDA c : Value[c], S) - nValue - (IF subtract THEN 0 ELSE nFeeRet)
        nDust == DustThreshold - nChange
        filled(p, c, f) == [ins |-> InOrder(S), pay |-> p, change |-> c, fee |-> f]
    IN  IF nChange <= 0 THEN filled(pay, 0, nFeeRet)
        ELSE IF ~IsDust(nChange) THEN filled(pay, nChange, nFeeRet)
        ELSE IF subtract THEN filled(pay - nDust, DustThreshold, nFeeRet)
        ELSE filled(pay, 0, nFeeRet + nChange)

RECURSIVE CreateTransaction(_, _, _)
CreateTransaction(nValue, subtract, nFeeRet) ==
    LET nTotalValue == IF subtract THEN nValue ELSE nValue + nFeeRet
        filled == {f \in {FillTransaction(S, nValue, subtract, nFeeRet) :
                              S \in SelectCoinsMinConf(nTotalValue, AvailableCoins(FALSE))} :
                      ~IsDust(f.pay)}
        nFeeNeeded(f) == FeePerInput * Len(f.ins)
    IN  UNION {IF f.fee >= nFeeNeeded(f) THEN {f}
               ELSE CreateTransaction(nValue, subtract, nFeeNeeded(f)) : f \in filled}

-----------------------------------------------------------------------------
(* Transactions and operations. *)

Tx(op, ins, tOut, sOut, joinSplits, fee, pooled) ==
    [op |-> op, ins |-> ins, tOut |-> tOut, sOut |-> sOut, vJoinSplit |-> joinSplits,
     fee |-> fee, pooled |-> pooled]

\* AcceptToMemoryPool: no pooled transaction spends an input of it, and a
\* coinbase is only spent into a shielded output.
Acceptable(ins, tOut) ==
    /\ \A i \in ToSet(ins) : ~IsSpent(i)
    /\ tOut # <<>> => ToSet(ins) \cap Coinbase = {}

\* CommitTransaction records the transaction whether or not it is accepted.
CommitTransaction(op, ins, tOut, sOut, joinSplits, fee, pooled) ==
    /\ pooled => Acceptable(ins, tOut)
    /\ txs' = Append(txs, Tx(op, ins, tOut, sOut, joinSplits, fee, pooled))

\* picked: how many calls were still to come when the inputs were chosen.
Operation(kind, call, ins, locks) ==
    [kind |-> kind, call |-> call, state |-> "READY", pc |-> "queued",
     ins |-> ins, locks |-> locks, picked |-> Len(calls) - 1,
     tOut |-> <<>>, sOut |-> <<>>, chain |-> "none", inputs |-> <<>>, due |-> <<>>,
     jsChange |-> 0, previous |-> <<>>, vpubOldTarget |-> 0, vpubNewTarget |-> 0,
     vJoinSplit |-> <<>>, entries |-> <<>>, created |-> 0]

Called(rpc) == calls # <<>> /\ Head(calls).rpc = rpc /\ calls' = Tail(calls)

-----------------------------------------------------------------------------
(* The calls.  Each runs under cs_main and cs_wallet. *)

z_sendmany ==
    /\ Called("z_sendmany")
    /\ ops' = Append(ops, Operation("sendmany", Head(calls), <<>>, FALSE))
    /\ UNCHANGED <<setLocked, txs, pendingSaplingMigrationTxs, byUser, freed>>

\* What a call takes of the inputs it found: at most limit, all when it is 0.
UpTo(limit, found) == SubSeq(found, 1, IF limit = 0 THEN Len(found) ELSE Smallest(limit, Len(found)))
FeeIsSane(ins, fee) == ins # <<>> /\ Worth(ins) >= fee /\ fee <= Worth(ins) - fee

\* The constructor of the operation locks what the call chose; a call that finds
\* too little, or whose fee is out of proportion, is refused.
Enqueue(kind, call, ins) ==
    /\ IF FeeIsSane(ins, call.fee)
       THEN /\ ops' = Append(ops, Operation(kind, call, ins, TRUE))
            /\ setLocked' = setLocked \cup ToSet(ins)
       ELSE UNCHANGED <<ops, setLocked>>
    /\ UNCHANGED <<txs, pendingSaplingMigrationTxs, byUser, freed>>

z_shieldcoinbase ==
    /\ Called("z_shieldcoinbase")
    /\ LET call == Head(calls)
       IN  Enqueue("shieldcoinbase", call, UpTo(call.limit, InOrder(AvailableCoins(TRUE) \cap Coinbase)))

z_mergetoaddress ==
    /\ Called("z_mergetoaddress")
    /\ LET call == Head(calls)
           utxos == IF "taddr" \in call.sources THEN InOrder(AvailableCoins(FALSE)) ELSE <<>>
           notes == InOrder(GetFilteredNotes(
                        (IF "sprout" \in call.sources THEN SproutNotes ELSE {}) \cup
                        (IF "sapling" \in call.sources THEN SaplingNotes ELSE {})))
       IN  Enqueue("mergetoaddress", call, UpTo(call.limit, utxos) \o UpTo(call.noteLimit, notes))

\* CreateTransaction fails, or what it made is committed.
sendtoaddress ==
    /\ Called("sendtoaddress")
    /\ LET made == CreateTransaction(Head(calls).amount, Head(calls).subtract, 0)
       IN  \/ made = {} /\ UNCHANGED txs
           \/ \E f \in made, pooled \in BOOLEAN :
                  CommitTransaction(0, f.ins, <<[to |-> <<"t", 1>>, value |-> f.pay]>> \o ToChange(f.change),
                                    <<>>, <<>>, f.fee, pooled)
    /\ UNCHANGED <<ops, setLocked, pendingSaplingMigrationTxs, byUser, freed>>

Held == UNION {ToSet(ops[o].ins) : o \in {p \in DOMAIN ops : ops[p].locks}}

\* The user locks coins, or unlocks some or all of them.
lockunspent ==
    /\ Called("lockunspent")
    /\ LET call == Head(calls)
       IN  IF call.unlock
           THEN /\ setLocked' = setLocked \ call.coins
                /\ byUser' = byUser \ call.coins
                /\ freed' = freed \cup (call.coins \cap Held)
           ELSE /\ setLocked' = setLocked \cup call.coins
                /\ byUser' = byUser \cup call.coins
                /\ UNCHANGED freed
    /\ UNCHANGED <<ops, txs, pendingSaplingMigrationTxs>>

-----------------------------------------------------------------------------
(* The operations.  Threads workers take them from the queue in its order; *)
(* what one of them does between two locks of the wallet is a step.        *)

Working(r) == r.pc \in {"taken", "running", "adding"} \/ (r.pc = "done" /\ r.locks)
InTurn(o) ==
    /\ Cardinality({p \in DOMAIN ops : Working(ops[p])}) < Threads
    /\ \A p \in 1..(o - 1) : ops[p].pc # "queued" \/ ops[p].state = "CANCELLED"

Becomes(o, r) == ops' = [ops EXCEPT ![o] = r]
Ended(r, state) == [r EXCEPT !.state = state, !.pc = "done"]
Began(r) == [r EXCEPT !.state = "EXECUTING", !.pc = "running", !.picked = IF r.locks THEN @ ELSE Len(calls)]

\* z_sendmany selects its inputs without locking them.
Start_sendmany(o) ==
    LET r == ops[o]
        call == r.call
        fromtaddr == call.from = "taddr"
        targetAmount == Total(call.t) + Total(call.z) + call.fee
        isSingleZaddrOutput == call.t = <<>> /\ Len(call.z) = 1
        found == IF fromtaddr THEN Ascending(AvailableCoins(isSingleZaddrOutput))
                 ELSE Descending(GetFilteredNotes(IF call.from = "sprout" THEN SproutNotes ELSE SaplingNotes))
        ins == IF fromtaddr THEN SelectUtxos(found, targetAmount) ELSE SelectNotes(found, targetAmount)
        rest == ToChange(Worth(ins) - targetAmount)
        isUsingBuilder == call.from # "sprout" /\ call.to # "sprout"
        tOut == Recipients("t", call.t) \o (IF fromtaddr THEN rest ELSE <<>>)
        zOut == Recipients("z", call.z) \o (IF call.from = "sapling" THEN rest ELSE <<>>)
        begun == [Began(r) EXCEPT !.ins = ins, !.tOut = tOut]
    IN  /\ r.kind = "sendmany" /\ r.pc = "queued" /\ InTurn(o)
        /\ Becomes(o,
               IF \/ Worth(found) < targetAmount \/ ins = <<>>
                  \/ ~isUsingBuilder /\ fromtaddr /\ rest # <<>> /\ ToSet(ins) \cap Coinbase # {}
               THEN Ended(r, "FAILED")
               ELSE IF isUsingBuilder THEN [begun EXCEPT !.sOut = zOut]
               ELSE IF fromtaddr THEN [begun EXCEPT !.chain = "shield", !.due = zOut]
               ELSE [begun EXCEPT !.chain = "send", !.inputs = ins, !.due = zOut,
                                  !.vpubNewTarget = call.fee + Total(call.t)])
        /\ UNCHANGED <<calls, setLocked, txs, pendingSaplingMigrationTxs, byUser, freed>>

\* Both send all that they locked, less the fee.
Start_locked(o) ==
    LET r == ops[o]
        call == r.call
        sendAmount == Worth(r.ins) - call.fee
        utxos == SelectSeq(r.ins, LAMBDA i : i \in Coins)
        sprout == SelectSeq(r.ins, LAMBDA i : i \in SproutNotes)
        target == IF call.to = "taddr" THEN Recipients("t", <<sendAmount>>) ELSE Recipients("z", <<sendAmount>>)
        begun == IF call.to = "taddr" THEN [Began(r) EXCEPT !.tOut = target] ELSE Began(r)
    IN  /\ r.kind \in {"shieldcoinbase", "mergetoaddress"} /\ r.pc = "queued" /\ InTurn(o)
        /\ Becomes(o,
               IF sendAmount <= 0 THEN Ended(r, "FAILED")
               ELSE IF call.to = "sapling" THEN [begun EXCEPT !.sOut = target]
               ELSE IF sprout # <<>>
               THEN [begun EXCEPT !.chain = "merge", !.inputs = sprout,
                         !.vpubNewTarget = IF call.to = "taddr" THEN Worth(sprout)
                                           ELSE IF utxos = <<>> THEN call.fee ELSE 0,
                         !.vpubOldTarget = IF call.to = "taddr" \/ utxos = <<>> THEN 0
                                           ELSE Worth(utxos) - call.fee]
               ELSE IF call.to = "sprout" THEN [begun EXCEPT !.chain = "shield", !.due = target]
               ELSE begun)
        /\ UNCHANGED <<calls, setLocked, txs, pendingSaplingMigrationTxs, byUser, freed>>

\* One JoinSplit: the notes and the change it consumes, what enters from and
\* leaves to the transparent pool, and its outputs.
JSDescription(r, notes, old, new, outs, anchor) ==
    [notes |-> notes, change |-> r.jsChange, vpub_old |-> old, vpub_new |-> new,
     outs |-> SelectSeq(outs, LAMBDA x : x.value > 0), anchor |-> anchor]

\* No Sprout input: the recipients two by two, paid from the transparent pool.
ShieldJoinSplit(r) ==
    LET n == Smallest(ZC_NUM_JS_OUTPUTS, Len(r.due))
        outs == SubSeq(r.due, 1, n)
    IN  [r EXCEPT !.due = SubSeq(@, n + 1, Len(@)),
                  !.vJoinSplit = Append(@, JSDescription(r, <<>>, Paid(outs), 0, outs, <<>>))]

\* The next notes of a chain: the change of the JoinSplit before is its first input.
NextNotes(r) ==
    SubSeq(r.inputs, 1, Smallest(ZC_NUM_JS_INPUTS - (IF r.jsChange > 0 THEN 1 ELSE 0), Len(r.inputs)))
LeftNotes(r) == SubSeq(r.inputs, Len(NextNotes(r)) + 1, Len(r.inputs))

\* The commitments a witness of the chain's tree must be brought up to date with,
\* and the anchor: the change's, else the notes', else none.
PreviousCommitments(r) == IF r.jsChange = 0 THEN <<>> ELSE Append(r.previous, Len(r.vJoinSplit))
JsAnchor(r) ==
    IF r.jsChange > 0 THEN Append(Last(r.vJoinSplit).anchor, Len(r.vJoinSplit))
    ELSE IF NextNotes(r) # <<>> THEN <<>>
    ELSE NoAnchor
WitnessesAgree(r) ==
    /\ JsAnchor(r) # NoAnchor
    /\ r.jsChange > 0 /\ NextNotes(r) # <<>> => JsAnchor(r) = PreviousCommitments(r)

\* A mutant: what a recipient is still owed is forgotten.
ForgetDue(r) ==
    LET jsInputValue == r.jsChange + Worth(NextNotes(r))
        value == IF r.due = <<>> THEN 0 ELSE Head(r.due).value
        later == IF r.due = <<>> THEN <<>> ELSE Tail(r.due)
        last == later = <<>> /\ LeftNotes(r) = <<>>
        new == IF last THEN r.vpubNewTarget ELSE 0
        now == Smallest(value, jsInputValue)
        outs == (IF r.due = <<>> THEN <<>> ELSE <<[Head(r.due) EXCEPT !.value = now]>>)
                \o ToChange(jsInputValue - now - new)
    IN  IF ~WitnessesAgree(r) \/ jsInputValue - now < new THEN Ended(r, "FAILED")
        ELSE [r EXCEPT !.inputs = LeftNotes(r), !.due = later, !.jsChange = jsInputValue - now - new,
                       !.previous = PreviousCommitments(r), !.chain = IF last THEN "none" ELSE @,
                       !.vJoinSplit = Append(@, JSDescription(r, NextNotes(r), 0, new, outs, JsAnchor(r)))]

\* One recipient at a time; what the inputs cannot pay stays due, the fee and the
\* transparent outputs leave with the last JoinSplit.
SendJoinSplit(r) ==
    LET jsInputValue == r.jsChange + Worth(NextNotes(r))
        value == IF r.due = <<>> THEN 0 ELSE Head(r.due).value
        later == IF r.due = <<>> THEN <<>> ELSE Tail(r.due)
        last == later = <<>> /\ LeftNotes(r) = <<>>
        new == IF last THEN r.vpubNewTarget ELSE 0
        short == ~last /\ value > jsInputValue
        now == IF short THEN jsInputValue ELSE value
        change == jsInputValue - now - new
        outs == (IF r.due = <<>> THEN <<>> ELSE <<[Head(r.due) EXCEPT !.value = now]>>) \o ToChange(change)
    IN  IF ~WitnessesAgree(r) \/ (last /\ jsInputValue < new) THEN Ended(r, "FAILED")
        ELSE IF change < 0 THEN Ended(r, "ABORTED")
        ELSE [r EXCEPT !.inputs = LeftNotes(r),
                       !.due = IF short THEN <<[Head(r.due) EXCEPT !.value = value - now]>> \o later ELSE later,
                       !.jsChange = change,
                       !.previous = PreviousCommitments(r),
                       !.chain = IF last THEN "none" ELSE @,
                       !.vJoinSplit = Append(@, JSDescription(r, NextNotes(r), 0, new, outs, JsAnchor(r)))]

\* The transparent inputs enter with the first JoinSplit, all value gathers in the
\* change, and the last JoinSplit pays it to the target or to the transparent pool.
MergeJoinSplit(r) ==
    LET jsInputValue == r.jsChange + Worth(NextNotes(r))
        old == IF r.vJoinSplit = <<>> THEN r.vpubOldTarget ELSE 0
        last == LeftNotes(r) = <<>>
        new == IF last THEN r.vpubNewTarget ELSE 0
        change == jsInputValue + old - new
        outs == IF last THEN Recipients("z", <<change>>) ELSE ToChange(change)
    IN  IF ~WitnessesAgree(r) \/ old < 0 \/ (last /\ jsInputValue < new) THEN Ended(r, "FAILED")
        ELSE IF last /\ r.call.to = "taddr" /\ change # 0 THEN Ended(r, "ABORTED")
        ELSE [r EXCEPT !.inputs = LeftNotes(r),
                       !.jsChange = change,
                       !.previous = PreviousCommitments(r),
                       !.chain = IF last THEN "none" ELSE @,
                       !.vJoinSplit = Append(@, JSDescription(r, NextNotes(r), old, new, outs, JsAnchor(r)))]

JoinSplit(o) ==
    LET r == ops[o]
    IN  /\ r.pc = "running"
        /\ \/ r.chain = "shield" /\ r.due # <<>> /\ Becomes(o, ShieldJoinSplit(r))
           \/ r.chain = "send" /\ Becomes(o, SendJoinSplit(r))
           \/ r.chain = "merge" /\ Becomes(o, MergeJoinSplit(r))
        /\ UNCHANGED <<calls, setLocked, txs, pendingSaplingMigrationTxs, byUser, freed>>

\* The transaction of the operation is complete.
Built(r) == r.pc = "running" /\ (r.chain = "none" \/ (r.chain = "shield" /\ r.due = <<>>))

\* SendTransaction: what CommitTransaction could not send fails the operation.
SendTransaction(o) ==
    LET r == ops[o]
    IN  /\ r.kind # "saplingmigration" /\ Built(r)
        /\ \E pooled \in BOOLEAN :
               /\ CommitTransaction(o, r.ins, r.tOut, r.sOut, r.vJoinSplit, r.call.fee, pooled)
               /\ Becomes(o, Ended(r, IF pooled THEN "SUCCESS" ELSE "FAILED"))
        /\ UNCHANGED <<calls, setLocked, pendingSaplingMigrationTxs, byUser, freed>>

\* A lock, a key, a witness or a proof that is not to be had ends the operation.
Throw(o) ==
    /\ ops[o].pc = "running"
    /\ Becomes(o, Ended(ops[o], "FAILED"))
    /\ UNCHANGED <<calls, setLocked, txs, pendingSaplingMigrationTxs, byUser, freed>>

\* The last thing main() does, after the state of the operation is set.
Unlock(o) ==
    /\ ops[o].pc = "done" /\ ops[o].locks
    /\ setLocked' = setLocked \ ToSet(ops[o].ins)
    /\ ops' = [ops EXCEPT ![o].locks = FALSE]
    /\ UNCHANGED <<calls, txs, pendingSaplingMigrationTxs, byUser, freed>>

\* The pool drops a transaction, and its inputs can be chosen again.
Dropped(t) ==
    /\ txs[t].pooled
    /\ txs' = [txs EXCEPT ![t].pooled = FALSE]
    /\ UNCHANGED <<calls, ops, setLocked, pendingSaplingMigrationTxs, byUser, freed>>

-----------------------------------------------------------------------------
(* The migration of Sprout notes: an operation prepares transactions from  *)
(* height 495 modulo 500 on, the wallet sends them at height 499.          *)

Migrations == {o \in DOMAIN ops : ops[o].kind = "saplingmigration"}
Cancelled(all) ==
    [o \in DOMAIN all |-> IF Migrations # {} /\ o = Max(Migrations) THEN [all[o] EXCEPT !.state = "CANCELLED"]
                          ELSE all[o]]

\* Of two pending transactions with an input in common only one is accepted.
RECURSIVE Committed(_, _)
Committed(sent, waiting) ==
    IF waiting = <<>> THEN sent
    ELSE LET taken == UNION {ToSet(sent[t].ins) : t \in {u \in DOMAIN sent : sent[u].pooled}}
         IN  Committed(Append(sent, [Head(waiting) EXCEPT !.pooled = ToSet(Head(waiting).ins) \cap taken = {}]), Tail(waiting))

RunSaplingMigration ==
    /\ \/ /\ Called("height495")
          /\ ops' = Append(Cancelled(ops), Operation("saplingmigration", Head(calls), <<>>, FALSE))
          /\ UNCHANGED txs
       \/ /\ Called("height499")
          /\ ops' = Cancelled(ops)
          /\ txs' = Committed(txs, pendingSaplingMigrationTxs)
    /\ pendingSaplingMigrationTxs' = <<>>
    /\ UNCHANGED <<setLocked, byUser, freed>>

\* A worker finds the operation not cancelled; a cancel that comes before
\* set_state(EXECUTING) is overwritten.
Take_saplingmigration(o) ==
    /\ ops[o].kind = "saplingmigration" /\ ops[o].pc = "queued" /\ ops[o].state # "CANCELLED" /\ InTurn(o)
    /\ ops' = [ops EXCEPT ![o].pc = "taken"]
    /\ UNCHANGED <<calls, setLocked, txs, pendingSaplingMigrationTxs, byUser, freed>>

\* chooseAmount, the notes that reach it, and the builder's change.
NextMigrationTx(r, entries, amountToSend) ==
    LET fromNotes == SelectNotes(entries, amountToSend)
    IN  [r EXCEPT !.entries = SubSeq(entries, Len(fromNotes) + 1, Len(entries)),
                  !.ins = fromNotes, !.inputs = fromNotes, !.chain = "send",
                  !.sOut = Recipients("z", <<amountToSend - r.call.fee>>),
                  !.due = ToChange(Worth(fromNotes) - amountToSend),
                  !.vpubNewTarget = amountToSend,
                  !.jsChange = 0, !.previous = <<>>, !.vJoinSplit = <<>>]
chooseAmount(availableFunds) == {m * CENT : m \in 1..(availableFunds \div CENT)}

Start_saplingmigration(o) ==
    LET r == ops[o]
        entries == InOrder(GetFilteredNotes(SproutNotes))
    IN  /\ r.pc = "taken"
        /\ IF Worth(entries) < CENT THEN Becomes(o, Ended(r, "SUCCESS"))
           ELSE \E amount \in chooseAmount(Worth(entries)) :
                    Becomes(o, NextMigrationTx(Began(r), entries, amount))
        /\ UNCHANGED <<calls, setLocked, txs, pendingSaplingMigrationTxs, byUser, freed>>

\* A cancelled operation keeps what it has just built to itself.
CheckCancelled(o) ==
    LET r == ops[o]
    IN  /\ r.kind = "saplingmigration" /\ Built(r)
        /\ Becomes(o, IF r.state = "CANCELLED" THEN Ended(r, "SUCCESS") ELSE [r EXCEPT !.pc = "adding"])
        /\ UNCHANGED <<calls, setLocked, txs, pendingSaplingMigrationTxs, byUser, freed>>

AddPendingSaplingMigrationTx(o) ==
    LET r == [ops[o] EXCEPT !.created = @ + 1, !.pc = "running"]
    IN  /\ ops[o].pc = "adding"
        /\ pendingSaplingMigrationTxs' =
               Append(pendingSaplingMigrationTxs, Tx(o, r.ins, r.tOut, r.sOut, r.vJoinSplit, r.call.fee, FALSE))
        /\ IF r.created < MaxMigrationTxs /\ Worth(r.entries) > CENT
           THEN \E amount \in chooseAmount(Worth(r.entries)) : Becomes(o, NextMigrationTx(r, r.entries, amount))
           ELSE Becomes(o, Ended(r, "SUCCESS"))
        /\ UNCHANGED <<calls, setLocked, txs, byUser, freed>>

-----------------------------------------------------------------------------
Init ==
    /\ calls \in Setups
    /\ ops = <<>> /\ txs = <<>> /\ pendingSaplingMigrationTxs = <<>>
    /\ setLocked = {} /\ byUser = {} /\ freed = {}

Next ==
    \/ z_sendmany \/ z_shieldcoinbase \/ z_mergetoaddress \/ sendtoaddress \/ lockunspent
    \/ RunSaplingMigration
    \/ \E o \in DOMAIN ops :
           \/ Start_sendmany(o) \/ Start_locked(o) \/ JoinSplit(o)
           \/ SendTransaction(o) \/ Throw(o) \/ Unlock(o)
           \/ Take_saplingmigration(o) \/ Start_saplingmigration(o)
           \/ CheckCancelled(o) \/ AddPendingSaplingMigrationTx(o)
    \/ \E t \in DOMAIN txs : Dropped(t)

Spec == Init /\ [][Next]_vars

-----------------------------------------------------------------------------
(* Properties. *)

TypeOK ==
    /\ setLocked \subseteq Inputs /\ byUser \subseteq Coins /\ freed \subseteq Inputs
    /\ \A o \in DOMAIN ops :
           /\ ops[o].state \in {"READY", "EXECUTING", "CANCELLED", "FAILED", "SUCCESS", "ABORTED"}
           /\ ops[o].pc \in {"queued", "taken", "running", "adding", "done"}
    /\ \A t \in DOMAIN txs : ToSet(txs[t].ins) \subseteq Inputs /\ txs[t].pooled \in BOOLEAN

JsSum(t, f(_)) == FoldLeft(LAMBDA sum, js : sum + f(js), 0, t.vJoinSplit)
Received(t, dest) ==
    LET at(outs) == Paid(SelectSeq(outs, LAMBDA x : x.to = dest))
    IN  at(t.tOut) + at(t.sOut) + JsSum(t, LAMBDA js : at(js.outs))

\* Each JoinSplit balances, its change input is the change of the one before, the
\* notes of the transaction are consumed once each, and all together what goes in
\* comes out as outputs and fee.
Balanced(t) ==
    LET js == t.vJoinSplit
        public == SelectSeq(t.ins, LAMBDA i : i \notin SproutNotes)
    IN  /\ \A k \in DOMAIN js :
               /\ Worth(js[k].notes) + js[k].change + js[k].vpub_old = Paid(js[k].outs) + js[k].vpub_new
               /\ js[k].change > 0 => k > 1 /\ [to |-> <<"change", 0>>, value |-> js[k].change] \in ToSet(js[k - 1].outs)
        /\ FoldLeft(LAMBDA all, j : all \o j.notes, <<>>, js) = SelectSeq(t.ins, LAMBDA i : i \in SproutNotes)
        /\ Worth(public) + JsSum(t, LAMBDA j : j.vpub_new)
               = Paid(t.tOut) + Paid(t.sOut) + JsSum(t, LAMBDA j : j.vpub_old) + t.fee

\* Every recipient gets, over all the JoinSplits it takes, what the call said.
PaysTheCall(t) ==
    LET call == ops[t.op].call
    IN  CASE ops[t.op].kind = "sendmany" ->
                 /\ \A i \in DOMAIN call.t : Received(t, <<"t", i>>) = call.t[i]
                 /\ \A i \in DOMAIN call.z : Received(t, <<"z", i>>) = call.z[i]
          [] ops[t.op].kind = "saplingmigration" -> Received(t, <<"z", 1>>) > 0
          [] OTHER -> Received(t, <<IF call.to = "taddr" THEN "t" ELSE "z", 1>>) = Worth(t.ins) - call.fee

\* Whatever the notes, the recipients and the order of calls, a transaction the
\* wallet records or keeps for the migration spends its inputs once, creates and
\* destroys nothing but the fee and pays each recipient exactly; no assertion of
\* the JoinSplit chains fails, and dust is never sent.
PaymentsExact ==
    /\ \A t \in ToSet(txs) \cup ToSet(pendingSaplingMigrationTxs) :
           Balanced(t) /\ (t.op # 0 => PaysTheCall(t))
    /\ \A t \in ToSet(txs) : t.op = 0 => \A x \in ToSet(t.tOut) : ~IsDust(x.value)
    /\ \A o \in DOMAIN ops : ops[o].state # "ABORTED"

\* An input an unfinished z_shieldcoinbase or z_mergetoaddress has chosen is spent
\* by nobody else: only an operation that chose it before and does not lock, or the
\* user's own unlocking, can take it away.  A lock belongs to an unfinished
\* operation or to the user.
LocksProtect ==
    /\ \A o \in DOMAIN ops : ops[o].locks /\ ops[o].pc # "done" =>
           \A i \in ToSet(ops[o].ins) \ freed :
               /\ i \in setLocked
               /\ \A t \in DOMAIN txs : txs[t].pooled /\ i \in ToSet(txs[t].ins) =>
                      /\ txs[t].op # 0
                      /\ ops[txs[t].op].kind \in {"sendmany", "saplingmigration"}
                      /\ ops[txs[t].op].picked > ops[o].picked
    /\ setLocked \subseteq Held \cup byUser
=============================================================================
