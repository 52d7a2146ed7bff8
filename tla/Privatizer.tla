----------------------------- MODULE Privatizer -----------------------------
(***************************************************************************)
(* The privatizer (privatizer.cpp) over the asynchronous operations: a     *)
(* thread that watches the public address of each registered privatizer    *)
(* and moves what arrives there over two new shielded addresses to the     *)
(* private address, a hop at a time, each hop a z_sendmany operation some  *)
(* blocks after the one before.                                            *)
(*                                                                         *)
(* The privatizer's thread and the completion callback hold cs throughout. *)
(* The RPCs look first and take cs afterwards, so an RPC is two steps.     *)
(*                                                                         *)
(* A work holds, in place of startHeight, the number of blocks it still    *)
(* waits for.  A coin is an unspent output or note of the wallet.          *)
(***************************************************************************)
EXTENDS AsyncRPCQueue, FiniteSetsExt, SequencesExt

CONSTANTS
    Taddrs,         \* transparent addresses of this wallet
    Change,         \* the address z_sendmany sends transparent change to
    Setups,         \* [deposits, calls, mayEnd]: what is paid in, the RPCs that are made,
                    \* each one after the other, and whether the queue is ended
    Results,        \* operations whose result z_getoperationresult is asked for
    PRIVATIZER_MAX_COUNT,
    PRIVATIZER_MIN_WORK_AMOUNT,
    PRIVATIZER_TX_FEE,
    PRIVATIZER_MIN_DELAY,   \* of Z_TO_Z and Z_TO_T; T_TO_Z has no delay
    PRIVATIZER_MAX_DELAY,
    MaxOps,         \* bound: z_sendmany operations
    MayFail         \* whether main_impl may fail for reasons of its own

ASSUME AmountAssumption ==
    /\ PRIVATIZER_TX_FEE \in Nat
    /\ PRIVATIZER_MIN_WORK_AMOUNT \in Nat
    /\ PRIVATIZER_MIN_WORK_AMOUNT > 3 * PRIVATIZER_TX_FEE
ASSUME DelayAssumption == 0 < PRIVATIZER_MIN_DELAY /\ PRIVATIZER_MIN_DELAY < PRIVATIZER_MAX_DELAY
ASSUME OpidsAssumption == Opids = 1..MaxOps
ASSUME CallsAssumption ==
    \A s \in Setups : \A i \in DOMAIN s.calls :
        /\ s.calls[i].kind \in {"add", "remove", "reservePublic", "reservePrivate"}
        /\ s.calls[i].overwrite \in BOOLEAN

VARIABLES
    setup,                        \* the setup of this run of the program
    mapPublicaddrPrivatizer,      \* public address -> PrivatizerInfo or None
    mapPrivateaddrPrivatizerId,   \* private address -> public address or None
    mapOpidPrivatizerId,          \* operation -> public address or None
    reserved,    \* reservedPrivatizerPublicAddr and reservedPrivatizerPrivateAddr
    todo,        \* privatizers Run has yet to look at in this round
    rpc,         \* the RPC that has looked and not yet stored, or None
    nCalls,      \* RPCs made
    sends,       \* what each operation sends: from, destination, amount, rest
    coins,       \* [id, addr, value, confirmed]
    nZaddrs,     \* shielded addresses handed out by z_getnewaddress
    nDeposits,   \* deposits made
    abandoned    \* shielded addresses of works that removeprivatizer dropped

maps == <<mapPublicaddrPrivatizer, mapPrivateaddrPrivatizerId>>
wallet == <<coins, nZaddrs>>
privatizerVars == <<setup, maps, mapOpidPrivatizerId, reserved, todo, rpc, nCalls, sends, wallet, nDeposits, abandoned>>
vars == <<queueVars, privatizerVars>>

Zaddrs == 1..MaxOps
NoInfo == [privateAddress |-> None, workflows |-> <<>>]

Registered == {p \in Taddrs : mapPublicaddrPrivatizer[p] # NoInfo}

Init ==
    /\ QueueInit /\ setup \in Setups
    /\ mapPublicaddrPrivatizer = [p \in Taddrs |-> NoInfo]
    /\ mapPrivateaddrPrivatizerId = [p \in Taddrs |-> None]
    /\ mapOpidPrivatizerId = [o \in Opids |-> None]
    /\ reserved = [public |-> None, private |-> None]
    /\ todo = {} /\ rpc = None /\ nCalls = 0
    /\ sends = [o \in Opids |-> None]
    /\ coins = {} /\ nZaddrs = 0 /\ nDeposits = 0 /\ abandoned = {}

-----------------------------------------------------------------------------
(* The wallet's money.                                                     *)

AmountOf(c) == c.value
\* getBalanceTaddr and getBalanceZaddr with one confirmation
Spendable(a) == {c \in coins : c.addr = a /\ c.confirmed}
Balance(a) == MapThenSumSet(AmountOf, Spendable(a))

\* find_utxos and the selection in main_impl: small coins first, until the
\* target is reached.
Selected(S, target) ==
    LET sorted == SetToSortSeq(S, LAMBDA c, d : c.value < d.value \/ (c.value = d.value /\ c.id < d.id))
        Reached(n) == MapThenSumSet(AmountOf, {sorted[i] : i \in 1..n}) >= target
    IN {sorted[i] : i \in 1..Min({n \in 0..Len(sorted) : Reached(n)})}

Coin(id, a, v) == IF v = 0 THEN {} ELSE {[id |-> id, addr |-> a, value |-> v, confirmed |-> FALSE]}

\* main_impl of a z_sendmany that pays s.amount to s.dest and s.rest back to
\* s.src.  What was selected beyond that is change: transparent change goes to
\* a new key of the wallet, shielded change back to the sender.
SendmanyCovered(s) == Balance(s.src) >= s.amount + s.rest
Sent(o) ==
    LET s == sends[o]
        inputs == Selected(Spendable(s.src), s.amount + s.rest)
        change == MapThenSumSet(AmountOf, inputs) - s.amount - s.rest IN
    (coins \ inputs) \cup Coin(10 * o, s.dest, s.amount - PRIVATIZER_TX_FEE)
                     \cup Coin(10 * o + 1, s.src, s.rest)
                     \cup Coin(10 * o + 2, IF s.src \in Taddrs THEN Change ELSE s.src, change)

SendmanyImpl(w, ok) ==
    LET o == operation[w] IN
    /\ pc[w] = "impl"
    /\ ok => SendmanyCovered(sends[o])
    /\ ~ok => MayFail \/ ~SendmanyCovered(sends[o])
    /\ MainImpl(w, ok)
    /\ coins' = IF ok THEN Sent(o) ELSE coins
    /\ UNCHANGED <<setup, maps, mapOpidPrivatizerId, reserved, todo, rpc, nCalls, sends, nZaddrs, nDeposits, abandoned>>

Deposit ==
    /\ nDeposits < Len(setup.deposits)
    /\ nDeposits' = nDeposits + 1
    /\ coins' = coins \cup Coin(nDeposits', setup.deposits[nDeposits'].addr, setup.deposits[nDeposits'].value)
    /\ UNCHANGED <<setup, queueVars, maps, mapOpidPrivatizerId, reserved, todo, rpc, nCalls, sends, nZaddrs, abandoned>>

-----------------------------------------------------------------------------
(* Works.                                                                  *)

IsReady(work) == work.delay = 0 /\ work.opid = None

\* Start answers false, and is tried again later, when the source does not
\* hold the amount.
Starts(work) == IsReady(work) /\ Balance(work.src) >= work.amount

IsPendingDeposit(workflows) == \E i \in DOMAIN workflows : workflows[i].workflow = "T_TO_Z"

GetStartHeight == PRIVATIZER_MIN_DELAY..(PRIVATIZER_MAX_DELAY - 1)

\* CheckPendingWork: the first work that can be started is, with a z_sendmany
\* whose outputs are the amount and the rest of the balance.
CheckPendingWork(workflows, i, o) == [workflows EXCEPT ![i].opid = o]
Sendmany(work) ==
    [src |-> work.src, dest |-> work.dest, amount |-> work.amount, rest |-> Balance(work.src) - work.amount]

\* CheckNewDeposit
HasNewDeposit(p, workflows) == ~IsPendingDeposit(workflows) /\ Balance(p) >= PRIVATIZER_MIN_WORK_AMOUNT
NewDeposit(p, amount) ==
    [workflow |-> "T_TO_Z", delay |-> 0, opid |-> None, src |-> p, dest |-> nZaddrs + 1, amount |-> amount]

\* OnCompletedWork: the work is erased and the next hop reserved.
\* Variant for mutation: the next hop is reserved for what was sent, not for
\* what arrived.
NextWorkGross(work, private, delay) ==
    [workflow |-> IF work.workflow = "T_TO_Z" THEN "Z_TO_Z" ELSE "Z_TO_T",
     delay |-> delay, opid |-> None, src |-> work.dest,
     dest |-> IF work.workflow = "T_TO_Z" THEN nZaddrs + 1 ELSE private,
     amount |-> work.amount]
NextWork(work, private, delay) ==
    [workflow |-> IF work.workflow = "T_TO_Z" THEN "Z_TO_Z" ELSE "Z_TO_T",
     delay |-> delay, opid |-> None, src |-> work.dest,
     dest |-> IF work.workflow = "T_TO_Z" THEN nZaddrs + 1 ELSE private,
     amount |-> work.amount - PRIVATIZER_TX_FEE]

OnCompletedWork(info, o, delay) ==
    LET i == SelectInSeq(info.workflows, LAMBDA work : work.opid = o)
        rest == RemoveAt(info.workflows, i) IN
    IF info.workflows[i].workflow = "Z_TO_T" THEN rest
    ELSE Append(rest, NextWork(info.workflows[i], info.privateAddress, delay))

-----------------------------------------------------------------------------
(* The privatizer's thread: Run.                                           *)

\* The privatizers of the next round are copied under cs.
GetPrivatizers ==
    /\ todo = {} /\ Registered # {}
    /\ todo' = {<<p, mapPublicaddrPrivatizer[p].privateAddress>> : p \in Registered}
    /\ UNCHANGED <<setup, queueVars, maps, mapOpidPrivatizerId, reserved, rpc, nCalls, sends, wallet, nDeposits, abandoned>>

\* One privatizer, under cs: start a pending work, then look for a deposit.
NextOpid == Min({o \in Opids : state_[o] = "NEW"})
RunPrivatizer(item) ==
    LET p == item[1]
        info == mapPublicaddrPrivatizer[p]
        i == SelectInSeq(info.workflows, Starts)
        workflows == IF i = 0 THEN info.workflows ELSE CheckPendingWork(info.workflows, i, NextOpid)
        Store(works) == mapPublicaddrPrivatizer' = [mapPublicaddrPrivatizer EXCEPT ![p].workflows = works] IN
    /\ item \in todo
    /\ todo' = todo \ {item}
    /\ info.privateAddress = item[2]
    /\ \/ i = 0 /\ UNCHANGED <<queueVars, mapOpidPrivatizerId, sends>>
       \/ /\ i # 0
          /\ addOperation(NextOpid)
          /\ sends' = [sends EXCEPT ![NextOpid] = Sendmany(info.workflows[i])]
          /\ mapOpidPrivatizerId' = [mapOpidPrivatizerId EXCEPT ![NextOpid] = p]
    /\ \/ ~HasNewDeposit(p, workflows) /\ Store(workflows) /\ UNCHANGED nZaddrs
       \/ /\ HasNewDeposit(p, workflows)
          /\ \E amount \in PRIVATIZER_MIN_WORK_AMOUNT..Balance(p) :
                Store(Append(workflows, NewDeposit(p, amount)))
          /\ nZaddrs' = nZaddrs + 1
    /\ UNCHANGED <<setup, mapPrivateaddrPrivatizerId, reserved, rpc, nCalls, coins, nDeposits, abandoned>>

\* A privatizer that is gone, or has another private address by now.
SkipPrivatizer(item) ==
    /\ item \in todo
    /\ mapPublicaddrPrivatizer[item[1]].privateAddress # item[2]
    /\ todo' = todo \ {item}
    /\ UNCHANGED <<setup, queueVars, maps, mapOpidPrivatizerId, reserved, rpc, nCalls, sends, wallet, nDeposits, abandoned>>

\* OnFinishedZsendmany, called by the worker at the end of main().
OnFinishedZsendmany(w) ==
    LET o == operation[w]
        p == mapOpidPrivatizerId[o]
        info == mapPublicaddrPrivatizer[p]
        found == /\ p # None /\ info # NoInfo
                 /\ \E i \in DOMAIN info.workflows : info.workflows[i].opid = o IN
    /\ MainReturns(w)
    /\ \/ ~(found /\ success[w]) /\ UNCHANGED <<mapPublicaddrPrivatizer, nZaddrs>>
       \/ /\ found /\ success[w]
          /\ \E delay \in GetStartHeight :
                LET works == OnCompletedWork(info, o, delay) IN
                /\ mapPublicaddrPrivatizer' = [mapPublicaddrPrivatizer EXCEPT ![p].workflows = works]
                /\ nZaddrs' = Max({nZaddrs} \cup {works[i].dest : i \in {j \in DOMAIN works : works[j].dest \in Zaddrs}})
    /\ UNCHANGED <<setup, mapPrivateaddrPrivatizerId, mapOpidPrivatizerId, reserved, todo, rpc, nCalls, sends, coins, nDeposits, abandoned>>

-----------------------------------------------------------------------------
(* The RPCs.                                                               *)

GetPrivatizer(public, private) ==
    LET info == mapPublicaddrPrivatizer[public] IN
    IF private = None \/ info.privateAddress = private THEN info ELSE NoInfo

\* AddPrivatizer, the checks it makes before it takes cs.
MayAdd(public, private, overwrite) ==
    LET info == GetPrivatizer(public, None) IN
    /\ Cardinality(Registered) < PRIVATIZER_MAX_COUNT
    /\ public # private
    /\ mapPrivateaddrPrivatizerId[public] = None
    /\ GetPrivatizer(private, None) = NoInfo
    /\ info # NoInfo => overwrite /\ info.privateAddress # private
AddPrivatizer(public, private, info) ==
    [kind |-> "add", public |-> public, private |-> private, workflows |-> info.workflows]

\* The RPC looks: it throws or returns at once (rpc stays None), or it goes on
\* to store what it has made of what it saw.
Call ==
    LET call == setup.calls[nCalls + 1]
        both == [public |-> IF call.kind = "reservePublic" THEN call.public ELSE reserved.public,
                 private |-> IF call.kind = "reservePrivate" THEN call.private ELSE reserved.private]
        Add(public, private) ==
            IF MayAdd(public, private, call.overwrite)
            THEN AddPrivatizer(public, private, GetPrivatizer(public, None)) ELSE None IN
    /\ rpc = None /\ nCalls < Len(setup.calls)
    /\ nCalls' = nCalls + 1
    /\ \/ /\ call.kind = "add"
          /\ rpc' = Add(call.public, call.private)
          /\ UNCHANGED reserved
       \/ /\ call.kind = "remove"
          /\ LET info == GetPrivatizer(call.public, call.private) IN
             rpc' = IF info = NoInfo THEN None
                    ELSE [kind |-> "remove", public |-> call.public, private |-> info.privateAddress]
          /\ UNCHANGED reserved
       \/ /\ call.kind \in {"reservePublic", "reservePrivate"}
          /\ reserved' = both
          /\ rpc' = IF both.public # None /\ both.private # None THEN Add(both.public, both.private) ELSE None
    /\ UNCHANGED <<setup, queueVars, maps, mapOpidPrivatizerId, todo, sends, wallet, nDeposits, abandoned>>

\* A pairing that is stored clears the reserved addresses.
Cleared == IF setup.calls[nCalls].kind \in {"reservePublic", "reservePrivate"}
           THEN [public |-> None, private |-> None] ELSE reserved
StoreAdd ==
    /\ rpc # None /\ rpc.kind = "add"
    /\ mapPublicaddrPrivatizer' = [mapPublicaddrPrivatizer EXCEPT
           ![rpc.public] = [privateAddress |-> rpc.private, workflows |-> rpc.workflows]]
    /\ mapPrivateaddrPrivatizerId' = [mapPrivateaddrPrivatizerId EXCEPT ![rpc.private] = rpc.public]
    /\ reserved' = Cleared
    /\ rpc' = None
    /\ UNCHANGED <<setup, queueVars, mapOpidPrivatizerId, todo, nCalls, sends, wallet, nDeposits, abandoned>>

StoreRemove ==
    /\ rpc # None /\ rpc.kind = "remove"
    /\ mapPublicaddrPrivatizer' = [mapPublicaddrPrivatizer EXCEPT ![rpc.public] = NoInfo]
    /\ mapPrivateaddrPrivatizerId' = [mapPrivateaddrPrivatizerId EXCEPT ![rpc.private] = None]
    /\ abandoned' = abandoned \cup UNION {{work.src, work.dest} \cap Zaddrs : work \in ToSet(mapPublicaddrPrivatizer[rpc.public].workflows)}
    /\ rpc' = None
    /\ UNCHANGED <<setup, queueVars, mapOpidPrivatizerId, reserved, todo, nCalls, sends, wallet, nDeposits>>

-----------------------------------------------------------------------------
(* The chain: a block confirms what waits, and every delay is one shorter. *)

Later(workflows) == [i \in DOMAIN workflows |-> [workflows[i] EXCEPT !.delay = Max({0, @ - 1})]]
NewBlock ==
    /\ \/ \E c \in coins : ~c.confirmed
       \/ \E p \in Registered : Later(mapPublicaddrPrivatizer[p].workflows) # mapPublicaddrPrivatizer[p].workflows
    /\ coins' = {[c EXCEPT !.confirmed = TRUE] : c \in coins}
    /\ mapPublicaddrPrivatizer' = [p \in Taddrs |-> [mapPublicaddrPrivatizer[p] EXCEPT !.workflows = Later(@)]]
    /\ rpc' = IF rpc # None /\ rpc.kind = "add" THEN [rpc EXCEPT !.workflows = Later(@)] ELSE rpc
    /\ UNCHANGED <<setup, queueVars, mapPrivateaddrPrivatizerId, mapOpidPrivatizerId, reserved, todo, nCalls, sends, nZaddrs, nDeposits, abandoned>>

-----------------------------------------------------------------------------
RunThread == GetPrivatizers \/ \E item \in todo : RunPrivatizer(item) \/ SkipPrivatizer(item)

WorkerThread(w) ==
    \/ (RunWaits(w) \/ RunExits(w) \/ RunTakes(w) \/ MainChecks(w) \/ MainExecutes(w) \/ MainFinishes(w))
       /\ UNCHANGED privatizerVars
    \/ \E ok \in BOOLEAN : SendmanyImpl(w, ok)
    \/ OnFinishedZsendmany(w)

EnderThread ==
    /\ \/ cancelAllOperations \/ CancelWrites \/ CancelEnds \/ wait_for_worker_threads \/ Joined
       \/ \E o \in Opids : CancelReads(o)
    /\ UNCHANGED privatizerVars

Next ==
    \/ RunThread
    \/ \E w \in Workers : WorkerThread(w)
    \/ \E w \in Workers : Spurious(w) /\ UNCHANGED privatizerVars
    \/ (close \/ finish) /\ setup.mayEnd /\ UNCHANGED privatizerVars
    \/ EnderThread
    \/ \E o \in Results : popOperationForId(o) /\ UNCHANGED privatizerVars
    \/ Call \/ StoreAdd \/ StoreRemove
    \/ Deposit \/ NewBlock

Spec ==
    /\ Init /\ [][Next]_vars
    /\ WF_vars(RunThread)
    /\ \A w \in Workers : WF_vars(WorkerThread(w))
    /\ WF_vars(EnderThread)
    /\ WF_vars(NewBlock)

-----------------------------------------------------------------------------
(* Properties.                                                             *)

Works == UNION {ToSet(mapPublicaddrPrivatizer[p].workflows) : p \in Taddrs}
Held(a) == MapThenSumSet(AmountOf, {c \in coins : c.addr = a})

(* Money on its way is never lost sight of (Run, OnCompletedWork): what lies
   at a shielded address the privatizer has paid belongs to exactly one work,
   the one that pays the address or the one that will empty it, and is exactly
   the amount that work speaks of, whatever operations fail or are cancelled. *)
FundsFollowed ==
    \A z \in 1..nZaddrs \ abandoned :
        Held(z) > 0 =>
            \E work \in Works :
                /\ z \in {work.src, work.dest}
                /\ Held(z) = IF z = work.src THEN work.amount ELSE work.amount - PRIVATIZER_TX_FEE
                /\ \A other \in Works \ {work} : z \notin {other.src, other.dest}

(* A deposit is passed on (Run, the worker, OnFinishedZsendmany): in the end
   nothing is left to do at any public address and no work is pending, unless
   an operation failed or the queue was ended. *)
Settled ==
    /\ Works = {}
    /\ \A p \in Registered : Held(p) < PRIVATIZER_MIN_WORK_AMOUNT
DepositsArrive == <>[](Settled \/ (\E o \in Opids : state_[o] = "FAILED") \/ ender # "none")

(* closeAndWait and finishAndWait return: every worker sees the end of the
   queue, also one that was waiting or executing. *)
EndingReturns == ender # "none" ~> ender = "joined"
=============================================================================
