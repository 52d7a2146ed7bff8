----------------------------- MODULE CheckQueue -----------------------------
(***************************************************************************)
(* CCheckQueue and CCheckQueueControl (checkqueue.h): the script checks of *)
(* a block, evaluated by a pool of worker threads and by the thread that   *)
(* connects the block (the master), which joins the pool when it waits.    *)
(*                                                                         *)
(* A step is a critical section under the queue's mutex, up to where the   *)
(* thread releases it, or one check evaluated outside it.  The threads are *)
(* boost threads: waiting on a condition variable may end without a        *)
(* notification, and shutdown interrupts it with an exception.             *)
(***************************************************************************)
EXTENDS Integers, Sequences, FiniteSets, FiniteSetsExt, Functions

CONSTANTS
    Workers,        \* threads running Thread()
    Master,         \* the thread that holds cs_main, not one of Workers
    NumChecks,      \* bound: checks of a block, numbered as they are added
    Bad,            \* the checks that fail
    nBatchSize,     \* largest batch a thread takes, at least 1
    MaxInterrupts   \* bound: waits of the master that are interrupted

Threads == Workers \cup {Master}

Checks == 1..NumChecks

(* checkqueue.h's nBatchSize is at least one, and the master is not one of *)
(* the finitely many threads of the pool.                                  *)
ASSUME ThreadAssumption == IsFiniteSet(Workers) /\ Master \notin Workers
ASSUME BatchAssumption == nBatchSize \in Nat \ {0}
ASSUME BoundAssumption == NumChecks \in Nat /\ MaxInterrupts \in Nat

VARIABLES
    queue,      \* checks nobody has taken, used as a stack
    nIdle, nTotal, fAllOk, nTodo,
    pc,         \* where each thread is
    vChecks,    \* the batch of each thread
    done,       \* checks of its batch the thread has gone through
    fOk,        \* fOk of each thread
    added,      \* history: the checks added since the control was opened
    answer,     \* what the last Wait returned
    interrupts  \* waits of the master that were interrupted

shared == <<queue, nIdle, nTotal, fAllOk, nTodo>>
local  == <<vChecks, done, fOk>>
vars   == <<shared, pc, local, added, answer, interrupts>>

(* pc of a thread: "start" before its first critical section, "wait" and   *)
(* "notified" inside cond.wait, "work" outside the mutex with a batch,     *)
(* "gone" after an interruption.  The master is "out" without a control    *)
(* and "open" while it adds.                                               *)
Init ==
    /\ queue = <<>> /\ nIdle = 0 /\ nTotal = 0 /\ fAllOk = TRUE /\ nTodo = 0
    /\ pc = [t \in Threads |-> IF t = Master THEN "out" ELSE "start"]
    /\ vChecks = [t \in Threads |-> <<>>]
    /\ done = [t \in Threads |-> 0]
    /\ fOk = [t \in Threads |-> TRUE]
    /\ added = {}
    /\ answer = TRUE
    /\ interrupts = 0

-----------------------------------------------------------------------------
(* The critical section of Loop, from the test of queue.empty().  total,   *)
(* idle, todo, ok and at are nTotal, nIdle, nTodo, fAllOk and pc as the    *)
(* statements before it left them.                                         *)

(* Variant for mutation: a thread takes all there is.                      *)
BatchSizeOfAll(total, idle) == Max({1, Len(queue)})

BatchSize(total, idle) ==
    Max({1, Min({nBatchSize, Len(queue) \div (total + idle + 1)})})

(* Takes nNow checks from the back of the queue.                           *)
TakeBatch(t, total, idle, todo, ok, at) ==
    LET nNow == BatchSize(total, idle)
    IN  /\ queue # <<>>
        /\ vChecks' = [vChecks EXCEPT ![t] = [i \in 1..nNow |-> queue[Len(queue) + 1 - i]]]
        /\ queue' = SubSeq(queue, 1, Len(queue) - nNow)
        /\ done' = [done EXCEPT ![t] = 0]
        /\ fOk' = [fOk EXCEPT ![t] = ok]
        /\ nTotal' = total /\ nIdle' = idle /\ nTodo' = todo /\ fAllOk' = ok
        /\ pc' = [at EXCEPT ![t] = "work"]
        /\ UNCHANGED <<added, answer>>

(* fQuit is never set, so only the master returns.                         *)
Return(t, total, idle, todo, ok, at) ==
    /\ queue = <<>> /\ t = Master /\ todo = 0
    /\ nTotal' = total - 1 /\ nIdle' = idle /\ nTodo' = todo
    /\ answer' = ok /\ added' = {}
    /\ fAllOk' = TRUE
    /\ pc' = [at EXCEPT ![t] = "out"]
    /\ vChecks' = [vChecks EXCEPT ![t] = <<>>]
    /\ UNCHANGED <<queue, done, fOk>>

Sleep(t, total, idle, todo, ok, at) ==
    /\ queue = <<>> /\ ~(t = Master /\ todo = 0)
    /\ nTotal' = total /\ nIdle' = idle + 1 /\ nTodo' = todo /\ fAllOk' = ok
    /\ pc' = [at EXCEPT ![t] = "wait"]
    /\ vChecks' = [vChecks EXCEPT ![t] = <<>>]
    /\ UNCHANGED <<queue, done, fOk, added, answer>>

Proceed(t, total, idle, todo, ok, at) ==
    /\ \/ TakeBatch(t, total, idle, todo, ok, at)
       \/ Return(t, total, idle, todo, ok, at)
       \/ Sleep(t, total, idle, todo, ok, at)
    /\ UNCHANGED interrupts

-----------------------------------------------------------------------------
(* Loop                                                                    *)

FirstRound(t) ==
    /\ pc[t] = "start"
    /\ Proceed(t, nTotal + 1, nIdle, nTodo, fAllOk, pc)

(* condMaster.notify_one: the master may be in its wait or not.            *)
NotifyMaster(at) == [at EXCEPT ![Master] = IF @ = "wait" THEN "notified" ELSE @]

(* Variant for mutation: the result of the batch replaces fAllOk.          *)
NextRoundOverwrites(t) ==
    /\ pc[t] = "work"
    /\ done[t] = Len(vChecks[t])
    /\ LET todo == nTodo - Len(vChecks[t])
       IN  Proceed(t, nTotal, nIdle, todo, fOk[t],
                   IF todo = 0 /\ t # Master THEN NotifyMaster(pc) ELSE pc)

(* Variant for mutation: the worker that ends the last batch is silent.    *)
NextRoundSilent(t) ==
    /\ pc[t] = "work"
    /\ done[t] = Len(vChecks[t])
    /\ Proceed(t, nTotal, nIdle, nTodo - Len(vChecks[t]), fAllOk /\ fOk[t], pc)

(* The cleanup of the last batch, then the next round.                     *)
NextRound(t) ==
    /\ pc[t] = "work"
    /\ done[t] = Len(vChecks[t])
    /\ LET todo == nTodo - Len(vChecks[t])
       IN  Proceed(t, nTotal, nIdle, todo, fAllOk /\ fOk[t],
                   IF todo = 0 /\ t # Master THEN NotifyMaster(pc) ELSE pc)

(* The wait ends, with or without a notification.                          *)
WakeUp(t) == Proceed(t, nTotal, nIdle - 1, nTodo, fAllOk, pc)

Notified(t) == pc[t] = "notified" /\ WakeUp(t)

Spurious(t) == pc[t] = "wait" /\ WakeUp(t)

RunCheck(t) ==
    /\ pc[t] = "work"
    /\ done[t] < Len(vChecks[t])
    /\ done' = [done EXCEPT ![t] = @ + 1]
    /\ fOk' = [fOk EXCEPT ![t] = @ /\ vChecks[t][done[t] + 1] \notin Bad]
    /\ UNCHANGED <<shared, pc, vChecks, added, answer, interrupts>>

(* Shutdown interrupts a worker in its wait: the exception leaves Loop     *)
(* with nIdle and nTotal as they are.                                      *)
InterruptWorker(w) ==
    /\ pc[w] \in {"wait", "notified"}
    /\ pc' = [pc EXCEPT ![w] = "gone"]
    /\ UNCHANGED <<shared, local, added, answer, interrupts>>

(* The exception unwinds the master through ~CCheckQueueControl, which     *)
(* calls Wait again because fDone is not set.                              *)
InterruptMaster ==
    /\ interrupts < MaxInterrupts
    /\ pc[Master] \in {"wait", "notified"}
    /\ pc' = [pc EXCEPT ![Master] = "start"]
    /\ interrupts' = interrupts + 1
    /\ UNCHANGED <<shared, local, added, answer>>

-----------------------------------------------------------------------------
(* The master, connecting a block.                                         *)

IsIdle == nTotal = nIdle /\ nTodo = 0 /\ fAllOk

(* The CCheckQueueControl constructor asserts IsIdle.                      *)
OpenControl ==
    /\ pc[Master] = "out"
    /\ IsIdle
    /\ pc' = [pc EXCEPT ![Master] = "open"]
    /\ UNCHANGED <<shared, local, added, answer, interrupts>>

(* condWorker.notify_one or notify_all, according to the size of b.        *)
NotifyWorkers(b) ==
    LET waiting == {w \in Workers : pc[w] = "wait"}
    IN  IF Len(b) = 0 \/ waiting = {} THEN pc' = pc
        ELSE IF Len(b) = 1 THEN \E w \in waiting : pc' = [pc EXCEPT ![w] = "notified"]
        ELSE pc' = [t \in Threads |-> IF t \in waiting THEN "notified" ELSE pc[t]]

Add(b) ==
    /\ pc[Master] = "open"
    /\ queue' = queue \o b
    /\ nTodo' = nTodo + Len(b)
    /\ NotifyWorkers(b)
    /\ added' = added \cup Range(b)
    /\ UNCHANGED <<nIdle, nTotal, fAllOk, local, answer, interrupts>>

(* Wait, called by ConnectBlock or by the destructor on an early return.   *)
CallWait ==
    /\ pc[Master] = "open"
    /\ pc' = [pc EXCEPT ![Master] = "start"]
    /\ UNCHANGED <<shared, local, added, answer, interrupts>>

-----------------------------------------------------------------------------
(* The checks ConnectBlock adds for one transaction, maybe none.           *)
Batches ==
    LET n == Cardinality(added)
    IN  {[i \in 1..k |-> n + i] : k \in 0..(NumChecks - n)}

Loop(t) == FirstRound(t) \/ NextRound(t) \/ Notified(t) \/ RunCheck(t)

Next ==
    \/ OpenControl
    \/ \E b \in Batches : Add(b)
    \/ CallWait
    \/ \E t \in Threads : Loop(t) \/ Spurious(t)
    \/ \E w \in Workers : InterruptWorker(w)
    \/ InterruptMaster

Spec == Init /\ [][Next]_vars

(* A thread that can run is run: the mutex is free between steps, and the  *)
(* scheduler is fair.  A wait ends only when it is notified; nothing is    *)
(* assumed of spurious wakeups, and the master need not call Wait.         *)
FairSpec == Spec /\ \A t \in Threads : WF_vars(Loop(t))
-----------------------------------------------------------------------------
(* The variables have their types; a batch is never larger than            *)
(* nBatchSize, the size Loop reserves for vChecks.                         *)
TypeOK ==
    /\ queue \in Seq(Checks)
    /\ nIdle \in Nat /\ nTotal \in Nat /\ fAllOk \in BOOLEAN /\ nTodo \in Nat
    /\ pc \in [Threads -> {"out", "open", "start", "wait", "notified", "work", "gone"}]
    /\ vChecks \in [Threads -> Seq(Checks)]
    /\ \A t \in Threads : Len(vChecks[t]) <= nBatchSize
    /\ done \in [Threads -> Nat]
    /\ fOk \in [Threads -> BOOLEAN]
    /\ added \in SUBSET Checks
    /\ answer \in BOOLEAN
    /\ interrupts \in 0..MaxInterrupts

Outstanding == (UNION {Range(vChecks[t]) : t \in Threads}) \cup Range(queue)

(* No check is lost or evaluated twice: nTodo is the number of checks that *)
(* are queued or in a batch, and no check is in two places.                *)
TodoExact ==
    /\ nTodo = Cardinality(Outstanding)
    /\ IsInjective(queue)
    /\ \A t \in Threads :
         /\ IsInjective(vChecks[t])
         /\ Range(vChecks[t]) \cap Range(queue) = {}
         /\ \A u \in Threads \ {t} : Range(vChecks[t]) \cap Range(vChecks[u]) = {}

(* The assertion of the CCheckQueueControl constructor holds whenever a    *)
(* block may be connected, also after threads were interrupted in a wait.  *)
IdleBetweenBlocks == pc[Master] = "out" => IsIdle

(* The safety of the queue between any two steps of its threads.           *)
QueueExact == TypeOK /\ TodoExact /\ IdleBetweenBlocks

Verdict == INSTANCE CheckVerdict WITH
    stage <- IF pc[Master] = "out" THEN "none" ELSE IF pc[Master] = "open" THEN "open" ELSE "waiting"

(* Wait answers whether all checks added under the control succeed: no     *)
(* failure is forgotten, none is left over for the next block, and Wait    *)
(* does not return while a check of the block is still in a batch.         *)
AnswersVerdict == Verdict!Spec

(* Once the master waits, Wait returns: a notification is never missed.    *)
WaitReturns == pc[Master] = "start" ~> pc[Master] = "out"
=============================================================================
