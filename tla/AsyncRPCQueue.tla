--------------------------- MODULE AsyncRPCQueue ---------------------------
(***************************************************************************)
(* The queue of asynchronous RPC operations (asyncrpcqueue.cpp) and the    *)
(* life of one operation (asyncrpcoperation.cpp and the main() methods of  *)
(* the wallet's operations).                                               *)
(*                                                                         *)
(* A critical section of lock_ is one step, except cancelAllOperations,    *)
(* which holds lock_ while it reads and writes the state of one operation  *)
(* after the other.  state_ is an atomic variable that workers write       *)
(* without a lock, so each read and each write of it is a step.            *)
(***************************************************************************)
EXTENDS Integers, Sequences, FiniteSets

CONSTANTS
    Workers,    \* worker threads
    Opids,      \* operation ids
    None,       \* no operation
    Endings     \* how the queue is ended: "close", "finish"

ASSUME EndingsAssumption == Endings \subseteq {"close", "finish"}
ASSUME NoneAssumption == None \notin Opids

VARIABLES
    closed_, finish_,
    lock_,                 \* held by cancelAllOperations
    operation_map_,        \* ids of the operations in the map
    operation_id_queue_,
    state_,                \* of each operation; NEW before it exists
    pc, operation, success,\* of each worker
    ender,                 \* where the thread that ends the queue is
    toCancel, cancelling   \* cancelAllOperations: what is left, what was READY

queue == <<closed_, finish_, lock_, operation_map_, operation_id_queue_>>
worker == <<pc, operation, success>>
ending == <<ender, toCancel, cancelling>>
queueVars == <<queue, state_, worker, ending>>

Finished(o) == state_[o] \in {"CANCELLED", "FAILED", "SUCCESS"}

QueueInit ==
    /\ closed_ = FALSE /\ finish_ = FALSE /\ lock_ = FALSE
    /\ operation_map_ = {} /\ operation_id_queue_ = <<>>
    /\ state_ = [o \in Opids |-> "NEW"]
    /\ pc = [w \in Workers |-> "loop"]
    /\ operation = [w \in Workers |-> None]
    /\ success = [w \in Workers |-> FALSE]
    /\ ender = "none" /\ toCancel = {} /\ cancelling = None

-----------------------------------------------------------------------------
(* Callers.                                                                *)

Waiting == {w \in Workers : pc[w] = "wait"}
\* Variant for mutation: no worker is told.
NotifyNobody == pc' = pc
NotifyOne == IF Waiting = {} THEN pc' = pc ELSE \E w \in Waiting : pc' = [pc EXCEPT ![w] = "loop"]
NotifyAll == pc' = [w \in Workers |-> IF pc[w] = "wait" THEN "loop" ELSE pc[w]]

\* A new operation is READY; a queue that is closed or finishing drops it.
addOperation(o) ==
    /\ state_[o] = "NEW" /\ ~lock_
    /\ state_' = [state_ EXCEPT ![o] = "READY"]
    /\ \/ /\ closed_ \/ finish_
          /\ UNCHANGED <<operation_map_, operation_id_queue_, pc>>
       \/ /\ ~closed_ /\ ~finish_
          /\ operation_map_' = operation_map_ \cup {o}
          /\ operation_id_queue_' = Append(operation_id_queue_, o)
          /\ NotifyOne
    /\ UNCHANGED <<closed_, finish_, lock_, operation, success, ending>>

\* z_getoperationresult takes finished operations out of the map.
popOperationForId(o) ==
    /\ ~lock_ /\ o \in operation_map_ /\ Finished(o)
    /\ operation_map_' = operation_map_ \ {o}
    /\ UNCHANGED <<closed_, finish_, lock_, operation_id_queue_, state_, worker, ending>>

-----------------------------------------------------------------------------
(* A worker: run(), and main() of the operation it took.                   *)

Go(w, from, to) == pc[w] = from /\ pc' = [pc EXCEPT ![w] = to]

\* Variant for mutation: the wait does not look at finish_ and closed_.
WaitsForeverOn == operation_id_queue_ = <<>>
WaitsOn == operation_id_queue_ = <<>> /\ ~closed_ /\ ~finish_

RunWaits(w) ==
    /\ ~lock_ /\ WaitsOn
    /\ Go(w, "loop", "wait")
    /\ UNCHANGED <<queue, state_, operation, success, ending>>

RunExits(w) ==
    /\ ~lock_ /\ ~WaitsOn
    /\ closed_ \/ (finish_ /\ operation_id_queue_ = <<>>)
    /\ operation_id_queue_' = <<>>
    /\ Go(w, "loop", "exit")
    /\ UNCHANGED <<closed_, finish_, lock_, operation_map_, state_, operation, success, ending>>

RunTakes(w) ==
    /\ ~lock_ /\ operation_id_queue_ # <<>> /\ ~closed_
    /\ LET key == Head(operation_id_queue_)
           found == key \in operation_map_ IN
       /\ operation' = [operation EXCEPT ![w] = IF found THEN key ELSE None]
       /\ Go(w, "loop", IF found THEN "main" ELSE "loop")
    /\ operation_id_queue_' = Tail(operation_id_queue_)
    /\ UNCHANGED <<closed_, finish_, lock_, operation_map_, state_, success, ending>>

\* A wait may end without a notification; the loop looks again.
Spurious(w) ==
    /\ Go(w, "wait", "loop")
    /\ UNCHANGED <<queue, state_, operation, success, ending>>

\* isCancelled(), in run() and again at the top of main().
MainChecks(w) ==
    /\ Go(w, "main", IF state_[operation[w]] = "CANCELLED" THEN "loop" ELSE "set")
    /\ UNCHANGED <<queue, state_, operation, success, ending>>

MainExecutes(w) ==
    /\ Go(w, "set", "impl")
    /\ state_' = [state_ EXCEPT ![operation[w]] = "EXECUTING"]
    /\ UNCHANGED <<queue, operation, success, ending>>

\* main_impl() answers or throws; what it does is the operation's matter.
MainImpl(w, ok) ==
    /\ Go(w, "impl", "done")
    /\ success' = [success EXCEPT ![w] = ok]
    /\ UNCHANGED <<queue, state_, operation, ending>>

MainFinishes(w) ==
    /\ Go(w, "done", "callback")
    /\ state_' = [state_ EXCEPT ![operation[w]] = IF success[w] THEN "SUCCESS" ELSE "FAILED"]
    /\ UNCHANGED <<queue, operation, success, ending>>

\* The end of main(), with OnFinishedZsendmany for a z_sendmany.
MainReturns(w) ==
    /\ Go(w, "callback", "loop")
    /\ UNCHANGED <<queue, state_, operation, success, ending>>

-----------------------------------------------------------------------------
(* The thread that ends the queue: closeAndWait, finishAndWait.            *)

close ==
    /\ ender = "none" /\ "close" \in Endings
    /\ closed_' = TRUE
    /\ ender' = "cancel"
    /\ UNCHANGED <<finish_, lock_, operation_map_, operation_id_queue_, state_, worker, toCancel, cancelling>>

finish ==
    /\ ender = "none" /\ "finish" \in Endings
    /\ finish_' = TRUE
    /\ ender' = "notify"
    /\ UNCHANGED <<closed_, lock_, operation_map_, operation_id_queue_, state_, worker, toCancel, cancelling>>

cancelAllOperations ==
    /\ ender = "cancel" /\ ~lock_
    /\ lock_' = TRUE
    /\ toCancel' = operation_map_
    /\ ender' = "cancelling"
    /\ UNCHANGED <<closed_, finish_, operation_map_, operation_id_queue_, state_, worker, cancelling>>

\* cancel(): isReady() and set_state() are two accesses of state_.
CancelReads(o) ==
    /\ ender = "cancelling" /\ cancelling = None /\ o \in toCancel
    /\ toCancel' = toCancel \ {o}
    /\ cancelling' = IF state_[o] = "READY" THEN o ELSE None
    /\ UNCHANGED <<queue, state_, worker, ender>>

CancelWrites ==
    /\ ender = "cancelling" /\ cancelling # None
    /\ state_' = [state_ EXCEPT ![cancelling] = "CANCELLED"]
    /\ cancelling' = None
    /\ UNCHANGED <<queue, worker, ender, toCancel>>

CancelEnds ==
    /\ ender = "cancelling" /\ cancelling = None /\ toCancel = {}
    /\ lock_' = FALSE
    /\ NotifyAll
    /\ ender' = "notify"
    /\ UNCHANGED <<closed_, finish_, operation_map_, operation_id_queue_, state_, operation, success, toCancel, cancelling>>

wait_for_worker_threads ==
    /\ ender = "notify" /\ ~lock_
    /\ NotifyAll
    /\ ender' = "join"
    /\ UNCHANGED <<queue, state_, operation, success, toCancel, cancelling>>

Joined ==
    /\ ender = "join" /\ \A w \in Workers : pc[w] = "exit"
    /\ ender' = "joined"
    /\ UNCHANGED <<queue, state_, worker, toCancel, cancelling>>

=============================================================================
