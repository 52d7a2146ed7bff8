-------------------------- MODULE CheckQueueProofs --------------------------
(***************************************************************************)
(* The check queue of checkqueue.h is exact for every number of worker     *)
(* threads, of checks and of interruptions, and every batch size, and its  *)
(* answers are the ones CheckVerdict promises.                             *)
(***************************************************************************)
EXTENDS CheckQueue, SequenceTheorems, FiniteSetTheorems, TLAPS

Working == {t \in Threads : pc[t] = "work"}

Asleep == {t \in Threads : pc[t] \in {"wait", "notified"}}

(* A thread has a batch exactly while it works; its fOk tells of the part  *)
(* of the batch it went through and of what fAllOk was when it took it.    *)
BatchExact(t) ==
    IF pc[t] = "work"
    THEN /\ vChecks[t] # <<>>
         /\ done[t] <= Len(vChecks[t])
         /\ fOk[t] => \A i \in 1..done[t] : vChecks[t][i] \notin Bad
         /\ ~fOk[t] => added \cap Bad # {}
    ELSE vChecks[t] = <<>>

(* The inductive invariant.  A thread outside its wait is counted in       *)
(* nTotal and not in nIdle exactly while it works: one that was            *)
(* interrupted stays counted in both.                                      *)
IInv ==
    /\ TypeOK
    /\ TodoExact
    /\ Outstanding \subseteq added
    /\ added = 1..Cardinality(added)
    /\ \A t \in Threads : BatchExact(t)
    /\ ~fAllOk => added \cap Bad # {}
    /\ fAllOk => (added \ Outstanding) \cap Bad = {}
    /\ nTotal = nIdle + Cardinality(Working)
    /\ nIdle >= Cardinality(Asleep)
    /\ pc[Master] = "out" => nTodo = 0 /\ fAllOk /\ added = {}

-----------------------------------------------------------------------------
(* Sequences without repetition.                                           *)

(* A batch taken from the back of the queue and what stays in the queue    *)
(* share the checks of the queue between them.                             *)
LEMMA TakeFromBack ==
    ASSUME NEW S, NEW q \in Seq(S), IsInjective(q), NEW n \in 1..Len(q)
    PROVE  LET b == [i \in 1..n |-> q[Len(q) + 1 - i]]
               r == SubSeq(q, 1, Len(q) - n)
           IN  /\ b \in Seq(S) /\ Len(b) = n /\ b # <<>> /\ IsInjective(b)
               /\ r \in Seq(S) /\ IsInjective(r)
               /\ Range(b) \cup Range(r) = Range(q)
               /\ Range(b) \cap Range(r) = {}
<1> DEFINE b == [i \in 1..n |-> q[Len(q) + 1 - i]]
           r == SubSeq(q, 1, Len(q) - n)
<1>1. /\ Len(q) \in Nat /\ n \in Nat /\ n <= Len(q) /\ n > 0
      /\ DOMAIN q = 1..Len(q)
      /\ \A i \in 1..Len(q) : q[i] \in S
  BY SMTT(30)
<1>2. b \in Seq(S) /\ Len(b) = n /\ b # <<>>
  BY SMTT(30), <1>1
<1>3. IsInjective(b)
  BY SMTT(30), <1>1 DEF IsInjective
<1>4. /\ r \in Seq(S) /\ Len(r) = Len(q) - n
      /\ DOMAIN r = 1..(Len(q) - n)
      /\ \A i \in 1..(Len(q) - n) : r[i] = q[i]
  <2>1. PICK k \in Nat : k = Len(q) - n
    <3> HIDE DEF b, r
    <3>1. Len(q) - n \in Nat
      BY SMTT(30), <1>1
    <3> QED BY Zenon, <3>1
  <2>2. \A i \in 1..k : q[i] \in S
    BY SMTT(30), <1>1, <2>1
  <2>3. /\ SubSeq(q, 1, k) \in Seq(S)
        /\ Len(SubSeq(q, 1, k)) = IF 1 <= k THEN k - 1 + 1 ELSE 0
        /\ \A i \in 1..(k - 1 + 1) : SubSeq(q, 1, k)[i] = q[1 + i - 1]
    BY SMTT(30), <2>2, SubSeqProperties
  <2>4. r = SubSeq(q, 1, k)
    BY Zenon, <2>1
  <2> HIDE DEF r
  <2>5. Len(r) = k
    BY SMTT(30), <2>3, <2>4
  <2>6. \A i \in 1..k : r[i] = q[i]
    BY SMTT(30), <2>3, <2>4
  <2> QED BY SMTT(30), <2>1, <2>3, <2>4, <2>5, <2>6
<1> HIDE DEF r
<1>5. IsInjective(r)
  BY SMTT(30), <1>1, <1>4 DEF IsInjective
<1>6. Range(b) = {q[i] : i \in (Len(q) - n + 1)..Len(q)}
  <2>1. \A i \in 1..n : Len(q) + 1 - i \in (Len(q) - n + 1)..Len(q)
    BY SMTT(30), <1>1
  <2>2. \A i \in (Len(q) - n + 1)..Len(q) : Len(q) + 1 - i \in 1..n /\ b[Len(q) + 1 - i] = q[i]
    BY SMTT(30), <1>1
  <2> QED BY Zenon, <2>1, <2>2 DEF Range
<1>7. Range(r) = {q[i] : i \in 1..(Len(q) - n)}
  BY Zenon, <1>4 DEF Range
<1>8. Range(q) = {q[i] : i \in 1..Len(q)}
  BY Zenon, <1>1 DEF Range
<1>9. Range(b) \cup Range(r) = Range(q)
  BY SMTT(30), <1>1, <1>6, <1>7, <1>8
<1>10. Range(b) \cap Range(r) = {}
  BY SMTT(30), <1>1, <1>6, <1>7 DEF IsInjective
<1> QED BY Zenon, <1>2, <1>3, <1>4, <1>5, <1>9, <1>10 DEF r

(* A sequence without repetition has as many elements as places.           *)
LEMMA InjectiveLength ==
    ASSUME NEW S, NEW q \in Seq(S), IsInjective(q)
    PROVE  IsFiniteSet(Range(q)) /\ Cardinality(Range(q)) = Len(q)
<1>1. q \in Surjection(1..Len(q), Range(q)) /\ q \in Injection(1..Len(q), Range(q))
  BY SMTT(30) DEF Surjection, Injection, Range
<1>2. IsFiniteSet(1..Len(q)) /\ Cardinality(1..Len(q)) = Len(q)
  <2>1. Len(q) \in Nat
    BY SMTT(30)
  <2> QED BY SMTT(30), <2>1, FS_Interval
<1> QED BY Zenon, <1>1, <1>2, FS_Surjection

(* Only the empty sequence has no elements.                                *)
LEMMA EmptyRange ==
    ASSUME NEW S, NEW q \in Seq(S)
    PROVE  Range(q) = {} <=> q = <<>>
BY SMTT(30) DEF Range

(* Loop takes at least one check, and no more than the queue has and than  *)
(* nBatchSize.                                                             *)
LEMMA BatchSizeBounds ==
    ASSUME queue \in Seq(Checks), queue # <<>>,
           NEW total \in Nat, NEW idle \in Nat
    PROVE  BatchSize(total, idle) \in 1..Len(queue) /\ BatchSize(total, idle) <= nBatchSize
<1> DEFINE share == Len(queue) \div (total + idle + 1)
<1>1. Len(queue) \in Nat /\ Len(queue) > 0
  BY SMTT(30)
<1>2. total + idle + 1 \in Nat /\ total + idle + 1 > 0
  BY SMTT(30)
<1>3. share \in Nat /\ share <= Len(queue)
  <2>1. ASSUME NEW n \in Nat, NEW d \in Nat, d > 0
        PROVE  n \div d \in Nat /\ n \div d <= n
    BY SMTT(30), <2>1
  <2> QED BY Zenon, <1>1, <1>2, <2>1
<1> HIDE DEF share
<1>4. nBatchSize \in Nat /\ nBatchSize > 0
  BY SMTT(30), BatchAssumption
<1>5. \A a, b \in Nat : /\ Min({a, b}) = IF a <= b THEN a ELSE b
                        /\ Max({a, b}) = IF a <= b THEN b ELSE a
  BY SMTT(30) DEF Min, Max
<1>6. BatchSize(total, idle) = Max({1, Min({nBatchSize, share})})
  BY Zenon DEF BatchSize, share
<1>7. PICK m \in Nat : m = Min({nBatchSize, share}) /\ m <= nBatchSize /\ m <= share
  BY SMTT(30), <1>3, <1>4, <1>5
<1>8. BatchSize(total, idle) = IF 1 <= m THEN m ELSE 1
  BY Zenon, <1>5, <1>6, <1>7
<1> QED BY SMTT(30), <1>1, <1>3, <1>4, <1>7, <1>8

-----------------------------------------------------------------------------
(* Finite sets the proofs count.                                           *)

(* Threads, and so every set of threads, is finite.                        *)
LEMMA FiniteThreads ==
    IsFiniteSet(Threads) /\ IsFiniteSet(Working) /\ IsFiniteSet(Asleep)
<1>1. IsFiniteSet(Threads)
  BY Zenon, FS_AddElement, ThreadAssumption DEF Threads
<1>2. Working \in SUBSET Threads /\ Asleep \in SUBSET Threads
  BY Zenon DEF Working, Asleep
<1> QED BY Zenon, <1>1, <1>2, FS_Subset

(* Every set of checks is finite.                                          *)
LEMMA FiniteChecks ==
    ASSUME NEW C \in SUBSET Checks
    PROVE  IsFiniteSet(C) /\ Cardinality(C) \in Nat
<1>1. IsFiniteSet(Checks)
  BY SMTT(30), FS_Interval, BoundAssumption DEF Checks
<1> QED BY Zenon, <1>1, FS_Subset, FS_CardinalityType

(* The checks that are queued or in the batch of a thread other than t.    *)
Others(t) == (UNION {Range(vChecks[u]) : u \in Threads \ {t}}) \cup Range(queue)

(* The checks that are not yet through are those of a thread's batch and   *)
(* the others, and no check is both.                                       *)
LEMMA OutstandingSplits ==
    ASSUME TypeOK, TodoExact, NEW t \in Threads
    PROVE  /\ Outstanding = Range(vChecks[t]) \cup Others(t)
           /\ Range(vChecks[t]) \cap Others(t) = {}
           /\ Outstanding \subseteq Checks /\ Others(t) \subseteq Checks
           /\ Range(vChecks[t]) \subseteq Checks
<1>1. Outstanding = Range(vChecks[t]) \cup Others(t)
  BY Zenon DEF Outstanding, Others
<1>2. Range(vChecks[t]) \cap Others(t) = {}
  BY ZenonT(60) DEF TodoExact, Others
<1>3. \A u \in Threads : Range(vChecks[u]) \subseteq Checks
  <2> TAKE u \in Threads
  <2>1. vChecks[u] \in Seq(Checks)
    BY Zenon DEF TypeOK
  <2> QED BY Zenon, <2>1, RangeOfSeq
<1>4. Range(queue) \subseteq Checks
  <2>1. queue \in Seq(Checks)
    BY Zenon DEF TypeOK
  <2> QED BY Zenon, <2>1, RangeOfSeq
<1> QED BY SMTT(30), <1>1, <1>2, <1>3, <1>4 DEF Others

-----------------------------------------------------------------------------
(* One round of Loop.  Ready is what holds of the state as the statements  *)
(* before the test of queue.empty() left it: the thread is counted as      *)
(* neither idle nor gone, its last batch is accounted for.                 *)
Ready(t, total, idle, todo, ok, at) ==
    /\ total \in Nat /\ idle \in Nat /\ ok \in BOOLEAN
    /\ at \in [Threads -> {"out", "open", "start", "wait", "notified", "work", "gone"}]
    /\ \A u \in Threads \ {t} : at[u] = pc[u] \/ (pc[u] = "wait" /\ at[u] = "notified")
    /\ total = idle + Cardinality(Working \ {t}) + 1
    /\ idle >= Cardinality(Asleep \ {t})
    /\ todo = Cardinality(Others(t))
    /\ ~ok => added \cap Bad # {}
    /\ ok => (added \ Others(t)) \cap Bad = {}
    /\ pc[Master] \in {"out", "open"} => t # Master
    /\ pc[Master] = "out" => todo = 0 /\ ok

(* The threads that work and that sleep after the round of t.              *)
LEMMA CountsAfterRound ==
    ASSUME TypeOK, NEW t \in Threads,
           NEW total, NEW idle, NEW todo, NEW ok, NEW at, Ready(t, total, idle, todo, ok, at),
           NEW p \in {"out", "wait", "work"}, pc' = [at EXCEPT ![t] = p]
    PROVE  /\ Cardinality(Working') = IF p = "work" THEN Cardinality(Working \ {t}) + 1
                                             ELSE Cardinality(Working \ {t})
           /\ Cardinality(Asleep') = IF p = "wait" THEN Cardinality(Asleep \ {t}) + 1
                                             ELSE Cardinality(Asleep \ {t})
           /\ Cardinality(Working \ {t}) \in Nat /\ Cardinality(Asleep \ {t}) \in Nat
           /\ pc' \in [Threads -> {"out", "open", "start", "wait", "notified", "work", "gone"}]
           /\ \A u \in Threads \ {t} : pc'[u] = pc[u] \/ (pc[u] = "wait" /\ pc'[u] = "notified")
           /\ pc'[t] = p
<1>1. /\ at \in [Threads -> {"out", "open", "start", "wait", "notified", "work", "gone"}]
      /\ \A u \in Threads \ {t} : at[u] = pc[u] \/ (pc[u] = "wait" /\ at[u] = "notified")
  BY Zenon DEF Ready
<1>2. /\ pc' \in [Threads -> {"out", "open", "start", "wait", "notified", "work", "gone"}]
      /\ \A u \in Threads \ {t} : pc'[u] = pc[u] \/ (pc[u] = "wait" /\ pc'[u] = "notified")
      /\ pc'[t] = p
  BY Zenon, <1>1
<1>3. Working' = IF p = "work" THEN (Working \ {t}) \cup {t} ELSE Working \ {t}
  BY ZenonT(60), <1>2 DEF Working
<1>4. Asleep' = IF p = "wait" THEN (Asleep \ {t}) \cup {t} ELSE Asleep \ {t}
  BY ZenonT(60), <1>2 DEF Asleep
<1>5. /\ IsFiniteSet(Working \ {t}) /\ IsFiniteSet(Asleep \ {t})
      /\ Cardinality(Working \ {t}) \in Nat /\ Cardinality(Asleep \ {t}) \in Nat
  BY Zenon, FiniteThreads, FS_RemoveElement, FS_CardinalityType
<1>6. /\ Cardinality((Working \ {t}) \cup {t}) = Cardinality(Working \ {t}) + 1
      /\ Cardinality((Asleep \ {t}) \cup {t}) = Cardinality(Asleep \ {t}) + 1
  BY Zenon, <1>5, FS_AddElement
<1> QED BY ZenonT(60), <1>2, <1>3, <1>4, <1>5, <1>6

(* Taking a batch preserves the invariant.                                 *)
LEMMA TakeBatchStep ==
    ASSUME IInv, NEW t \in Threads,
           NEW total, NEW idle, NEW todo, NEW ok, NEW at, Ready(t, total, idle, todo, ok, at),
           TakeBatch(t, total, idle, todo, ok, at), UNCHANGED interrupts
    PROVE  IInv'
<1> DEFINE n == BatchSize(total, idle)
           b == [i \in 1..n |-> queue[Len(queue) + 1 - i]]
<1>1. TypeOK /\ TodoExact /\ \A u \in Threads : BatchExact(u)
  BY Zenon DEF IInv
<1>2. /\ queue # <<>>
      /\ vChecks' = [vChecks EXCEPT ![t] = b]
      /\ queue' = SubSeq(queue, 1, Len(queue) - n)
      /\ done' = [done EXCEPT ![t] = 0] /\ fOk' = [fOk EXCEPT ![t] = ok]
      /\ nTotal' = total /\ nIdle' = idle /\ nTodo' = todo /\ fAllOk' = ok
      /\ pc' = [at EXCEPT ![t] = "work"]
      /\ added' = added /\ answer' = answer /\ interrupts' = interrupts
  BY Zenon DEF TakeBatch
<1>3. queue \in Seq(Checks) /\ total \in Nat /\ idle \in Nat /\ ok \in BOOLEAN
  BY Zenon, <1>1 DEF TypeOK, Ready
<1>4. n \in 1..Len(queue) /\ n <= nBatchSize
  BY Zenon, <1>2, <1>3, BatchSizeBounds
<1> HIDE DEF n
<1>5. /\ b \in Seq(Checks) /\ Len(b) = n /\ b # <<>> /\ IsInjective(b)
      /\ queue' \in Seq(Checks) /\ IsInjective(queue')
      /\ Range(b) \cup Range(queue') = Range(queue)
      /\ Range(b) \cap Range(queue') = {}
  <2>1. IsInjective(queue)
    BY Zenon, <1>1 DEF TodoExact
  <2>2. LET r == SubSeq(queue, 1, Len(queue) - n)
        IN  /\ b \in Seq(Checks) /\ Len(b) = n /\ b # <<>> /\ IsInjective(b)
            /\ r \in Seq(Checks) /\ IsInjective(r)
            /\ Range(b) \cup Range(r) = Range(queue)
            /\ Range(b) \cap Range(r) = {}
    BY Zenon, <1>3, <1>4, <2>1, TakeFromBack
  <2> HIDE DEF b
  <2> QED BY ZenonT(60), <1>2, <2>2
<1> HIDE DEF b
<1>6. /\ vChecks'[t] = b
      /\ \A u \in Threads \ {t} : vChecks'[u] = vChecks[u]
      /\ vChecks' \in [Threads -> Seq(Checks)]
  BY Zenon, <1>1, <1>2, <1>5 DEF TypeOK
<1>7. Outstanding' = Others(t)
  <2>1. Outstanding' = Range(b) \cup (UNION {Range(vChecks[u]) : u \in Threads \ {t}}) \cup Range(queue')
    BY Zenon, <1>6 DEF Outstanding
  <2> QED BY Zenon, <2>1, <1>5 DEF Others
<1>8. /\ pc' \in [Threads -> {"out", "open", "start", "wait", "notified", "work", "gone"}]
      /\ \A u \in Threads \ {t} : pc'[u] = pc[u] \/ (pc[u] = "wait" /\ pc'[u] = "notified")
      /\ pc'[t] = "work"
      /\ Cardinality(Working') = Cardinality(Working \ {t}) + 1
      /\ Cardinality(Asleep') = Cardinality(Asleep \ {t})
      /\ Cardinality(Working \ {t}) \in Nat /\ Cardinality(Asleep \ {t}) \in Nat
  BY Zenon, <1>1, <1>2, CountsAfterRound
<1>9. Others(t) \subseteq Checks /\ todo \in Nat
  BY Zenon, <1>1, OutstandingSplits, FiniteChecks DEF Ready
<1>10. TypeOK'
  BY ZenonT(60), <1>1, <1>2, <1>3, <1>4, <1>5, <1>6, <1>8, <1>9 DEF TypeOK
<1>11. TodoExact'
  <2>1. nTodo' = Cardinality(Outstanding')
    BY Zenon, <1>2, <1>7 DEF Ready
  <2>2. IsInjective(queue') /\ \A u \in Threads : IsInjective(vChecks'[u])
    BY Zenon, <1>1, <1>5, <1>6 DEF TodoExact
  <2>3. \A u \in Threads : Range(vChecks'[u]) \cap Range(queue') = {}
    BY Zenon, <1>1, <1>5, <1>6 DEF TodoExact
  <2>4. \A u, v \in Threads : u # v => Range(vChecks'[u]) \cap Range(vChecks'[v]) = {}
    BY Zenon, <1>1, <1>5, <1>6 DEF TodoExact
  <2> QED BY Zenon, <2>1, <2>2, <2>3, <2>4 DEF TodoExact
<1>12. Outstanding' \subseteq added'
  BY Zenon, <1>1, <1>2, <1>7, OutstandingSplits DEF IInv
<1>13. added' = 1..Cardinality(added')
  BY Zenon, <1>2 DEF IInv
<1>14. ASSUME NEW u \in Threads PROVE BatchExact(u)'
  <2>1. CASE u = t
    <3>1. done'[t] = 0 /\ fOk'[t] = ok /\ vChecks'[t] = b
      BY Zenon, <1>1, <1>2, <1>6 DEF TypeOK
    <3>2. n \in Nat /\ 0 <= n
      BY SMTT(30), <1>3, <1>4
    <3> QED BY SMTT(30), <2>1, <3>1, <3>2, <1>2, <1>5, <1>8 DEF BatchExact, Ready
  <2>2. CASE u # t
    <3>1. done'[u] = done[u] /\ fOk'[u] = fOk[u] /\ vChecks'[u] = vChecks[u]
      BY Zenon, <1>1, <1>2, <1>6, <2>2 DEF TypeOK
    <3>2. pc'[u] = "work" <=> pc[u] = "work"
      BY Zenon, <1>8, <2>2
    <3> QED BY Zenon, <1>1, <1>2, <3>1, <3>2 DEF BatchExact
  <2> QED BY Zenon, <2>1, <2>2
<1>15. (~fAllOk => added \cap Bad # {})' /\ (fAllOk => (added \ Outstanding) \cap Bad = {})'
  BY Zenon, <1>2, <1>7 DEF Ready
<1>16. nTotal' = nIdle' + Cardinality(Working') /\ nIdle' >= Cardinality(Asleep')
  BY SMTT(30), <1>2, <1>3, <1>8 DEF Ready
<1>17. (pc[Master] = "out" => nTodo = 0 /\ fAllOk /\ added = {})'
  BY Zenon, <1>2, <1>8 DEF Ready, Threads, IInv
<1> QED BY ZenonT(60), <1>10, <1>11, <1>12, <1>13, <1>14, <1>15, <1>16, <1>17 DEF IInv

(* Going to sleep preserves the invariant.                                 *)
LEMMA SleepStep ==
    ASSUME IInv, NEW t \in Threads,
           NEW total, NEW idle, NEW todo, NEW ok, NEW at, Ready(t, total, idle, todo, ok, at),
           Sleep(t, total, idle, todo, ok, at), UNCHANGED interrupts
    PROVE  IInv'
<1>1. TypeOK /\ TodoExact /\ \A u \in Threads : BatchExact(u)
  BY Zenon DEF IInv
<1>2. /\ queue' = queue /\ vChecks' = [vChecks EXCEPT ![t] = <<>>]
      /\ done' = done /\ fOk' = fOk
      /\ nTotal' = total /\ nIdle' = idle + 1 /\ nTodo' = todo /\ fAllOk' = ok
      /\ pc' = [at EXCEPT ![t] = "wait"]
      /\ added' = added /\ answer' = answer /\ interrupts' = interrupts
  BY Zenon DEF Sleep
<1>3. total \in Nat /\ idle \in Nat /\ ok \in BOOLEAN
  BY Zenon DEF Ready
<1>4. /\ vChecks'[t] = <<>>
      /\ \A u \in Threads \ {t} : vChecks'[u] = vChecks[u]
      /\ vChecks' \in [Threads -> Seq(Checks)]
  BY SMTT(30), <1>1, <1>2 DEF TypeOK
<1>5. Range(<<>>) = {} /\ IsInjective(<<>>)
  BY SMTT(30) DEF Range, IsInjective
<1>6. Outstanding' = Others(t)
  <2>1. Outstanding' = Range(<<>>) \cup (UNION {Range(vChecks[u]) : u \in Threads \ {t}}) \cup Range(queue)
    BY ZenonT(60), <1>2, <1>4 DEF Outstanding
  <2> QED BY Zenon, <2>1, <1>5 DEF Others
<1>7. /\ pc' \in [Threads -> {"out", "open", "start", "wait", "notified", "work", "gone"}]
      /\ \A u \in Threads \ {t} : pc'[u] = pc[u] \/ (pc[u] = "wait" /\ pc'[u] = "notified")
      /\ pc'[t] = "wait"
      /\ Cardinality(Working') = Cardinality(Working \ {t})
      /\ Cardinality(Asleep') = Cardinality(Asleep \ {t}) + 1
      /\ Cardinality(Working \ {t}) \in Nat /\ Cardinality(Asleep \ {t}) \in Nat
  BY ZenonT(60), <1>1, <1>2, CountsAfterRound
<1>8. Others(t) \subseteq Checks /\ todo \in Nat
  BY Zenon, <1>1, OutstandingSplits, FiniteChecks DEF Ready
<1>9. TypeOK'
  <2>1. \A u \in Threads : Len(vChecks'[u]) <= nBatchSize
    <3>1. Len(<<>>) = 0 /\ 0 <= nBatchSize
      BY SMTT(30), BatchAssumption
    <3>2. \A u \in Threads : Len(vChecks[u]) <= nBatchSize
      BY Zenon, <1>1 DEF TypeOK
    <3> QED BY Zenon, <1>4, <3>1, <3>2
  <2> QED BY SMTT(30), <1>1, <1>2, <1>3, <1>4, <1>7, <1>8, <2>1 DEF TypeOK
<1>10. TodoExact'
  <2>1. nTodo' = Cardinality(Outstanding')
    BY Zenon, <1>2, <1>6 DEF Ready
  <2>2. IsInjective(queue') /\ \A u \in Threads : IsInjective(vChecks'[u])
    BY ZenonT(60), <1>1, <1>2, <1>4, <1>5 DEF TodoExact
  <2>3. \A u \in Threads : Range(vChecks'[u]) \cap Range(queue') = {}
    BY Zenon, <1>1, <1>2, <1>4, <1>5 DEF TodoExact
  <2>4. \A u, v \in Threads : u # v => Range(vChecks'[u]) \cap Range(vChecks'[v]) = {}
    BY Zenon, <1>1, <1>4, <1>5 DEF TodoExact
  <2> QED BY Zenon, <2>1, <2>2, <2>3, <2>4 DEF TodoExact
<1>11. Outstanding' \subseteq added' /\ added' = 1..Cardinality(added')
  BY ZenonT(60), <1>1, <1>2, <1>6, OutstandingSplits DEF IInv
<1>12. ASSUME NEW u \in Threads PROVE BatchExact(u)'
  BY ZenonT(60), <1>1, <1>2, <1>4, <1>7 DEF BatchExact
<1>13. (~fAllOk => added \cap Bad # {})' /\ (fAllOk => (added \ Outstanding) \cap Bad = {})'
  BY Zenon, <1>2, <1>6 DEF Ready
<1>14. nTotal' = nIdle' + Cardinality(Working') /\ nIdle' >= Cardinality(Asleep')
  BY SMTT(30), <1>2, <1>3, <1>7 DEF Ready
<1>15. (pc[Master] = "out" => nTodo = 0 /\ fAllOk /\ added = {})'
  BY Zenon, <1>2, <1>7 DEF Ready, Threads, IInv
<1> QED BY Zenon, <1>9, <1>10, <1>11, <1>12, <1>13, <1>14, <1>15 DEF IInv

(* The master's return preserves the invariant, and its answer is whether  *)
(* all checks that were added succeed.                                     *)
LEMMA ReturnStep ==
    ASSUME IInv, NEW t \in Threads,
           NEW total, NEW idle, NEW todo, NEW ok, NEW at, Ready(t, total, idle, todo, ok, at),
           Return(t, total, idle, todo, ok, at), UNCHANGED interrupts
    PROVE  IInv' /\ ok = (added \cap Bad = {})
<1>1. TypeOK /\ TodoExact /\ \A u \in Threads : BatchExact(u)
  BY Zenon DEF IInv
<1>2. /\ queue = <<>> /\ queue' = queue /\ vChecks' = [vChecks EXCEPT ![t] = <<>>]
      /\ t = Master /\ todo = 0
      /\ done' = done /\ fOk' = fOk
      /\ nTotal' = total - 1 /\ nIdle' = idle /\ nTodo' = 0 /\ fAllOk' = TRUE
      /\ pc' = [at EXCEPT ![t] = "out"]
      /\ added' = {} /\ answer' = ok /\ interrupts' = interrupts
  BY Zenon DEF Return
<1>3. total \in Nat /\ idle \in Nat /\ ok \in BOOLEAN
  BY Zenon DEF Ready
<1>4. Range(<<>>) = {} /\ IsInjective(<<>>)
  BY SMTT(30) DEF Range, IsInjective
<1>5. Others(t) = {}
  <2>1. IsFiniteSet(Others(t)) /\ Cardinality(Others(t)) = 0
    BY Zenon, <1>1, <1>2, OutstandingSplits, FiniteChecks DEF Ready
  <2> QED BY Zenon, <2>1, FS_EmptySet
<1>6. ASSUME NEW u \in Threads PROVE vChecks'[u] = <<>>
  <2>1. CASE u = t
    BY Zenon, <1>1, <1>2, <2>1 DEF TypeOK
  <2>2. CASE u # t
    <3>1. Range(vChecks[u]) = {}
      BY Zenon, <1>5, <2>2 DEF Others
    <3>2. vChecks[u] \in Seq(Checks)
      BY Zenon, <1>1 DEF TypeOK
    <3>3. vChecks'[u] = vChecks[u]
      BY Zenon, <1>1, <1>2, <2>2 DEF TypeOK
    <3> QED BY Zenon, <3>1, <3>2, <3>3, EmptyRange
  <2> QED BY Zenon, <2>1, <2>2
<1>7. Outstanding' = {}
  BY Zenon, <1>2, <1>4, <1>6 DEF Outstanding
<1>8. /\ pc' \in [Threads -> {"out", "open", "start", "wait", "notified", "work", "gone"}]
      /\ \A u \in Threads \ {t} : pc'[u] = pc[u] \/ (pc[u] = "wait" /\ pc'[u] = "notified")
      /\ pc'[t] = "out"
      /\ Cardinality(Working') = Cardinality(Working \ {t})
      /\ Cardinality(Asleep') = Cardinality(Asleep \ {t})
      /\ Cardinality(Working \ {t}) \in Nat /\ Cardinality(Asleep \ {t}) \in Nat
  BY Zenon, <1>1, <1>2, CountsAfterRound
<1>9. TypeOK'
  <2>1. vChecks' \in [Threads -> Seq(Checks)]
    BY Zenon, <1>1, <1>2 DEF TypeOK
  <2>2. \A u \in Threads : Len(vChecks'[u]) <= nBatchSize
    BY SMTT(30), <1>6, BatchAssumption
  <2>3. nTotal' \in Nat
    BY SMTT(30), <1>2, <1>3, <1>8 DEF Ready
  <2> QED BY Zenon, <1>1, <1>2, <1>3, <1>8, <2>1, <2>2, <2>3 DEF TypeOK
<1>10. TodoExact'
  <2>1. nTodo' = Cardinality(Outstanding')
    BY Zenon, <1>2, <1>7, FS_EmptySet
  <2> QED BY Zenon, <1>2, <1>4, <1>6, <2>1 DEF TodoExact
<1>11. Outstanding' \subseteq added' /\ added' = 1..Cardinality(added')
  BY SMTT(30), <1>2, <1>7, FS_EmptySet
<1>12. ASSUME NEW u \in Threads PROVE BatchExact(u)'
  <2>1. CASE u = t
    BY Zenon, <1>6, <1>8, <2>1 DEF BatchExact
  <2>2. CASE u # t
    <3>1. vChecks'[u] = vChecks[u]
      BY Zenon, <1>1, <1>2, <2>2 DEF TypeOK
    <3>2. pc'[u] # "work"
      BY ZenonT(60), <1>1, <1>6, <1>8, <2>2, <3>1 DEF BatchExact
    <3> QED BY ZenonT(60), <1>6, <3>2 DEF BatchExact
  <2> QED BY Zenon, <2>1, <2>2
<1>13. nTotal' = nIdle' + Cardinality(Working') /\ nIdle' >= Cardinality(Asleep')
  BY SMTT(30), <1>2, <1>3, <1>8 DEF Ready
<1>14. IInv'
  BY Zenon, <1>2, <1>7, <1>9, <1>10, <1>11, <1>12, <1>13 DEF IInv
<1>15. ok = (added \cap Bad = {})
  BY Zenon, <1>3, <1>5 DEF Ready
<1> QED BY Zenon, <1>14, <1>15

(* A thread that enters Loop is ready for its first round.                 *)
LEMMA FirstRoundReady ==
    ASSUME IInv, NEW t \in Threads, pc[t] = "start"
    PROVE  Ready(t, nTotal + 1, nIdle, nTodo, fAllOk, pc)
<1>1. TypeOK /\ TodoExact /\ BatchExact(t)
  BY Zenon DEF IInv
<1>2. vChecks[t] = <<>>
  BY Zenon, <1>1 DEF BatchExact
<1>3. Others(t) = Outstanding
  <2>1. Range(<<>>) = {}
    BY SMTT(30) DEF Range
  <2> QED BY ZenonT(60), <1>1, <1>2, <2>1, OutstandingSplits
<1>4. /\ Working \ {t} = Working /\ Asleep \ {t} = Asleep
      /\ Cardinality(Working) \in Nat
  BY Zenon, FiniteThreads, FS_CardinalityType DEF Working, Asleep
<1>5. /\ nTotal \in Nat /\ nIdle \in Nat
      /\ nTotal = nIdle + Cardinality(Working) /\ nIdle >= Cardinality(Asleep)
  BY Zenon DEF IInv, TypeOK
<1>6. nTotal + 1 \in Nat /\ nTotal + 1 = nIdle + Cardinality(Working \ {t}) + 1
  <2>1. Cardinality(Working \ {t}) = Cardinality(Working)
    BY Zenon, <1>4
  <2> QED BY SMTT(30), <1>4, <1>5, <2>1
<1>7. Ready(t, nTotal + 1, nIdle, nTodo, fAllOk, pc)
  BY ZenonT(60), <1>1, <1>3, <1>4, <1>5, <1>6 DEF Ready, IInv, TypeOK, TodoExact
<1> QED BY Zenon, <1>7

(* A thread whose wait ends is ready for its next round.                   *)
LEMMA WakeUpReady ==
    ASSUME IInv, NEW t \in Threads, pc[t] \in {"wait", "notified"}
    PROVE  Ready(t, nTotal, nIdle - 1, nTodo, fAllOk, pc)
<1>1. TypeOK /\ TodoExact /\ BatchExact(t)
  BY Zenon DEF IInv
<1>2. vChecks[t] = <<>>
  BY Zenon, <1>1 DEF BatchExact
<1>3. Others(t) = Outstanding
  <2>1. Range(<<>>) = {}
    BY SMTT(30) DEF Range
  <2> QED BY ZenonT(60), <1>1, <1>2, <2>1, OutstandingSplits
<1>4. /\ Working \ {t} = Working /\ t \in Asleep
      /\ Cardinality(Working) \in Nat
      /\ Cardinality(Asleep) \in Nat /\ Cardinality(Asleep \ {t}) \in Nat
      /\ Cardinality(Asleep \ {t}) = Cardinality(Asleep) - 1
  <2>1. Working \ {t} = Working /\ t \in Asleep
    BY Zenon DEF Working, Asleep
  <2>2. IsFiniteSet(Working) /\ IsFiniteSet(Asleep) /\ IsFiniteSet(Asleep \ {t})
    BY Zenon, FiniteThreads, FS_RemoveElement
  <2> QED BY ZenonT(60), <2>1, <2>2, FS_CardinalityType, FS_RemoveElement
<1>5. /\ nTotal \in Nat /\ nIdle \in Nat
      /\ nTotal = nIdle + Cardinality(Working) /\ nIdle >= Cardinality(Asleep)
  BY Zenon DEF IInv, TypeOK
<1>6. /\ nIdle - 1 \in Nat /\ nTotal = (nIdle - 1) + Cardinality(Working \ {t}) + 1
      /\ nIdle - 1 >= Cardinality(Asleep \ {t})
  <2>1. Cardinality(Working \ {t}) = Cardinality(Working)
    BY Zenon, <1>4
  <2> QED BY SMTT(30), <1>4, <1>5, <2>1
<1> QED BY ZenonT(60), <1>1, <1>3, <1>5, <1>6 DEF Ready, IInv, TypeOK, TodoExact

(* A thread that accounted for its batch is ready for its next round.      *)
LEMMA NextRoundReady ==
    ASSUME IInv, NEW t \in Threads,
           pc[t] = "work", done[t] = Len(vChecks[t]), NEW todo, todo = nTodo - Len(vChecks[t])
    PROVE  Ready(t, nTotal, nIdle, todo, fAllOk /\ fOk[t],
                 IF todo = 0 /\ t # Master THEN NotifyMaster(pc) ELSE pc)
<1> DEFINE at == IF todo = 0 /\ t # Master THEN NotifyMaster(pc) ELSE pc
           ok == fAllOk /\ fOk[t]
<1>1. TypeOK /\ TodoExact /\ BatchExact(t) /\ vChecks[t] \in Seq(Checks)
  BY Zenon DEF IInv, TypeOK
<1>2. /\ vChecks[t] # <<>>
      /\ fOk[t] => \A i \in 1..Len(vChecks[t]) : vChecks[t][i] \notin Bad
      /\ ~fOk[t] => added \cap Bad # {}
  BY Zenon, <1>1 DEF BatchExact
<1>3. /\ Outstanding = Range(vChecks[t]) \cup Others(t)
      /\ Range(vChecks[t]) \cap Others(t) = {}
      /\ IsFiniteSet(Others(t)) /\ Cardinality(Others(t)) \in Nat
  BY Zenon, <1>1, OutstandingSplits, FiniteChecks
<1>4. todo = Cardinality(Others(t))
  <2>1. IsFiniteSet(Range(vChecks[t])) /\ Cardinality(Range(vChecks[t])) = Len(vChecks[t])
    BY Zenon, <1>1, InjectiveLength DEF TodoExact
  <2>2. Cardinality(Outstanding) = Cardinality(Range(vChecks[t])) + Cardinality(Others(t)) - Cardinality({})
    BY SMTT(30), <1>3, <2>1, FS_Union
  <2>3. Cardinality(Outstanding) = Len(vChecks[t]) + Cardinality(Others(t)) /\ Len(vChecks[t]) \in Nat
    BY SMTT(30), <1>1, <1>3, <2>1, <2>2, FS_EmptySet
  <2>4. nTodo = Cardinality(Outstanding)
    BY Zenon, <1>1 DEF TodoExact
  <2> QED BY SMTT(30), <1>3, <2>3, <2>4
<1>5. ok \in BOOLEAN /\ (~ok => added \cap Bad # {})
  BY ZenonT(60), <1>1, <1>2 DEF IInv, TypeOK
<1>6. ok => (added \ Others(t)) \cap Bad = {}
  <2>1. fOk[t] => Range(vChecks[t]) \cap Bad = {}
    BY SMTT(30), <1>1, <1>2 DEF Range
  <2> QED BY ZenonT(60), <1>3, <2>1 DEF IInv
<1>7. /\ at \in [Threads -> {"out", "open", "start", "wait", "notified", "work", "gone"}]
      /\ \A u \in Threads \ {t} : at[u] = pc[u] \/ (pc[u] = "wait" /\ at[u] = "notified")
  BY Zenon, <1>1 DEF NotifyMaster, TypeOK
<1>8. /\ nTotal \in Nat /\ nIdle \in Nat
      /\ nTotal = nIdle + Cardinality(Working \ {t}) + 1
      /\ nIdle >= Cardinality(Asleep \ {t})
  <2>1. t \in Working /\ Asleep \ {t} = Asleep
    BY Zenon DEF Working, Asleep
  <2>2. /\ Cardinality(Working \ {t}) = Cardinality(Working) - 1
        /\ Cardinality(Working) \in Nat
    BY Zenon, <2>1, FiniteThreads, FS_RemoveElement, FS_CardinalityType
  <2>3. /\ nTotal \in Nat /\ nIdle \in Nat
        /\ nTotal = nIdle + Cardinality(Working) /\ nIdle >= Cardinality(Asleep)
    BY Zenon DEF IInv, TypeOK
  <2>4. Cardinality(Asleep \ {t}) = Cardinality(Asleep)
    BY Zenon, <2>1
  <2> QED BY SMTT(30), <2>2, <2>3, <2>4
<1>9. pc[Master] # "out"
  <2>1. Outstanding # {}
    BY ZenonT(60), <1>1, <1>2, <1>3, EmptyRange
  <2>2. IsFiniteSet(Outstanding)
    BY ZenonT(60), <1>1, OutstandingSplits, FiniteChecks
  <2> QED BY ZenonT(60), <2>1, <2>2, FS_EmptySet DEF IInv, TodoExact
<1>10. pc[Master] \in {"out", "open"} => t # Master
  BY Zenon
<1> HIDE DEF at, ok
<1>11. Ready(t, nTotal, nIdle, todo, ok, at)
  BY ZenonT(60), <1>4, <1>5, <1>6, <1>7, <1>8, <1>9, <1>10 DEF Ready
<1> QED BY Zenon, <1>11 DEF at, ok

(* What the master sees of a round: nothing, or the answer of Wait.        *)
LEMMA RoundStep ==
    ASSUME IInv, NEW t \in Threads,
           NEW total, NEW idle, NEW todo, NEW ok, NEW at, Ready(t, total, idle, todo, ok, at),
           Proceed(t, total, idle, todo, ok, at)
    PROVE  IInv' /\ [Verdict!Next]_(Verdict!vars)
<1>1. UNCHANGED interrupts
  BY Zenon DEF Proceed
<1>2. TypeOK /\ Master \in Threads
  BY Zenon DEF IInv, Threads
<1>3. CASE TakeBatch(t, total, idle, todo, ok, at)
  <2>1. IInv'
    BY Zenon, <1>1, <1>3, TakeBatchStep
  <2>2. pc' = [at EXCEPT ![t] = "work"] /\ UNCHANGED <<added, answer>>
    BY Zenon, <1>3 DEF TakeBatch
  <2>3. UNCHANGED Verdict!vars
    BY ZenonT(60), <1>2, <2>2 DEF Verdict!vars, Ready
  <2> QED BY Zenon, <2>1, <2>3
<1>4. CASE Sleep(t, total, idle, todo, ok, at)
  <2>1. IInv'
    BY Zenon, <1>1, <1>4, SleepStep
  <2>2. pc' = [at EXCEPT ![t] = "wait"] /\ UNCHANGED <<added, answer>>
    BY Zenon, <1>4 DEF Sleep
  <2>3. UNCHANGED Verdict!vars
    BY Zenon, <1>2, <2>2 DEF Verdict!vars, Ready
  <2> QED BY Zenon, <2>1, <2>3
<1>5. CASE Return(t, total, idle, todo, ok, at)
  <2>1. IInv' /\ ok = (added \cap Bad = {})
    BY Zenon, <1>1, <1>5, ReturnStep
  <2>2. t = Master /\ pc' = [at EXCEPT ![t] = "out"] /\ added' = {} /\ answer' = ok
    BY Zenon, <1>5 DEF Return
  <2>3. Verdict!Answer
    BY Zenon, <1>2, <2>1, <2>2 DEF Verdict!Answer, Ready
  <2> QED BY Zenon, <2>1, <2>3 DEF Verdict!Next
<1> QED BY ZenonT(60), <1>3, <1>4, <1>5 DEF Proceed

-----------------------------------------------------------------------------
(* The other steps.                                                        *)

(* Evaluating a check preserves the invariant.                             *)
LEMMA RunCheckStep ==
    ASSUME IInv, NEW t \in Threads, RunCheck(t)
    PROVE  IInv' /\ UNCHANGED Verdict!vars
<1>1. TypeOK /\ \A u \in Threads : BatchExact(u)
  BY Zenon DEF IInv
<1>2. /\ pc[t] = "work" /\ done[t] < Len(vChecks[t])
      /\ done' = [done EXCEPT ![t] = @ + 1]
      /\ fOk' = [fOk EXCEPT ![t] = @ /\ vChecks[t][done[t] + 1] \notin Bad]
      /\ UNCHANGED <<queue, nIdle, nTotal, fAllOk, nTodo, pc, vChecks, added, answer, interrupts>>
  BY Zenon DEF RunCheck, shared
<1>3. vChecks[t] \in Seq(Checks) /\ done[t] \in Nat /\ fOk[t] \in BOOLEAN
  BY Zenon, <1>1 DEF TypeOK
<1>4. /\ done'[t] = done[t] + 1
      /\ fOk'[t] = (fOk[t] /\ vChecks[t][done[t] + 1] \notin Bad)
      /\ \A u \in Threads \ {t} : done'[u] = done[u] /\ fOk'[u] = fOk[u]
      /\ done' \in [Threads -> Nat] /\ fOk' \in [Threads -> BOOLEAN]
  BY SMTT(30), <1>1, <1>2, <1>3 DEF TypeOK
<1>5. TypeOK'
  BY Zenon, <1>1, <1>2, <1>4 DEF TypeOK
<1>6. Outstanding' = Outstanding /\ Working' = Working /\ Asleep' = Asleep
  BY Zenon, <1>2 DEF Outstanding, Working, Asleep
<1>7. TodoExact'
  BY Zenon, <1>2, <1>6 DEF TodoExact, IInv
<1>8. vChecks[t][done[t] + 1] \in Range(vChecks[t])
  BY SMTT(30), <1>2, <1>3 DEF Range
<1>9. vChecks[t][done[t] + 1] \in added
  BY Zenon, <1>8 DEF Outstanding, IInv
<1>10. BatchExact(t)'
  <2>1. /\ vChecks[t] # <<>>
        /\ fOk[t] => \A i \in 1..done[t] : vChecks[t][i] \notin Bad
        /\ ~fOk[t] => added \cap Bad # {}
    BY Zenon, <1>1, <1>2 DEF BatchExact
  <2>2. done'[t] <= Len(vChecks'[t])
    BY SMTT(30), <1>2, <1>3, <1>4
  <2>3. fOk'[t] => \A i \in 1..done'[t] : vChecks'[t][i] \notin Bad
    <3> SUFFICES ASSUME fOk'[t], NEW i \in 1..done'[t]
                 PROVE  vChecks'[t][i] \notin Bad
      BY Zenon
    <3>1. fOk[t] /\ vChecks[t][done[t] + 1] \notin Bad
      BY Zenon, <1>4
    <3>2. i \in 1..done[t] \/ i = done[t] + 1
      BY SMTT(30), <1>3, <1>4
    <3> QED BY Zenon, <1>2, <2>1, <3>1, <3>2
  <2>4. ~fOk'[t] => added' \cap Bad # {}
    BY Zenon, <1>2, <1>4, <1>9, <2>1
  <2> QED BY Zenon, <1>2, <2>1, <2>2, <2>3, <2>4 DEF BatchExact
<1>11. \A u \in Threads \ {t} : BatchExact(u)'
  BY ZenonT(60), <1>1, <1>2, <1>4 DEF BatchExact
<1>12. IInv'
  BY ZenonT(60), <1>2, <1>5, <1>6, <1>7, <1>10, <1>11 DEF IInv
<1>13. UNCHANGED Verdict!vars
  BY Zenon, <1>2 DEF Verdict!vars
<1> QED BY Zenon, <1>12, <1>13

(* So does moving a thread that has no batch, except into its wait and out *)
(* of the master's control: the constructor of the control, the call of    *)
(* Wait and the interruptions.                                             *)
LEMMA MoveStep ==
    ASSUME IInv, NEW t \in Threads, NEW p \in {"open", "start", "gone"},
           pc[t] # "work", pc' = [pc EXCEPT ![t] = p],
           UNCHANGED <<shared, local, added, answer>>, interrupts' \in 0..MaxInterrupts
    PROVE  IInv'
<1>1. TypeOK /\ TodoExact /\ \A u \in Threads : BatchExact(u)
  BY Zenon DEF IInv
<1>2. UNCHANGED <<queue, nIdle, nTotal, fAllOk, nTodo, vChecks, done, fOk, added, answer>>
  BY Zenon DEF shared, local
<1>3. /\ pc' \in [Threads -> {"out", "open", "start", "wait", "notified", "work", "gone"}]
      /\ pc'[t] = p /\ \A u \in Threads \ {t} : pc'[u] = pc[u]
  BY Zenon, <1>1 DEF TypeOK
<1>4. Outstanding' = Outstanding
  BY Zenon, <1>2 DEF Outstanding
<1>5. Working' = Working /\ Asleep' \in SUBSET Asleep
  BY Zenon, <1>3 DEF Working, Asleep
<1>6. TypeOK'
  BY ZenonT(60), <1>1, <1>2, <1>3 DEF TypeOK
<1>7. TodoExact'
  BY Zenon, <1>1, <1>2, <1>4 DEF TodoExact
<1>8. \A u \in Threads : BatchExact(u)'
  BY Zenon, <1>1, <1>2, <1>3 DEF BatchExact
<1>9. nIdle' >= Cardinality(Asleep')
  <2>1. Cardinality(Asleep') <= Cardinality(Asleep) /\ Cardinality(Asleep) \in Nat
    BY ZenonT(60), <1>5, FiniteThreads, FS_Subset, FS_CardinalityType
  <2>2. Cardinality(Asleep') \in Nat
    BY ZenonT(60), <1>5, FiniteThreads, FS_Subset, FS_CardinalityType
  <2>3. nIdle \in Nat /\ nIdle >= Cardinality(Asleep)
    BY Zenon DEF IInv, TypeOK
  <2> QED BY SMTT(30), <1>2, <2>1, <2>2, <2>3
<1>10. (pc[Master] = "out" => nTodo = 0 /\ fAllOk /\ added = {})'
  BY Zenon, <1>2, <1>3 DEF IInv, Threads
<1> QED BY ZenonT(60), <1>2, <1>4, <1>5, <1>6, <1>7, <1>8, <1>9, <1>10 DEF IInv

(* The batches ConnectBlock adds are new checks, in a row.                 *)
LEMMA BatchIsNew ==
    ASSUME IInv, NEW b \in Batches
    PROVE  /\ b \in Seq(Checks) /\ IsInjective(b)
           /\ Range(b) = (Cardinality(added) + 1)..(Cardinality(added) + Len(b))
           /\ Range(b) \cap added = {}
           /\ added \cup Range(b) = 1..Cardinality(added \cup Range(b))
<1> DEFINE n == Cardinality(added)
<1>1. added \in SUBSET Checks /\ added = 1..n
  BY Zenon DEF IInv, TypeOK
<1>2. n \in Nat
  BY Zenon, <1>1, FiniteChecks
<1> HIDE DEF n
<1>3. PICK k \in 0..(NumChecks - n) : b = [i \in 1..k |-> n + i]
  BY Zenon DEF Batches, n
<1>4. k \in Nat /\ n + k <= NumChecks /\ NumChecks \in Nat
  BY SMTT(30), <1>2, <1>3, BoundAssumption
<1>5. b \in Seq(Checks) /\ Len(b) = k
  BY SMTT(30), <1>2, <1>3, <1>4 DEF Checks
<1>6. IsInjective(b)
  BY SMTT(30), <1>2, <1>3, <1>4 DEF IsInjective
<1>7. Range(b) = (n + 1)..(n + k)
  <2>1. \A i \in 1..k : n + i \in (n + 1)..(n + k)
    BY SMTT(30), <1>2, <1>4
  <2>2. \A j \in (n + 1)..(n + k) : j - n \in 1..k /\ n + (j - n) = j
    BY SMTT(30), <1>2, <1>4
  <2> QED BY Zenon, <1>3, <2>1, <2>2 DEF Range
<1>8. added \cup Range(b) = 1..(n + k)
  BY SMTT(30), <1>1, <1>2, <1>4, <1>7
<1>9. Cardinality(1..(n + k)) = n + k
  <2>1. n + k \in Nat
    BY SMTT(30), <1>2, <1>4
  <2>2. \A m \in Nat : Cardinality(1..m) = m
    BY SMTT(30), FS_Interval
  <2> QED BY Zenon, <2>1, <2>2
<1>10. Range(b) \cap added = {}
  BY SMTT(30), <1>1, <1>2, <1>4, <1>7
<1> QED BY ZenonT(60), <1>5, <1>6, <1>7, <1>8, <1>9, <1>10 DEF n

(* Adding checks preserves the invariant.                                  *)
LEMMA AddStep ==
    ASSUME IInv, NEW b \in Batches, Add(b)
    PROVE  IInv' /\ Verdict!Add
<1>1. TypeOK /\ TodoExact /\ \A u \in Threads : BatchExact(u)
  BY Zenon DEF IInv
<1>2. /\ pc[Master] = "open"
      /\ queue' = queue \o b /\ nTodo' = nTodo + Len(b)
      /\ added' = added \cup Range(b)
      /\ UNCHANGED <<nIdle, nTotal, fAllOk, vChecks, done, fOk, answer, interrupts>>
  BY Zenon DEF Add, local
<1>3. /\ b \in Seq(Checks) /\ IsInjective(b)
      /\ Range(b) \cap added = {}
      /\ added' = 1..Cardinality(added')
  BY Zenon, <1>2, BatchIsNew
<1>4. /\ pc' \in [Threads -> {"out", "open", "start", "wait", "notified", "work", "gone"}]
      /\ \A u \in Threads : pc'[u] = pc[u] \/ (u \in Workers /\ pc[u] = "wait" /\ pc'[u] = "notified")
  <2>1. pc \in [Threads -> {"out", "open", "start", "wait", "notified", "work", "gone"}]
    BY Zenon, <1>1 DEF TypeOK
  <2>2. NotifyWorkers(b)
    BY Zenon DEF Add
  <2> DEFINE waiting == {w \in Workers : pc[w] = "wait"}
  <2>3. CASE pc' = pc
    BY Zenon, <2>1, <2>3
  <2>4. CASE \E w \in waiting : pc' = [pc EXCEPT ![w] = "notified"]
    BY Zenon, <2>1, <2>4 DEF Threads
  <2>5. CASE pc' = [u \in Threads |-> IF u \in waiting THEN "notified" ELSE pc[u]]
    BY Zenon, <2>1, <2>5
  <2> QED BY Zenon, <2>2, <2>3, <2>4, <2>5 DEF NotifyWorkers
<1>5. pc'[Master] = "open"
  BY Zenon, <1>2, <1>4, ThreadAssumption DEF Threads
<1>6. Working' = Working /\ Asleep' = Asleep
  BY Zenon, <1>4 DEF Working, Asleep
<1>7. queue \in Seq(Checks) /\ Len(b) \in Nat /\ Range(b) \subseteq Checks
  BY SMTT(30), <1>1, <1>3, RangeOfSeq DEF TypeOK
<1>8. /\ queue' \in Seq(Checks) /\ Range(queue') = Range(queue) \cup Range(b)
  BY SMTT(30), <1>2, <1>3, <1>7, ConcatProperties, RangeConcatenation
<1>9. Outstanding' = Outstanding \cup Range(b) /\ Outstanding \cap Range(b) = {}
  BY SMTT(30), <1>2, <1>3, <1>8 DEF Outstanding, IInv
<1>10. TypeOK'
  BY SMTT(30), <1>1, <1>2, <1>4, <1>7, <1>8 DEF TypeOK
<1>11. TodoExact'
  <2>1. nTodo' = Cardinality(Outstanding')
    <3>1. IsFiniteSet(Range(b)) /\ Cardinality(Range(b)) = Len(b)
      BY Zenon, <1>3, InjectiveLength
    <3>2. Outstanding \subseteq Checks
      BY ZenonT(60), <1>1, OutstandingSplits DEF Threads
    <3>3. IsFiniteSet(Outstanding) /\ Cardinality(Outstanding) \in Nat
      BY Zenon, <3>2, FiniteChecks
    <3>4. Cardinality(Outstanding \cup Range(b)) = Cardinality(Outstanding) + Cardinality(Range(b)) - Cardinality({})
      BY SMTT(30), <1>9, <3>1, <3>3, FS_Union
    <3>5. Cardinality(Outstanding \cup Range(b)) = Cardinality(Outstanding) + Len(b)
      BY SMTT(30), <1>7, <3>1, <3>3, <3>4, FS_EmptySet
    <3> QED BY ZenonT(60), <1>1, <1>2, <1>9, <3>5 DEF TodoExact
  <2>2. IsInjective(queue')
    <3>1. Range(queue) \cap Range(b) = {}
      BY Zenon, <1>9 DEF Outstanding
    <3>2. IsInjective(queue)
      BY Zenon, <1>1 DEF TodoExact
    <3>3. /\ Len(queue) \in Nat /\ DOMAIN queue = 1..Len(queue) /\ DOMAIN b = 1..Len(b)
          /\ DOMAIN queue' = 1..(Len(queue) + Len(b))
      BY SMTT(30), <1>2, <1>3, <1>7, <1>8, ConcatProperties
    <3>4. ASSUME NEW i \in 1..(Len(queue) + Len(b))
          PROVE  queue'[i] = IF i <= Len(queue) THEN queue[i] ELSE b[i - Len(queue)]
      BY ZenonT(60), <1>2, <1>3, <1>7, ConcatProperties
    <3>5. ASSUME NEW i \in DOMAIN queue', NEW j \in DOMAIN queue', queue'[i] = queue'[j]
          PROVE  i = j
      <4>1. CASE i <= Len(queue) /\ j <= Len(queue)
        BY SMTT(30), <3>2, <3>3, <3>4, <3>5, <4>1 DEF IsInjective
      <4>2. CASE i > Len(queue) /\ j > Len(queue)
        <5>1. i - Len(queue) \in DOMAIN b /\ j - Len(queue) \in DOMAIN b
          BY SMTT(30), <1>7, <3>3, <4>2
        <5>2. b[i - Len(queue)] = b[j - Len(queue)]
          BY SMTT(30), <3>3, <3>4, <3>5, <4>2
        <5>3. i - Len(queue) = j - Len(queue)
          BY ZenonT(60), <1>3, <5>1, <5>2 DEF IsInjective
        <5> QED BY SMTT(30), <1>7, <3>3, <5>3
      <4>3. CASE i <= Len(queue) /\ j > Len(queue)
        <5>1. i \in DOMAIN queue /\ j - Len(queue) \in DOMAIN b
          BY SMTT(30), <1>7, <3>3, <4>3
        <5>2. queue[i] = b[j - Len(queue)]
          BY SMTT(30), <3>3, <3>4, <3>5, <4>3
        <5> QED BY Zenon, <3>1, <5>1, <5>2 DEF Range
      <4>4. CASE i > Len(queue) /\ j <= Len(queue)
        <5>1. j \in DOMAIN queue /\ i - Len(queue) \in DOMAIN b
          BY SMTT(30), <1>7, <3>3, <4>4
        <5>2. queue[j] = b[i - Len(queue)]
          BY SMTT(30), <3>3, <3>4, <3>5, <4>4
        <5> QED BY Zenon, <3>1, <5>1, <5>2 DEF Range
      <4> QED BY SMTT(30), <1>7, <3>3, <4>1, <4>2, <4>3, <4>4
    <3> QED BY Zenon, <3>5 DEF IsInjective
  <2>3. \A u \in Threads : Range(vChecks[u]) \cap Range(b) = {}
    BY Zenon, <1>9 DEF Outstanding
  <2>4. \A u \in Threads : Range(vChecks'[u]) \cap Range(queue') = {}
    BY ZenonT(60), <1>1, <1>2, <1>8, <2>3 DEF TodoExact
  <2> QED BY ZenonT(60), <1>1, <1>2, <2>1, <2>2, <2>4 DEF TodoExact
<1>12. Outstanding' \subseteq added'
  BY Zenon, <1>2, <1>9 DEF IInv
<1>13. \A u \in Threads : BatchExact(u)'
  BY Zenon, <1>1, <1>2, <1>4 DEF BatchExact
<1>14. (~fAllOk => added \cap Bad # {})' /\ (fAllOk => (added \ Outstanding) \cap Bad = {})'
  BY Zenon, <1>2, <1>9 DEF IInv
<1>15. IInv'
  BY ZenonT(60), <1>2, <1>3, <1>5, <1>6, <1>10, <1>11, <1>12, <1>13, <1>14 DEF IInv
<1>16. Verdict!Add
  BY Zenon, <1>2, <1>5, <1>7 DEF Verdict!Add
<1> QED BY Zenon, <1>15, <1>16

-----------------------------------------------------------------------------
(* The theorems.                                                           *)

(* The program starts in the invariant.                                    *)
LEMMA InitIInv ==
    ASSUME Init
    PROVE  IInv
<1>1. Master \in Threads /\ Range(<<>>) = {} /\ IsInjective(<<>>)
  BY SMTT(30) DEF Threads, Range, IsInjective
<1>2. /\ queue = <<>> /\ nIdle = 0 /\ nTotal = 0 /\ fAllOk = TRUE /\ nTodo = 0 /\ added = {}
      /\ pc = [t \in Threads |-> IF t = Master THEN "out" ELSE "start"]
      /\ vChecks = [t \in Threads |-> <<>>]
      /\ \A t \in Threads : vChecks[t] = <<>> /\ pc[t] # "work" /\ pc[t] \notin {"wait", "notified"}
  BY Zenon DEF Init
<1>3. Outstanding = {} /\ Working = {} /\ Asleep = {}
  BY Zenon, <1>1, <1>2 DEF Outstanding, Working, Asleep
<1>4. TypeOK
  <2>1. Len(<<>>) <= nBatchSize
    BY SMTT(30), BatchAssumption
  <2>2. \A t \in Threads : Len(vChecks[t]) <= nBatchSize
    BY Zenon, <1>2, <2>1
  <2> QED BY SMTT(30), <1>2, <2>2, BoundAssumption DEF Init, TypeOK
<1>5. TodoExact
  BY Zenon, <1>1, <1>2, <1>3, FS_EmptySet DEF TodoExact
<1>6. \A t \in Threads : BatchExact(t)
  BY Zenon, <1>2 DEF BatchExact
<1> QED BY SMTT(30), <1>2, <1>3, <1>4, <1>5, <1>6, FS_EmptySet DEF IInv

(* Every step preserves the invariant and is a step, or a stutter, of      *)
(* CheckVerdict.                                                           *)
LEMMA NextStep ==
    ASSUME IInv, [Next]_vars
    PROVE  IInv' /\ [Verdict!Next]_(Verdict!vars)
<1>1. TypeOK /\ Master \in Threads /\ Workers \subseteq Threads
  BY Zenon DEF IInv, Threads
<1>2. CASE OpenControl
  <2>1. /\ pc[Master] = "out" /\ pc' = [pc EXCEPT ![Master] = "open"]
        /\ UNCHANGED <<shared, local, added, answer, interrupts>>
    BY Zenon, <1>2 DEF OpenControl
  <2>2. IInv'
    BY Zenon, <1>1, <2>1, MoveStep DEF TypeOK
  <2>3. Verdict!Begin
    BY Zenon, <1>1, <2>1 DEF Verdict!Begin, TypeOK
  <2> QED BY Zenon, <2>2, <2>3 DEF Verdict!Next
<1>3. ASSUME NEW b \in Batches, Add(b) PROVE IInv' /\ [Verdict!Next]_(Verdict!vars)
  BY Zenon, <1>3, AddStep DEF Verdict!Next
<1>4. CASE CallWait
  <2>1. /\ pc[Master] = "open" /\ pc' = [pc EXCEPT ![Master] = "start"]
        /\ UNCHANGED <<shared, local, added, answer, interrupts>>
    BY Zenon, <1>4 DEF CallWait
  <2>2. IInv'
    BY Zenon, <1>1, <2>1, MoveStep DEF TypeOK
  <2>3. Verdict!CallWait
    BY Zenon, <1>1, <2>1 DEF Verdict!CallWait, TypeOK
  <2> QED BY Zenon, <2>2, <2>3 DEF Verdict!Next
<1>5. ASSUME NEW t \in Threads, FirstRound(t) PROVE IInv' /\ [Verdict!Next]_(Verdict!vars)
  <2>1. pc[t] = "start" /\ Proceed(t, nTotal + 1, nIdle, nTodo, fAllOk, pc)
    BY Zenon, <1>5 DEF FirstRound
  <2>2. Ready(t, nTotal + 1, nIdle, nTodo, fAllOk, pc)
    BY Zenon, <2>1, FirstRoundReady
  <2> QED BY Zenon, <2>1, <2>2, RoundStep
<1>6. ASSUME NEW t \in Threads, NextRound(t) PROVE IInv' /\ [Verdict!Next]_(Verdict!vars)
  <2> DEFINE todo == nTodo - Len(vChecks[t])
             at == IF todo = 0 /\ t # Master THEN NotifyMaster(pc) ELSE pc
  <2>1. /\ pc[t] = "work" /\ done[t] = Len(vChecks[t])
        /\ Proceed(t, nTotal, nIdle, todo, fAllOk /\ fOk[t], at)
    BY Zenon, <1>6 DEF NextRound
  <2>2. Ready(t, nTotal, nIdle, todo, fAllOk /\ fOk[t], at)
    BY Zenon, <2>1, NextRoundReady
  <2> HIDE DEF todo, at
  <2> QED BY Zenon, <2>1, <2>2, RoundStep
<1>7. ASSUME NEW t \in Threads, pc[t] \in {"wait", "notified"}, WakeUp(t)
      PROVE  IInv' /\ [Verdict!Next]_(Verdict!vars)
  <2>1. Ready(t, nTotal, nIdle - 1, nTodo, fAllOk, pc)
    BY Zenon, <1>7, WakeUpReady
  <2> QED BY Zenon, <1>7, <2>1, RoundStep DEF WakeUp
<1>8. ASSUME NEW t \in Threads, RunCheck(t) PROVE IInv' /\ [Verdict!Next]_(Verdict!vars)
  BY Zenon, <1>8, RunCheckStep
<1>9. ASSUME NEW w \in Workers, InterruptWorker(w) PROVE IInv' /\ [Verdict!Next]_(Verdict!vars)
  <2>1. /\ pc[w] \in {"wait", "notified"} /\ pc' = [pc EXCEPT ![w] = "gone"]
        /\ UNCHANGED <<shared, local, added, answer, interrupts>>
    BY Zenon, <1>9 DEF InterruptWorker
  <2>2. IInv'
    BY Zenon, <1>1, <2>1, MoveStep DEF TypeOK
  <2>3. w # Master
    BY Zenon, ThreadAssumption
  <2>4. UNCHANGED Verdict!vars
    BY Zenon, <1>1, <2>1, <2>3 DEF Verdict!vars, TypeOK
  <2> QED BY Zenon, <2>2, <2>4
<1>10. CASE InterruptMaster
  <2>1. /\ pc[Master] \in {"wait", "notified"} /\ pc' = [pc EXCEPT ![Master] = "start"]
        /\ interrupts < MaxInterrupts /\ interrupts' = interrupts + 1
        /\ UNCHANGED <<shared, local, added, answer>>
    BY Zenon, <1>10 DEF InterruptMaster
  <2>2. interrupts' \in 0..MaxInterrupts
    BY SMTT(30), <1>1, <2>1, BoundAssumption DEF TypeOK
  <2>3. IInv'
    BY Zenon, <1>1, <2>1, <2>2, MoveStep
  <2>4. UNCHANGED Verdict!vars
    BY Zenon, <1>1, <2>1 DEF Verdict!vars, TypeOK
  <2> QED BY Zenon, <2>3, <2>4
<1>11. CASE UNCHANGED vars
  <2>1. /\ UNCHANGED <<queue, nIdle, nTotal, fAllOk, nTodo, pc, vChecks, done, fOk>>
        /\ UNCHANGED <<added, answer, interrupts>>
    BY Zenon, <1>11 DEF vars, shared, local
  <2>2. /\ Outstanding' = Outstanding /\ Working' = Working /\ Asleep' = Asleep
        /\ \A t \in Threads : BatchExact(t)' <=> BatchExact(t)
    BY Zenon, <2>1 DEF Outstanding, Working, Asleep, BatchExact
  <2>3. IInv'
    BY Zenon, <2>1, <2>2 DEF IInv, TypeOK, TodoExact
  <2>4. UNCHANGED Verdict!vars
    BY Zenon, <2>1 DEF Verdict!vars
  <2> QED BY Zenon, <2>3, <2>4
<1> QED BY ZenonT(60), <1>2, <1>3, <1>4, <1>5, <1>6, <1>7, <1>8, <1>9, <1>10, <1>11
       DEF Next, Loop, Notified, Spurious

(* The queue is exact at every step of its threads: no check is lost, in   *)
(* two batches or counted twice in nTodo, no batch is larger than          *)
(* nBatchSize, and the assertion IsIdle of the CCheckQueueControl          *)
(* constructor holds whenever the master may open a control, also after    *)
(* interruptions that left nIdle and nTotal as they were.                  *)
THEOREM Exactness ==
    Spec => []QueueExact
<1>1. Init => IInv
  BY Zenon, InitIInv
<1>2. IInv /\ [Next]_vars => IInv'
  BY Zenon, NextStep
<1>3. IInv => QueueExact
  <2> SUFFICES ASSUME IInv, pc[Master] = "out" PROVE nTotal = nIdle
    BY Zenon DEF QueueExact, IdleBetweenBlocks, IsIdle, IInv
  <2>1. Outstanding = {}
    <3>1. Outstanding \subseteq added /\ added = {}
      BY Zenon DEF IInv
    <3> QED BY Zenon, <3>1
  <2>2. ASSUME NEW t \in Threads PROVE pc[t] # "work"
    <3>1. vChecks[t] \in Seq(Checks) /\ BatchExact(t)
      BY Zenon DEF IInv, TypeOK
    <3>2. Range(vChecks[t]) = {}
      BY Zenon, <2>1 DEF Outstanding
    <3> QED BY Zenon, <3>1, <3>2, EmptyRange DEF BatchExact
  <2>3. Working = {}
    BY Zenon, <2>2 DEF Working
  <2>4. nTotal = nIdle + Cardinality({}) /\ nTotal \in Nat /\ nIdle \in Nat
    BY Zenon, <2>3 DEF IInv, TypeOK
  <2> QED BY SMTT(30), <2>4, FS_EmptySet
<1> QED BY <1>1, <1>2, <1>3, PTL DEF Spec

(* CCheckQueue implements CheckVerdict: what Wait returns to the thread    *)
(* that connects a block is whether all checks added under its control     *)
(* succeed, whatever batches the threads take, in whichever order they     *)
(* finish, sleep, wake without reason and are interrupted.                 *)
THEOREM Refinement ==
    Spec => AnswersVerdict
<1>1. Init => IInv
  BY Zenon, InitIInv
<1>2. IInv /\ [Next]_vars => IInv'
  BY Zenon, NextStep
<1>3. Init => Verdict!Init
  BY Zenon DEF Init, Verdict!Init, Threads
<1>4. IInv /\ [Next]_vars => [Verdict!Next]_(Verdict!vars)
  BY Zenon, NextStep
<1> QED BY <1>1, <1>2, <1>3, <1>4, PTL DEF Spec, AnswersVerdict, Verdict!Spec
=============================================================================
