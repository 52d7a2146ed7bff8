------------------------------ MODULE MCLevelDB -------------------------------
(***************************************************************************)
(* A small LevelDB: two writing threads, three keys, a memtable that is full *)
(* after one write, three levels.                                          *)
(***************************************************************************)
EXTENDS LevelDB

CONSTANTS t1, t2

Put(k) == [key |-> k, del |-> FALSE]

Delete(k) == [key |-> k, del |-> TRUE]

Batches == {<<Put(1), Put(3)>>, <<Delete(1)>>}

Budget(batches, seq, threads, sync, crashes, errors, iterators) ==
    [batches |-> batches, seq |-> seq, threads |-> threads, sync |-> sync,
     crashes |-> crashes, errors |-> errors, iterators |-> iterators]

(* Long histories of one writer; an iterator; two writers and a crash; an  *)
(* error and a crash; two crashes.                                         *)
MCBudgets ==
    {Budget(Batches, 5, {t1}, {FALSE}, 0, 0, FALSE),
     Budget(Batches \cup {<<Put(2)>>}, 4, {t1}, {FALSE}, 0, 0, TRUE),
     Budget(Batches, 3, {t1, t2}, BOOLEAN, 1, 0, FALSE),
     Budget(Batches, 3, {t1}, BOOLEAN, 1, 1, FALSE),
     Budget(Batches, 2, {t1}, BOOLEAN, 2, 0, FALSE)}

MCMaxBytesForLevel == <<2, 3, 9>>
===============================================================================
