----------------------------- MODULE DurableStore -----------------------------
(***************************************************************************)
(* What a LevelDB database promises the node (CDBWrapper::Write, Erase and  *)
(* WriteBatch): batches are applied one after the other and each as a      *)
(* whole; a crash of the process loses no acknowledged batch; a power loss  *)
(* may lose acknowledged batches, but none that was written with fSync.    *)
(* The batch being written when the process dies may survive or not.       *)
(***************************************************************************)
EXTENDS Integers, Sequences

CONSTANTS Keys, NoGroup

VARIABLES
    base,       \* the contents when it was last opened or lost power: all on disk
    journal,    \* the batches acknowledged since, in the order of their commit
    inflight,   \* the batch that is being written, or NoGroup
    fault       \* how the process last died, "none" while it runs

vars == <<base, journal, inflight, fault>>

(* An entry is a put or a deletion of a key; the value it puts is its      *)
(* sequence number, and 0 stands for an absent key.                        *)
ValueOf(e) == IF e.del THEN 0 ELSE e.seq

Newest(ents, k) == CHOOSE e \in ents : /\ e.key = k
                                       /\ \A o \in ents : o.key = k => o.seq <= e.seq

(* The last batch that names a key decides.                                *)
Replay(contents, groups) ==
    [k \in Keys |->
        LET naming == {i \in DOMAIN groups : \E e \in groups[i].ents : e.key = k}
            last == CHOOSE i \in naming : \A j \in naming : j <= i
        IN  IF naming = {} THEN contents[k] ELSE ValueOf(Newest(groups[last].ents, k))]

Batches(groups) == {groups[i] : i \in DOMAIN groups}

Begun == IF inflight = NoGroup THEN journal ELSE Append(journal, inflight)

(* The batches a restart may find: all of them, with the one in flight or  *)
(* without it, when only the process died.                                 *)
Unacknowledged == Append(journal, [inflight EXCEPT !.sync = FALSE])

AfterProcessCrash == {journal} \cup (IF inflight = NoGroup THEN {} ELSE {Unacknowledged})

Selections(groups) ==
    {SelectSeq(groups, LAMBDA g : g \in kept) : kept \in SUBSET Batches(groups)}

(* After a power loss, any selection that keeps every batch acknowledged   *)
(* with fSync.                                                             *)
AfterPowerLoss ==
    {s \in Selections(Begun) : \A g \in Batches(journal) : g.sync => g \in Batches(s)}

Init ==
    /\ base = [k \in Keys |-> 0]
    /\ journal = << >>
    /\ inflight = NoGroup
    /\ fault = "process"

Begin ==
    /\ fault = "none" /\ inflight = NoGroup
    /\ inflight' # NoGroup
    /\ UNCHANGED <<base, journal, fault>>

Commit ==
    /\ fault = "none" /\ inflight # NoGroup
    /\ journal' = Append(journal, inflight)
    /\ inflight' = NoGroup
    /\ UNCHANGED <<base, fault>>

Refuse ==
    /\ fault = "none" /\ inflight # NoGroup
    /\ inflight' = NoGroup
    /\ UNCHANGED <<base, journal, fault>>

Crash ==
    /\ journal' \in AfterProcessCrash /\ inflight' = NoGroup
    /\ fault' = "process"
    /\ UNCHANGED base

PowerLoss ==
    /\ \E s \in AfterPowerLoss : base' = Replay(base, s)
    /\ journal' = << >> /\ inflight' = NoGroup
    /\ fault' = "power"

(* Opening the database brings all of it to disk.                          *)
Reopen ==
    /\ fault # "none" /\ fault' = "none"
    /\ base' = Replay(base, journal) /\ journal' = << >>
    /\ UNCHANGED inflight

Next == Begin \/ Commit \/ Refuse \/ Crash \/ PowerLoss \/ Reopen

Spec == Init /\ [][Next]_vars
===============================================================================
