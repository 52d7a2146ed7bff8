---------------------------- MODULE CheckVerdict ----------------------------
(***************************************************************************)
(* What a check queue promises to the thread that connects a block: it     *)
(* opens a control, adds checks, and waits; the answer of the wait is      *)
(* whether all the checks added under this control succeed.                *)
(***************************************************************************)
CONSTANTS Checks, Bad

VARIABLES stage, added, answer

vars == <<stage, added, answer>>

Init == stage = "none" /\ added = {} /\ answer = TRUE

Begin == stage = "none" /\ stage' = "open" /\ UNCHANGED <<added, answer>>

Add ==
    /\ stage = "open"
    /\ \E b \in SUBSET Checks : added' = added \cup b
    /\ UNCHANGED <<stage, answer>>

CallWait == stage = "open" /\ stage' = "waiting" /\ UNCHANGED <<added, answer>>

Answer ==
    /\ stage = "waiting"
    /\ stage' = "none"
    /\ answer' = (added \cap Bad = {})
    /\ added' = {}

Next == Begin \/ Add \/ CallWait \/ Answer

Spec == Init /\ [][Next]_vars
=============================================================================
