------------------------------ MODULE TableSpec ------------------------------
(***************************************************************************)
(* What the reception of tables promises to the automation: the "on table"  *)
(* event announces transmissions in their order, each whole - or, after a   *)
(* fault, two that are not: the one the fault hit and the one that follows. *)
(***************************************************************************)
EXTENDS Integers, Sequences

CONSTANTS Tables, Whole(_, _)   \* Whole(t, v): the rows of transmission v of table t

VARIABLES
    version,    \* the transmission of a table that is under way or comes next
    credit,     \* how many of the next announcements need not be whole
    announced   \* the last announcement of a table

vars == <<version, credit, announced>>

Init ==
    /\ version = [t \in Tables |-> 1]
    /\ credit = [t \in Tables |-> 0]
    /\ announced = [t \in Tables |-> [version |-> 0, rows |-> <<>>]]

(* A line is lost, or somebody else changes the table meanwhile. *)
Fault(t) ==
    /\ credit' = [credit EXCEPT ![t] = 2]
    /\ UNCHANGED <<version, announced>>

(* Transmissions end without their last line. *)
CutOff(cut) ==
    /\ version' = [t \in Tables |-> IF t \in cut THEN version[t] + 1 ELSE version[t]]
    /\ credit' = [t \in Tables |-> IF t \in cut THEN 1 ELSE credit[t]]
    /\ UNCHANGED announced

Announce(t) ==
    /\ announced' = [announced EXCEPT ![t] = [version |-> version[t], rows |-> announced'[t].rows]]
    /\ credit[t] = 0 => announced'[t].rows = Whole(t, version[t])
    /\ version' = [version EXCEPT ![t] = @ + 1]
    /\ credit' = [credit EXCEPT ![t] = IF @ = 0 THEN 0 ELSE @ - 1]

Next ==
    \/ \E t \in Tables : Fault(t) \/ Announce(t)
    \/ \E cut \in SUBSET Tables : CutOff(cut)

Spec == Init /\ [][Next]_vars

=============================================================================
