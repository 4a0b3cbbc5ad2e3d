----------------------------- MODULE ConditionMap -----------------------------
(***************************************************************************)
(* What the conditions of an object promise: for each type at most one     *)
(* condition, with the time of its last change.  Mark is TenantStatus's,   *)
(* on which the model of the tenant controller is built.                   *)
(***************************************************************************)
EXTENDS TenantStatus

CONSTANT Types    \* the types that conditions may have

VARIABLES
    conds,    \* type -> status and time of the last change
    now       \* the clock

Statuses == {"True", "False", "Unknown"}

NoCondition == [status |-> "Absent", time |-> 0]

Init ==
    /\ conds = [t \in Types |-> NoCondition]
    /\ now \in Times

Marked(t, status) ==
    /\ conds' = Mark([conds |-> conds], t, status, now).conds
    /\ UNCHANGED now

Deleted(t) ==
    /\ conds' = [conds EXCEPT ![t] = NoCondition]
    /\ UNCHANGED now

Passes == now' \in Times /\ UNCHANGED conds

Next ==
    \/ \E t \in Types : Deleted(t) \/ \E s \in Statuses : Marked(t, s)
    \/ Passes

Spec == Init /\ [][Next]_<<conds, now>>
===============================================================================
