---------------------------- MODULE TenantLifecycle ----------------------------
(***************************************************************************)
(* What the tenant controller promises, without how it gets there: no      *)
(* work queue, no informer, no pass of Reconcile, no patches.              *)
(*                                                                         *)
(* An incarnation of the tenant is adopted (the controller's finalizer     *)
(* goes on) before anything is built for it, it is let go only after its   *)
(* deletion was asked for, and what was built for it is collected once it  *)
(* is gone, never before, unless it stands in the namespace of an          *)
(* incarnation that is gone.                                               *)
(***************************************************************************)
EXTENDS Integers

CONSTANTS
    MaxUid,    \* bound: incarnations of the tenant
    Objects    \* the objects of a control plane, "namespace" among them

VARIABLES
    uid,       \* the last incarnation, 0 before the first one
    stage,     \* where it is in its life
    owner      \* the incarnation that an object was built for, Absent: no object

vars == <<uid, stage, owner>>

Absent == 0

\* new: without the controller's finalizer; held: with it; going: with it,
\* deletion asked for; released: without it, others still hold on to it.
Stages == {"absent", "new", "held", "going", "released"}

Init ==
    /\ uid = 0
    /\ stage = "absent"
    /\ owner = [o \in Objects |-> Absent]

-----------------------------------------------------------------------------
Create ==
    /\ stage = "absent"
    /\ uid < MaxUid
    /\ uid' = uid + 1
    /\ stage' = "new"
    /\ UNCHANGED owner

Adopt ==
    /\ stage = "new"
    /\ stage' = "held"
    /\ UNCHANGED <<uid, owner>>

Delete ==
    /\ \/ stage = "new"  /\ stage' \in {"absent", "released"}
       \/ stage = "held" /\ stage' = "going"
    /\ UNCHANGED <<uid, owner>>

Release ==
    /\ stage = "going"
    /\ stage' \in {"absent", "released"}
    /\ UNCHANGED <<uid, owner>>

Vanish ==
    /\ stage = "released"
    /\ stage' = "absent"
    /\ UNCHANGED <<uid, owner>>

\* The tenant may be going already when a pass that began before builds on.
Build(o) ==
    /\ stage \in {"held", "going"}
    /\ owner[o] = Absent
    /\ o # "namespace" => owner["namespace"] # Absent
    /\ owner' = [owner EXCEPT ![o] = uid]
    /\ UNCHANGED <<uid, stage>>

Gone(u) == u # Absent /\ (u # uid \/ stage = "absent")

Collect(o) ==
    /\ owner[o] # Absent
    /\ Gone(owner[o]) \/ Gone(owner["namespace"])
    /\ o = "namespace" => \A p \in Objects \ {o} : owner[p] = Absent
    /\ owner' = [owner EXCEPT ![o] = Absent]
    /\ UNCHANGED <<uid, stage>>

Next ==
    \/ Create \/ Adopt \/ Delete \/ Release \/ Vanish
    \/ \E o \in Objects : Build(o) \/ Collect(o)

Spec == Init /\ [][Next]_vars

\* A tenant that is asked for gets adopted, one that is going is let go, and
\* what belongs to nobody is collected.
Fairness ==
    /\ WF_vars(Adopt)
    /\ WF_vars(Release)
    /\ WF_vars(\E o \in Objects : Collect(o))

FairSpec == Spec /\ Fairness

-----------------------------------------------------------------------------
\* Nothing stands for an incarnation that has not been adopted: an object that
\* carries its uid was built under its finalizer.
NothingBeforeAdoption ==
    stage = "new" => \A o \in Objects : owner[o] # uid
===============================================================================
