----------------------------- MODULE TenantStatus -----------------------------
(***************************************************************************)
(* The Tenant object as the API server stores it, and the pure functions   *)
(* of the controller on it: conditions (pkg/conditions), the phase         *)
(* (reconcilePhase) and the two merge patches of PatchIfExists.            *)
(*                                                                         *)
(* There is one tenant name.  A user may delete the tenant and create it   *)
(* again under the same name: each incarnation has a uid of its own, and   *)
(* a record with exists = FALSE keeps the uid of the last incarnation, so  *)
(* that uids only grow.                                                    *)
(***************************************************************************)
EXTENDS Integers

CONSTANTS
    MaxUid,           \* bound: incarnations of the tenant
    Times,            \* readings of the clock that conditions are stamped with
    OtherFinalizers   \* finalizers that other controllers put on the tenant

TenantFinalizer == "tenancy.kcp.io/tenants"

ASSUME MaxUidAssumption == MaxUid \in Nat
ASSUME TimesAssumption == Times \subseteq Nat \ {0} /\ Times # {}
ASSUME FinalizerAssumption == TenantFinalizer \notin OtherFinalizers

Finalizers == {TenantFinalizer} \cup OtherFinalizers

Phases == {"", "Pending", "Provisioning", "Provisioned", "Ready", "Failed",
           "Terminating"}

ConditionTypes == {"Provisioned", "Ready"}

\* metav1.Condition of one type; "Absent" when the list has no such entry.
\* Reason and message are a function of type and status in this code.
Condition == [status: {"Absent", "False", "True"}, time: Times \cup {0}]

Tenant == [exists: BOOLEAN, uid: 0..MaxUid, finalizers: SUBSET Finalizers,
           deleting: BOOLEAN, phase: Phases,
           conds: [ConditionTypes -> Condition]]

NoConditions == [c \in ConditionTypes |-> [status |-> "Absent", time |-> 0]]

\* What a read by name finds when incarnation uid is gone (0: never created).
Gone(uid) == [exists |-> FALSE, uid |-> uid, finalizers |-> {},
              deleting |-> FALSE, phase |-> "", conds |-> NoConditions]

\* A tenant as the API server first stores it.
Created(uid) == [Gone(uid) EXCEPT !.exists = TRUE]

-----------------------------------------------------------------------------
(* pkg/conditions *)

Has(t, type)     == t.conds[type].status # "Absent"
IsTrue(t, type)  == t.conds[type].status = "True"
IsFalse(t, type) == t.conds[type].status = "False"

\* Set keeps the time stamp of a condition whose state does not change, and
\* stamps a new or a changed one with the clock.
Mark(t, type, status, now) ==
    IF t.conds[type].status = status
    THEN t
    ELSE [t EXCEPT !.conds[type] = [status |-> status, time |-> now]]

-----------------------------------------------------------------------------
(* pkg/controllers *)

\* Mutant of NeedsProvisioning: a failed attempt is not repeated.
NeedsProvisioningOnce(t) == ~Has(t, "Provisioned")

\* reconcileNormal provisions only when this holds.
NeedsProvisioning(t) == ~Has(t, "Provisioned") \/ IsFalse(t, "Provisioned")

\* Mutants of PhaseOf: a phase of the API's comment that is none of its
\* constants, and the last assignment forgotten.
PhaseOfRunning(t) ==
    IF IsTrue(t, "Ready") THEN "Running" ELSE t.phase

PhaseOfNotTerminating(t) ==
    CASE IsTrue(t, "Ready")  -> "Ready"
      [] IsFalse(t, "Ready") -> "Failed"
      [] ~Has(t, "Ready") /\ IsTrue(t, "Provisioned")  -> "Provisioned"
      [] ~Has(t, "Ready") /\ IsFalse(t, "Provisioned") -> "Provisioning"
      [] OTHER -> IF t.phase = "" THEN "Pending" ELSE t.phase

\* reconcilePhase: the assignments of the code in reverse, the last one wins.
PhaseOf(t) ==
    CASE t.deleting                -> "Terminating"
      [] ~t.deleting /\ IsTrue(t, "Ready")  -> "Ready"
      [] ~t.deleting /\ IsFalse(t, "Ready") -> "Failed"
      [] ~t.deleting /\ ~Has(t, "Ready") /\ IsTrue(t, "Provisioned")  -> "Provisioned"
      [] ~t.deleting /\ ~Has(t, "Ready") /\ IsFalse(t, "Provisioned") -> "Provisioning"
      [] OTHER -> IF t.phase = "" THEN "Pending" ELSE t.phase

ReconcilePhase(t) == [t EXCEPT !.phase = PhaseOf(t)]

-----------------------------------------------------------------------------
(* pkg/controllerutil, PatchIfExists: the merge patches hold what differs   *)
(* between the second read (before) and the object the callback overwrote   *)
(* with the first one (mem); a list is replaced whole.                      *)

MetadataDiffers(before, mem) == mem.finalizers # before.finalizers

StatusDiffers(before, mem) ==
    mem.phase # before.phase \/ mem.conds # before.conds

\* The API server removes a deleting object with its last finalizer.
WithFinalizers(t, finalizers) ==
    IF t.deleting /\ finalizers = {}
    THEN Gone(t.uid)
    ELSE [t EXCEPT !.finalizers = finalizers]

StatusPatched(t, before, mem) ==
    [t EXCEPT !.phase = IF mem.phase # before.phase THEN mem.phase ELSE @,
              !.conds = IF mem.conds # before.conds THEN mem.conds ELSE @]
===============================================================================
