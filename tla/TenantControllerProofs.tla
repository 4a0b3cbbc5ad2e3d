----------------------- MODULE TenantControllerProofs -----------------------
(***************************************************************************)
(* Theorems about the tenant controller that hold for every number of      *)
(* incarnations, every lag of the informer, every set of other finalizers  *)
(* and every number of failures and restarts.                              *)
(***************************************************************************)
EXTENDS TenantController, TLAPS

-----------------------------------------------------------------------------
(* The operators on tenants return tenants. *)

\* A tenant that is gone is a tenant record.
LEMMA GoneType ==
    ASSUME NEW uid \in 0..MaxUid
    PROVE  Gone(uid) \in Tenant
BY DEF Gone, Tenant, NoConditions, Condition, Phases

\* So is one that was just created.
LEMMA CreatedType ==
    ASSUME NEW uid \in 0..MaxUid
    PROVE  Created(uid) \in Tenant
<1>1. [Gone(uid) EXCEPT !.exists = TRUE] \in Tenant
  BY DEF Gone, Tenant, NoConditions, Condition, Phases
<1> QED
  BY <1>1 DEF Created

\* Setting a condition keeps the record's type.
LEMMA MarkType ==
    ASSUME NEW t \in Tenant, NEW type \in ConditionTypes,
           NEW status \in {"True", "False"}, NEW now \in Times
    PROVE  Mark(t, type, status, now) \in Tenant
<1> DEFINE c == [status |-> status, time |-> now]
<1>1. c \in Condition
  BY DEF Condition
<1>2. [t.conds EXCEPT ![type] = c] \in [ConditionTypes -> Condition]
  BY <1>1 DEF Tenant
<1>3. [t EXCEPT !.conds[type] = c] \in Tenant
  BY <1>2 DEF Tenant
<1> QED
  BY <1>3 DEF Mark

\* So does reconcilePhase.
LEMMA ReconcilePhaseType ==
    ASSUME NEW t \in Tenant
    PROVE  ReconcilePhase(t) \in Tenant
<1>1. PhaseOf(t) \in Phases
  BY DEF PhaseOf, Phases, Tenant, Has, IsTrue, IsFalse
<1> QED
  BY <1>1 DEF ReconcilePhase, Tenant

\* So does a write of the finalizers, which may remove the tenant.
LEMMA WithFinalizersType ==
    ASSUME NEW t \in Tenant, NEW fs \in SUBSET Finalizers
    PROVE  WithFinalizers(t, fs) \in Tenant
BY GoneType DEF WithFinalizers, Tenant

\* So does a status patch, whatever it was computed from.
LEMMA StatusPatchedType ==
    ASSUME NEW t \in Tenant, NEW b \in Tenant, NEW mem \in Tenant
    PROVE  StatusPatched(t, b, mem) \in Tenant
BY DEF StatusPatched, Tenant

-----------------------------------------------------------------------------
(* The building blocks of the actions keep the types of what they change. *)

\* The informer's tenant and the stored one are tenants.
LEMMA VersionsType ==
    ASSUME TenantTypeOK
    PROVE  Shown \in Tenant /\ Stored \in Tenant
BY DEF TenantTypeOK, Shown, Stored

\* A write of a tenant keeps the bound on the informer's lag.
LEMMA StoreType ==
    ASSUME TenantTypeOK, NEW t \in Tenant, Store(t)
    PROVE  versions' \in Seq(Tenant) /\ Len(versions') \in 1..MaxLag
BY BoundsAssumption DEF TenantTypeOK, Store

LEMMA StoreByOthersType ==
    ASSUME TenantTypeOK, NEW t \in Tenant, StoreByOthers(t)
    PROVE  TenantTypeOK'
BY StoreType DEF StoreByOthers, TenantTypeOK

LEMMA FaultType ==
    ASSUME SpentTypeOK, Fault
    PROVE  SpentTypeOK'
BY BoundsAssumption DEF SpentTypeOK, Fault

\* The order has seven children and two of them are checked.
LEMMA OrderLength == Len(Order) = 7 /\ Len(Checks) = 2 /\ Len(Order) \in Nat
BY DEF Order, Checks

LEMMA IdleType ==
    ASSUME IdleWorker
    PROVE  WorkerTypeOK'
<1>1. Gone(0) \in Tenant
  <2>1. 0 \in 0..MaxUid
    BY MaxUidAssumption
  <2> QED
    BY <2>1, GoneType
<1>2. pc' \in PCs /\ step' \in 1..Len(Order) /\ pc' # "check"
  BY OrderLength DEF IdleWorker, PCs
<1>3. read' \in Tenant /\ tenant' \in Tenant /\ before' \in Tenant
  BY <1>1 DEF IdleWorker
<1>4. signer' \in CAs \cup {0} /\ reterr' \in BOOLEAN /\ requeue' \in BOOLEAN
  BY DEF IdleWorker
<1> QED
  BY <1>2, <1>3, <1>4 DEF WorkerTypeOK

LEMMA ReturnType ==
    ASSUME NEW failed \in BOOLEAN, QueueTypeOK, WorkerTypeOK, Return(failed)
    PROVE  WorkerTypeOK' /\ QueueTypeOK' /\ rv' = "none"
BY IdleType DEF Return, QueueTypeOK, WorkerTypeOK

LEMMA LeaveType ==
    ASSUME NEW t \in Tenant, NEW failed \in BOOLEAN, NEW after \in BOOLEAN,
           Leave(t, failed, after), read' \in Tenant, before' \in Tenant
    PROVE  WorkerTypeOK'
BY OrderLength DEF Leave, Goto, WorkerTypeOK, PCs

LEMMA FailStepType ==
    ASSUME WorkerTypeOK, FailStep, UNCHANGED <<read, before>>
    PROVE  WorkerTypeOK'
<1>1. PICK now \in Times :
         Leave(IF step = 1 THEN tenant ELSE Mark(tenant, "Provisioned", "False", now),
               TRUE, FALSE)
  BY DEF FailStep
<1>2. Mark(tenant, "Provisioned", "False", now) \in Tenant
  BY MarkType DEF WorkerTypeOK, ConditionTypes
<1> QED
  BY <1>1, <1>2, LeaveType DEF WorkerTypeOK

LEMMA EnsuredType ==
    ASSUME WorkerTypeOK, Ensured, UNCHANGED <<read, before>>
    PROVE  WorkerTypeOK'
<1>1. CASE step = 1 /\ ~NeedsProvisioning(tenant)
  BY <1>1, OrderLength DEF Ensured, Proceed, Goto, WorkerTypeOK, PCs
<1>2. CASE ~(step = 1 /\ ~NeedsProvisioning(tenant)) /\ step < Len(Order)
  BY <1>2, OrderLength DEF Ensured, Goto, WorkerTypeOK, PCs, CAs
<1>3. CASE ~(step = 1 /\ ~NeedsProvisioning(tenant)) /\ ~(step < Len(Order))
  <2>1. PICK now \in Times :
           /\ Goto("check", 1)
           /\ tenant' = Mark(tenant, "Provisioned", "True", now)
           /\ signer' = 0
           /\ UNCHANGED <<reterr, requeue>>
    BY <1>3 DEF Ensured
  <2>2. Mark(tenant, "Provisioned", "True", now) \in Tenant
    BY MarkType DEF WorkerTypeOK, ConditionTypes
  <2> QED
    BY <2>1, <2>2, OrderLength DEF Goto, WorkerTypeOK, PCs
<1> QED
  BY <1>1, <1>2, <1>3

\* There is always a CA that no secret and nobody in memory holds.
LEMMA FreshCAType ==
    ASSUME HostTypeOK, WorkerTypeOK
    PROVE  FreshCA \in CAs
<1>1. \E c \in CAs : c \notin {ca[s] : s \in Secrets} \cup {signer}
  <2>1. Secrets = {"server-cert", "kubeconfig-admin", "kubeconfig-controller-manager"}
    BY DEF Secrets
  <2>2. {ca[s] : s \in Secrets} = {ca["server-cert"], ca["kubeconfig-admin"],
                                   ca["kubeconfig-controller-manager"]}
    BY <2>1
  <2>3. /\ 1 \in CAs /\ 2 \in CAs /\ 3 \in CAs /\ 4 \in CAs /\ 5 \in CAs
    BY DEF CAs
  <2> QED
    BY <2>2, <2>3
<1> QED
  BY <1>1 DEF FreshCA

\* Creating an object keeps the host cluster's types.
LEMMA CreateObjectType ==
    ASSUME HostTypeOK, NEW o \in Children, NEW uid \in 0..MaxUid,
           NEW c \in CAs \cup {0}, CreateObject(o, uid, c)
    PROVE  HostTypeOK'
<1>1. owner' \in [Children -> Unowned..MaxUid]
  BY MaxUidAssumption DEF HostTypeOK, CreateObject, Unowned
<1>2. ca' \in [Secrets -> CAs \cup {0}]
  BY DEF HostTypeOK, CreateObject
<1> QED
  BY <1>1, <1>2 DEF HostTypeOK, CreateObject

\* So does removing one.
LEMMA RemoveType ==
    ASSUME HostTypeOK, NEW o \in Children, Remove(o),
           terminating' \in BOOLEAN, UNCHANGED cached
    PROVE  HostTypeOK'
<1>1. owner' \in [Children -> Unowned..MaxUid]
  BY MaxUidAssumption DEF HostTypeOK, Remove, Unowned, Absent
<1>2. ca' \in [Secrets -> CAs \cup {0}]
  BY DEF HostTypeOK, Remove
<1>3. pods' \in [Deployments -> {"none", "starting", "ready", "failed"}]
  BY DEF HostTypeOK, Remove
<1> QED
  BY <1>1, <1>2, <1>3 DEF HostTypeOK

-----------------------------------------------------------------------------
(* Type correctness: one lemma for each actor, one step for each action. *)

LEMMA InitType == Init => TypeOK
<1> SUFFICES ASSUME Init PROVE TypeOK
  OBVIOUS
<1>1. Gone(0) \in Tenant
  <2>1. 0 \in 0..MaxUid
    BY MaxUidAssumption
  <2> QED
    BY <2>1, GoneType
<1>2. HostTypeOK
  <2>1. Absent \in Unowned..MaxUid
    BY MaxUidAssumption DEF Absent, Unowned
  <2>2. owner \in [Children -> Unowned..MaxUid]
    BY <2>1 DEF Init, HostInit
  <2>3. ca \in [Secrets -> CAs \cup {0}]
    BY DEF Init, HostInit
  <2>4. pods \in [Deployments -> {"none", "starting", "ready", "failed"}]
    BY DEF Init, HostInit
  <2> QED
    BY <2>2, <2>3, <2>4 DEF Init, HostInit, HostTypeOK
<1>3. TenantTypeOK
  BY <1>1, BoundsAssumption DEF Init, TenantTypeOK
<1>4. QueueTypeOK
  BY DEF Init, QueueTypeOK
<1>5. WorkerTypeOK
  <2>1. pc \in PCs /\ step \in 1..Len(Order) /\ pc # "check"
    BY OrderLength DEF Init, PCs
  <2>2. read \in Tenant /\ tenant \in Tenant /\ before \in Tenant
    BY <1>1 DEF Init
  <2>3. signer \in CAs \cup {0} /\ reterr \in BOOLEAN /\ requeue \in BOOLEAN
    BY DEF Init
  <2> QED
    BY <2>1, <2>2, <2>3 DEF WorkerTypeOK
<1>6. SpentTypeOK
  BY BoundsAssumption DEF Init, SpentTypeOK
<1> QED
  BY <1>2, <1>3, <1>4, <1>5, <1>6 DEF TypeOK

LEMMA ReconcileType ==
    ASSUME TypeOK,
           \/ ReconcileNotFound \/ ReconcileAddFinalizer
           \/ ReconcileDelete \/ ReconcileNormal
    PROVE  TypeOK'
<1>1. Shown \in Tenant
  BY VersionsType DEF TypeOK
<1>2. Begin
  BY DEF ReconcileNotFound, ReconcileAddFinalizer, ReconcileDelete, ReconcileNormal,
         StartPass
<1>3. HostTypeOK' /\ TenantTypeOK' /\ QueueTypeOK' /\ SpentTypeOK'
  BY <1>2 DEF Begin, TypeOK, HostTypeOK, TenantTypeOK, QueueTypeOK, SpentTypeOK,
              hostVars, tenantVars
<1>4. CASE ReconcileNotFound
  BY <1>3, <1>4 DEF ReconcileNotFound, TypeOK, WorkerTypeOK, workerVars
<1>5. ASSUME StartPass PROVE read' \in Tenant /\ before' \in Tenant
  BY <1>1, <1>5 DEF StartPass, TypeOK, WorkerTypeOK
<1>6. CASE ReconcileAddFinalizer
  <2> DEFINE t == [Shown EXCEPT !.finalizers = @ \cup {TenantFinalizer}]
  <2>1. t \in Tenant
    BY <1>1 DEF Tenant, Finalizers
  <2>2. Leave(t, FALSE, FALSE) /\ StartPass
    BY <1>6 DEF ReconcileAddFinalizer
  <2> HIDE DEF t
  <2> QED
    BY <2>1, <2>2, <1>3, <1>5, LeaveType DEF TypeOK
<1>7. CASE ReconcileDelete
  <2> DEFINE t == IF Shown.phase = "Terminating"
                  THEN [Shown EXCEPT !.finalizers = @ \ {TenantFinalizer}]
                  ELSE Shown
  <2>1. t \in Tenant
    BY <1>1 DEF Tenant, Finalizers
  <2>2. Leave(t, FALSE, FALSE) /\ StartPass
    BY <1>7 DEF ReconcileDelete
  <2> HIDE DEF t
  <2> QED
    BY <2>1, <2>2, <1>3, <1>5, LeaveType DEF TypeOK
<1>8. CASE ReconcileNormal
  <2>1. read' \in Tenant /\ before' \in Tenant
    BY <1>5, <1>8 DEF ReconcileNormal
  <2>2. WorkerTypeOK'
    BY <1>1, <1>8, <2>1, OrderLength
       DEF ReconcileNormal, Goto, TypeOK, WorkerTypeOK, PCs
  <2> QED
    BY <2>2, <1>3 DEF TypeOK
<1> QED
  BY <1>4, <1>6, <1>7, <1>8

\* reconcileNormal up to its return.
Build ==
    \/ GetFound \/ GetNotFound \/ GetFails
    \/ ParseCASecret \/ ParseCASecretFails
    \/ Create \/ CreateFails
    \/ CheckDeploy \/ CheckDeployFails

LEMMA BuildType ==
    ASSUME TypeOK, Build
    PROVE  TypeOK'
<1> USE DEF TypeOK
<1>1. /\ UNCHANGED <<read, before>>
      /\ TenantTypeOK' /\ QueueTypeOK'
  BY DEF Build, GetFound, GetNotFound, GetFails, ParseCASecret, ParseCASecretFails,
         Create, CreateFails, CheckDeploy, CheckDeployFails,
         tenantVars, queueVars, TenantTypeOK, QueueTypeOK
<1>2. ASSUME UNCHANGED hostVars PROVE HostTypeOK'
  BY <1>2 DEF hostVars, HostTypeOK
<1>3. ASSUME UNCHANGED spent PROVE SpentTypeOK'
  BY <1>3 DEF SpentTypeOK
<1>4. read' \in Tenant /\ before' \in Tenant
  BY <1>1 DEF WorkerTypeOK
<1>5. CASE GetFound
  BY <1>1, <1>2, <1>3, <1>5, EnsuredType DEF GetFound
<1>6. CASE GetNotFound
  <2>1. WorkerTypeOK'
    BY <1>1, <1>6, OrderLength DEF GetNotFound, Proceed, Goto, WorkerTypeOK, PCs
  <2> QED
    BY <1>1, <1>2, <1>3, <1>6, <2>1 DEF GetNotFound
<1>7. CASE GetFails
  BY <1>1, <1>2, <1>7, FailStepType, FaultType DEF GetFails
<1>8. CASE ParseCASecret
  <2>1. ca["server-cert"] \in CAs \cup {0}
    BY DEF HostTypeOK, Secrets
  <2>2. WorkerTypeOK'
    BY <1>1, <1>8, <2>1, OrderLength DEF ParseCASecret, Goto, WorkerTypeOK, PCs
  <2> QED
    BY <1>1, <1>2, <1>3, <1>8, <2>2 DEF ParseCASecret
<1>9. CASE ParseCASecretFails
  BY <1>1, <1>2, <1>3, <1>9, FailStepType, FaultType DEF ParseCASecretFails
<1>10. CASE Create
  <2>1. Child \in Children
    BY DEF Child, Children, WorkerTypeOK
  <2>2. OwnerReference \in 0..MaxUid
    BY DEF OwnerReference, WorkerTypeOK, Tenant
  <2>3. SigningCA \in CAs \cup {0}
    BY FreshCAType DEF SigningCA, WorkerTypeOK
  <2>4. HostTypeOK'
    BY <1>10, <2>1, <2>2, <2>3, CreateObjectType DEF Create
  <2> QED
    BY <1>1, <1>3, <1>10, <2>4, EnsuredType, FailStepType, FaultType DEF Create
<1>11. CASE CreateFails
  BY <1>1, <1>2, <1>3, <1>11, FailStepType, FaultType DEF CreateFails
<1>12. CASE CheckDeploy
  <2>1. ASSUME Leave(tenant, FALSE, TRUE) PROVE WorkerTypeOK'
    BY <1>4, <2>1, LeaveType DEF WorkerTypeOK
  <2>2. ASSUME step < Len(Checks), Proceed("check", step + 1) PROVE WorkerTypeOK'
    BY <1>1, <2>2, OrderLength DEF Proceed, Goto, WorkerTypeOK, PCs
  <2>3. ASSUME \E now \in Times : Leave(Mark(tenant, "Ready", "True", now), FALSE, FALSE)
        PROVE  WorkerTypeOK'
    <3>1. PICK now \in Times : Leave(Mark(tenant, "Ready", "True", now), FALSE, FALSE)
      BY <2>3
    <3>2. Mark(tenant, "Ready", "True", now) \in Tenant
      BY MarkType DEF WorkerTypeOK, ConditionTypes
    <3> QED
      BY <1>4, <3>1, <3>2, LeaveType
  <2>4. WorkerTypeOK'
    BY <1>12, <2>1, <2>2, <2>3 DEF CheckDeploy
  <2> QED
    BY <1>1, <1>2, <1>3, <1>12, <2>4 DEF CheckDeploy
<1>13. CASE CheckDeployFails
  <2>1. WorkerTypeOK'
    BY <1>4, <1>13, LeaveType DEF CheckDeployFails, WorkerTypeOK
  <2> QED
    BY <1>1, <1>2, <1>3, <1>13, <2>1, FaultType DEF CheckDeployFails
<1> QED
  BY <1>5, <1>6, <1>7, <1>8, <1>9, <1>10, <1>11, <1>12, <1>13 DEF Build

\* The deferred function.
Patch ==
    \/ Deferred \/ DeferredNotFound
    \/ PatchMetadata \/ PatchMetadataFails
    \/ PatchStatus \/ PatchStatusFails

LEMMA PatchType ==
    ASSUME TypeOK, Patch
    PROVE  TypeOK'
<1> USE DEF TypeOK
<1>1. HostTypeOK'
  BY DEF Patch, Deferred, DeferredNotFound, PatchMetadata, PatchMetadataFails,
         PatchStatus, PatchStatusFails, hostVars, HostTypeOK
<1>2. ASSUME UNCHANGED spent PROVE SpentTypeOK'
  BY <1>2 DEF SpentTypeOK
<1>3. Shown \in Tenant /\ Stored \in Tenant
  BY VersionsType
<1>4. ASSUME NEW failed \in BOOLEAN, Return(failed),
             versions' \in Seq(Tenant) /\ Len(versions') \in 1..MaxLag
      PROVE  WorkerTypeOK' /\ QueueTypeOK' /\ TenantTypeOK'
  BY <1>4, ReturnType DEF TenantTypeOK
<1>5. ASSUME UNCHANGED versions
      PROVE  versions' \in Seq(Tenant) /\ Len(versions') \in 1..MaxLag
  BY <1>5 DEF TenantTypeOK
<1>6. CASE Deferred
  <2> DEFINE mem == ReconcilePhase(tenant)
             differ == MetadataDiffers(Shown, mem) \/ StatusDiffers(Shown, mem)
  <2>1. mem \in Tenant
    BY ReconcilePhaseType DEF WorkerTypeOK
  <2>2. CASE differ
    <3>1. /\ Goto(IF MetadataDiffers(Shown, mem) THEN "patch" ELSE "status", 1)
          /\ tenant' = mem
          /\ before' = Shown
          /\ UNCHANGED <<rv, queueVars, read, signer, reterr, requeue, versions, spent>>
      BY <1>6, <2>2 DEF Deferred
    <3> HIDE DEF mem
    <3>2. WorkerTypeOK'
      BY <1>3, <2>1, <3>1, OrderLength DEF Goto, WorkerTypeOK, PCs
    <3>3. QueueTypeOK' /\ TenantTypeOK'
      BY <3>1 DEF queueVars, QueueTypeOK, TenantTypeOK
    <3> QED
      BY <1>1, <1>2, <3>1, <3>2, <3>3
  <2>3. CASE ~differ
    <3>1. Return(FALSE) /\ UNCHANGED <<versions, spent>>
      BY <1>6, <2>3 DEF Deferred
    <3> QED
      BY <1>1, <1>2, <1>4, <1>5, <3>1
  <2> QED
    BY <2>2, <2>3
<1>7. CASE DeferredNotFound
  BY <1>1, <1>2, <1>4, <1>5, <1>7 DEF DeferredNotFound
<1>8. CASE PatchMetadata
  <2>1. WithFinalizers(Stored, tenant.finalizers) \in Tenant
    <3>1. tenant.finalizers \in SUBSET Finalizers
      BY DEF WorkerTypeOK, Tenant
    <3> QED
      BY <1>3, <3>1, WithFinalizersType
  <2>2. versions' \in Seq(Tenant) /\ Len(versions') \in 1..MaxLag
    BY <1>8, <2>1, StoreType DEF PatchMetadata
  <2>3. CASE /\ Goto("status", 1)
             /\ rv' = "same"
             /\ UNCHANGED <<queueVars, read, tenant, before, signer, reterr, requeue, spent>>
    <3>1. WorkerTypeOK'
      BY <2>3, OrderLength DEF Goto, WorkerTypeOK, PCs
    <3>2. QueueTypeOK' /\ TenantTypeOK'
      BY <2>2, <2>3 DEF queueVars, QueueTypeOK, TenantTypeOK
    <3> QED
      BY <1>1, <1>2, <2>3, <3>1, <3>2
  <2>4. CASE Return(FALSE) /\ UNCHANGED spent
    BY <1>1, <1>2, <1>4, <2>2, <2>4
  <2>5. CASE Fault /\ Return(TRUE)
    BY <1>1, <1>4, <2>2, <2>5, FaultType
  <2> QED
    BY <1>8, <2>3, <2>4, <2>5 DEF PatchMetadata
<1>9. CASE PatchMetadataFails
  BY <1>1, <1>2, <1>4, <1>5, <1>9, FaultType DEF PatchMetadataFails
<1>10. CASE PatchStatus
  <2>1. StatusPatched(Stored, before, tenant) \in Tenant
    BY <1>3, StatusPatchedType DEF WorkerTypeOK
  <2>2. versions' \in Seq(Tenant) /\ Len(versions') \in 1..MaxLag
    BY <1>10, <2>1, StoreType DEF PatchStatus
  <2> QED
    BY <1>1, <1>2, <1>4, <1>10, <2>2, FaultType DEF PatchStatus
<1>11. CASE PatchStatusFails
  BY <1>1, <1>2, <1>4, <1>5, <1>11, FaultType DEF PatchStatusFails
<1> QED
  BY <1>6, <1>7, <1>8, <1>9, <1>10, <1>11 DEF Patch

\* The informer, the queue and the restart.
Manager == Deliver \/ FireTimer \/ Resync \/ Crash

LEMMA ManagerType ==
    ASSUME TypeOK, Manager
    PROVE  TypeOK'
<1> USE DEF TypeOK
<1>1. CASE Deliver
  <2>1. versions' \in Seq(Tenant) /\ Len(versions') \in 1..MaxLag
    BY <1>1, BoundsAssumption DEF Deliver, TenantTypeOK
  <2>2. TenantTypeOK' /\ QueueTypeOK'
    BY <1>1, <2>1 DEF Deliver, TenantTypeOK, QueueTypeOK
  <2> QED
    BY <1>1, <2>2 DEF Deliver, hostVars, workerVars, HostTypeOK, WorkerTypeOK, SpentTypeOK
<1>2. CASE FireTimer
  BY <1>2 DEF FireTimer, hostVars, tenantVars, workerVars, HostTypeOK, TenantTypeOK,
              QueueTypeOK, WorkerTypeOK, SpentTypeOK
<1>3. CASE Resync
  BY <1>3 DEF Resync, hostVars, tenantVars, workerVars, HostTypeOK, TenantTypeOK,
              QueueTypeOK, WorkerTypeOK, SpentTypeOK
<1>4. CASE Crash
  <2>1. PICK first \in 1..Len(versions) :
           /\ versions' = SubSeq(versions, first, Len(versions))
           /\ queued' = versions[first].exists
    BY <1>4 DEF Crash
  <2>2. /\ rv' = "none" /\ timer' = FALSE
        /\ IdleWorker /\ RelistChildren
        /\ spent.crashes < MaxCrashes
        /\ spent' = [spent EXCEPT !.crashes = @ + 1]
    BY <1>4 DEF Crash
  <2>3. TenantTypeOK'
    BY <2>1, <2>2, BoundsAssumption DEF TenantTypeOK
  <2>4. QueueTypeOK'
    <3>1. versions[first] \in Tenant
      BY <2>1 DEF TenantTypeOK
    <3> QED
      BY <2>1, <2>2, <3>1 DEF QueueTypeOK, Tenant
  <2>5. WorkerTypeOK'
    BY <2>2, IdleType
  <2>6. SpentTypeOK'
    BY <2>2, BoundsAssumption DEF SpentTypeOK
  <2>7. HostTypeOK'
    BY <2>2 DEF RelistChildren, HostTypeOK
  <2> QED
    BY <2>3, <2>4, <2>5, <2>6, <2>7
<1> QED
  BY <1>1, <1>2, <1>3, <1>4 DEF Manager

\* Users and other controllers.
Clients ==
    \/ CreateTenant \/ DeleteTenant
    \/ \E f \in OtherFinalizers : AddOtherFinalizer(f)
    \/ OtherFinalizersDone

LEMMA ClientsType ==
    ASSUME TypeOK, Clients
    PROVE  TypeOK'
<1> USE DEF TypeOK
<1>1. Stored \in Tenant
  BY VersionsType
<1>2. HostTypeOK' /\ QueueTypeOK' /\ WorkerTypeOK'
  BY DEF Clients, CreateTenant, DeleteTenant, AddOtherFinalizer, OtherFinalizersDone,
         DropOtherFinalizer, hostVars, queueVars, workerVars, HostTypeOK, QueueTypeOK,
         WorkerTypeOK
<1>3. ASSUME UNCHANGED spent PROVE SpentTypeOK'
  BY <1>3 DEF SpentTypeOK
<1>4. CASE CreateTenant
  <2>1. Stored.uid + 1 \in 0..MaxUid
    BY <1>1, <1>4, MaxUidAssumption DEF CreateTenant, Tenant
  <2>2. Created(Stored.uid + 1) \in Tenant
    BY <2>1, CreatedType
  <2>3. StoreByOthers(Created(Stored.uid + 1)) /\ UNCHANGED spent
    BY <1>4 DEF CreateTenant
  <2> QED
    BY <1>2, <1>3, <2>2, <2>3, StoreByOthersType
<1>5. CASE DeleteTenant
  <2> DEFINE t == IF Stored.finalizers = {}
                  THEN Gone(Stored.uid)
                  ELSE [Stored EXCEPT !.deleting = TRUE]
  <2>1. Gone(Stored.uid) \in Tenant
    BY <1>1, GoneType DEF Tenant
  <2>2. [Stored EXCEPT !.deleting = TRUE] \in Tenant
    BY <1>1 DEF Tenant
  <2>3. StoreByOthers(t) /\ UNCHANGED spent
    BY <1>5 DEF DeleteTenant
  <2>4. t \in Tenant
    BY <2>1, <2>2
  <2> HIDE DEF t
  <2> QED
    BY <1>2, <1>3, <2>3, <2>4, StoreByOthersType
<1>6. ASSUME NEW f \in OtherFinalizers, AddOtherFinalizer(f) PROVE TypeOK'
  <2> DEFINE t == [Stored EXCEPT !.finalizers = @ \cup {f}]
  <2>1. t \in Tenant
    BY <1>1 DEF Tenant, Finalizers
  <2>2. StoreByOthers(t)
    BY <1>6 DEF AddOtherFinalizer
  <2>3. SpentTypeOK'
    BY <1>6, BoundsAssumption DEF AddOtherFinalizer, SpentTypeOK
  <2> HIDE DEF t
  <2> QED
    BY <1>2, <2>1, <2>2, <2>3, StoreByOthersType
<1>7. ASSUME NEW f \in OtherFinalizers, DropOtherFinalizer(f) PROVE TypeOK'
  <2> DEFINE t == WithFinalizers(Stored, Stored.finalizers \ {f})
  <2>1. Stored.finalizers \ {f} \in SUBSET Finalizers
    BY <1>1 DEF Tenant
  <2>2. t \in Tenant
    BY <1>1, <2>1, WithFinalizersType
  <2>3. StoreByOthers(t) /\ UNCHANGED spent
    BY <1>7 DEF DropOtherFinalizer
  <2> HIDE DEF t
  <2> QED
    BY <1>2, <1>3, <2>2, <2>3, StoreByOthersType
<1> QED
  BY <1>4, <1>5, <1>6, <1>7 DEF Clients, OtherFinalizersDone

\* The host cluster.
Host == HostStep \/ \E d \in Deployments : PodFailure(d) \/ PodRecovery(d)

LEMMA HostType ==
    ASSUME TypeOK, Host
    PROVE  TypeOK'
<1> USE DEF TypeOK
<1>1. TenantTypeOK' /\ QueueTypeOK' /\ WorkerTypeOK'
  BY DEF Host, HostStep, PodFailure, PodRecovery, tenantVars, queueVars, workerVars,
         TenantTypeOK, QueueTypeOK, WorkerTypeOK
<1>2. SpentTypeOK'
  BY BoundsAssumption DEF Host, HostStep, PodFailure, PodRecovery, SpentTypeOK
<1>3. "namespace" \in Children
  BY DEF Children, Order
<1>4. ASSUME NEW o \in Children, CollectGarbage(o, LiveUids) PROVE HostTypeOK'
  <2>1. CASE o = "namespace"
    BY <1>4, <2>1 DEF CollectGarbage, HostTypeOK
  <2>2. CASE o # "namespace"
    BY <1>4, <2>2, RemoveType DEF CollectGarbage, HostTypeOK
  <2> QED
    BY <2>1, <2>2
<1>5. ASSUME NEW o \in Children, DrainNamespace(o) PROVE HostTypeOK'
  BY <1>5, RemoveType DEF DrainNamespace, HostTypeOK
<1>6. ASSUME NEW o \in Children, SyncCache(o) PROVE HostTypeOK'
  BY <1>6 DEF SyncCache, HostTypeOK
<1>7. CASE FinishNamespace
  BY <1>1, <1>2, <1>3, <1>7, RemoveType DEF FinishNamespace
<1>8. ASSUME NEW d \in Deployments,
             StartPod(d) \/ PodReady(d) \/ PodFails(d) \/ PodRecovers(d)
      PROVE  HostTypeOK'
  BY <1>8 DEF StartPod, PodReady, PodFails, PodRecovers, HostTypeOK
<1> QED
  BY <1>1, <1>2, <1>4, <1>5, <1>6, <1>7, <1>8 DEF Host, HostStep, PodFailure, PodRecovery

LEMMA TypeStep ==
    ASSUME TypeOK, [Next]_vars
    PROVE  TypeOK'
<1>1. CASE ReconcileNotFound \/ ReconcileAddFinalizer \/ ReconcileDelete \/ ReconcileNormal
  BY <1>1, ReconcileType
<1>2. CASE Build
  BY <1>2, BuildType
<1>3. CASE Patch
  BY <1>3, PatchType
<1>4. CASE Manager
  BY <1>4, ManagerType
<1>5. CASE Clients
  BY <1>5, ClientsType
<1>6. CASE Host
  BY <1>6, HostType
<1>7. CASE UNCHANGED vars
  BY <1>7 DEF vars, hostVars, tenantVars, queueVars, workerVars, TypeOK, HostTypeOK,
              TenantTypeOK, QueueTypeOK, WorkerTypeOK, SpentTypeOK
<1> QED
  BY <1>1, <1>2, <1>3, <1>4, <1>5, <1>6, <1>7
     DEF Next, Worker, Build, Patch, Manager, Clients, Host

\* The types are those of TypeOK in every state the controller, its manager, its
\* users and the host cluster can reach together.
THEOREM TypeCorrect == Spec => []TypeOK
<1>1. TypeOK /\ [Next]_vars => TypeOK'
  BY TypeStep
<1> QED
  BY InitType, <1>1, PTL DEF Spec

=============================================================================
