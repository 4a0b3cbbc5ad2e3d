----------------------------- MODULE StatusProofs -----------------------------
(***************************************************************************)
(* What the tenant's conditions say, and that no pass is forgotten before  *)
(* they say Ready: for every lag of the informer, every number of          *)
(* incarnations, failures and restarts, and whatever finalizers others put *)
(* on the tenant.                                                          *)
(***************************************************************************)
EXTENDS FinalizerProofs

InOrder(t) == IsTrue(t, "Ready") => IsTrue(t, "Provisioned")

\* Conditions are patched as a whole list, so that what is stored is a list
\* that some pass held; a pass marks Ready in the checks only, and Provisioned
\* False only while it provisions.
StatusInv ==
    /\ \A i \in Versions : InOrder(versions[i])
    /\ InOrder(tenant)
    /\ pc \in {"get", "sign", "create"} /\ step > 1 => NeedsProvisioning(tenant)
    /\ pc = "check" => IsTrue(tenant, "Provisioned")

\* Conditions in order stay so when the pass marks one of them.
LEMMA MarkInOrder ==
    ASSUME NEW t \in Tenant, NEW now \in Times
    PROVE  /\ IsTrue(Mark(t, "Provisioned", "True", now), "Provisioned")
           /\ InOrder(t) => InOrder(Mark(t, "Provisioned", "True", now))
           /\ NeedsProvisioning(t) /\ InOrder(t)
                 => InOrder(Mark(t, "Provisioned", "False", now))
           /\ IsTrue(t, "Provisioned") => InOrder(Mark(t, "Ready", "True", now))
<1>1. /\ {"Provisioned", "Ready"} = ConditionTypes /\ t.conds \in [ConditionTypes -> Condition]
      /\ \A type \in ConditionTypes, status \in {"True", "False"} :
            \A other \in ConditionTypes :
               Mark(t, type, status, now).conds[other].status
                 = IF other = type THEN status ELSE t.conds[other].status
  BY DEF Tenant, ConditionTypes, Mark
<1> QED
  BY <1>1 DEF InOrder, IsTrue, NeedsProvisioning, Has, IsFalse

\* A write of the tenant with conditions in order.
LEMMA StoreInOrder ==
    ASSUME TenantTypeOK, NEW t \in Tenant, Store(t), InOrder(t),
           \A i \in Versions : InOrder(versions[i])
    PROVE  \A i \in Versions' : InOrder(versions'[i])
<1> TAKE i \in Versions'
<1>1. \/ i \in Versions /\ versions'[i] = versions[i]
      \/ versions'[i] = t
  BY StoreEffect
<1> QED
  BY <1>1

LEMMA StatusInit == Init => StatusInv
<1> SUFFICES ASSUME Init
             PROVE  StatusInv
  OBVIOUS
<1>1. Versions = {1} /\ versions[1] = Gone(0) /\ tenant = Gone(0) /\ pc = "idle"
  BY DEF Init, Versions
<1>2. InOrder(Gone(0))
  BY DEF InOrder, IsTrue, Gone, NoConditions, ConditionTypes
<1> QED
  BY <1>1, <1>2 DEF StatusInv

LEMMA ReconcileStatus ==
    ASSUME TypeOK, StatusInv,
           \/ ReconcileNotFound \/ ReconcileAddFinalizer
           \/ ReconcileDelete \/ ReconcileNormal
    PROVE  StatusInv'
<1>1. Shown \in Tenant /\ Shown = versions[1] /\ 1 \in Versions
  BY VersionType DEF TypeOK
<1>2. versions' = versions /\ \A i \in Versions' : InOrder(versions'[i])
  BY DEF StatusInv, Versions, ReconcileNotFound, ReconcileAddFinalizer, ReconcileDelete,
         ReconcileNormal, StartPass, Begin, tenantVars
<1>3. CASE ReconcileNotFound
  BY <1>2, <1>3 DEF ReconcileNotFound, workerVars, StatusInv, Begin
<1>4. CASE ReconcileAddFinalizer \/ ReconcileDelete \/ ReconcileNormal
  <2>1. tenant'.conds = Shown.conds
    BY <1>1, <1>4
       DEF ReconcileAddFinalizer, ReconcileDelete, ReconcileNormal, Leave, Tenant
  <2>2. InOrder(tenant)'
    BY <1>1, <2>1 DEF StatusInv, InOrder, IsTrue
  <2>3. pc' = "defer" \/ (pc' = "get" /\ step' = 1)
    BY <1>4 DEF ReconcileAddFinalizer, ReconcileDelete, ReconcileNormal, Leave, Goto
  <2> QED
    BY <1>2, <2>2, <2>3 DEF StatusInv
<1> QED
  BY <1>3, <1>4

\* reconcileNormal.
LEMMA BuildStatus ==
    ASSUME TypeOK, StatusInv, Build
    PROVE  StatusInv'
<1>1. tenant \in Tenant /\ step \in 1..7 /\ InOrder(tenant)
  BY OrderLength DEF TypeOK, WorkerTypeOK, StatusInv
<1>2. \A i \in Versions' : InOrder(versions'[i])
  BY BuildKeeps DEF StatusInv, Versions
<1> DEFINE Goal ==
      /\ InOrder(tenant)'
      /\ pc' \in {"get", "sign", "create"} /\ step' > 1 => NeedsProvisioning(tenant)'
      /\ pc' = "check" => IsTrue(tenant, "Provisioned")'
<1>3. ASSUME pc \in {"get", "create"}, Ensured
      PROVE  Goal
  <2>1. CASE step = 1 /\ ~NeedsProvisioning(tenant)
    <3>1. tenant' = tenant /\ pc' = "check"
      BY <1>3, <2>1 DEF Ensured, Proceed, Goto
    <3>2. IsTrue(tenant, "Provisioned")
      BY <1>1, <2>1
         DEF NeedsProvisioning, Has, IsFalse, IsTrue, Tenant, Condition, ConditionTypes
    <3> QED
      BY <1>1, <3>1, <3>2
  <2>2. CASE ~(step = 1 /\ ~NeedsProvisioning(tenant)) /\ step < Len(Order)
    <3>1. tenant' = tenant /\ pc' = "get"
      BY <1>3, <2>2 DEF Ensured, Goto
    <3>2. NeedsProvisioning(tenant)
      BY <1>1, <1>3, <2>2 DEF StatusInv
    <3> QED
      BY <1>1, <3>1, <3>2
  <2>3. CASE ~(step = 1 /\ ~NeedsProvisioning(tenant)) /\ ~(step < Len(Order))
    <3>1. PICK now \in Times :
             tenant' = Mark(tenant, "Provisioned", "True", now) /\ pc' = "check"
      BY <1>3, <2>3 DEF Ensured, Goto
    <3> QED
      BY <1>1, <3>1, MarkInOrder
  <2> QED
    BY <2>1, <2>2, <2>3
<1>4. ASSUME pc \in {"get", "sign", "create"}, FailStep
      PROVE  Goal
  <2>1. PICK now \in Times :
           tenant' = IF step = 1 THEN tenant ELSE Mark(tenant, "Provisioned", "False", now)
    BY <1>4 DEF FailStep, Leave
  <2>2. pc' = "defer"
    BY <1>4 DEF FailStep, Leave, Goto
  <2>3. step # 1 => NeedsProvisioning(tenant)
    BY <1>1, <1>4 DEF StatusInv
  <2> QED
    BY <1>1, <2>1, <2>2, <2>3, MarkInOrder
<1>5. ASSUME GetNotFound \/ ParseCASecret \/ CheckDeployFails
      PROVE  Goal
  BY <1>1, <1>5 DEF StatusInv, GetNotFound, ParseCASecret, CheckDeployFails, Proceed, Goto, Leave
<1>6. ASSUME CheckDeploy
      PROVE  Goal
  <2>1. pc = "check" /\ IsTrue(tenant, "Provisioned")
    BY <1>6 DEF CheckDeploy, StatusInv
  <2>2. CASE tenant' = tenant /\ pc' \in {"check", "defer"}
    BY <1>1, <2>1, <2>2
  <2>3. CASE pc' = "defer" /\ \E now \in Times : tenant' = Mark(tenant, "Ready", "True", now)
    BY <1>1, <2>1, <2>3, MarkInOrder
  <2> QED
    BY <1>6, <2>2, <2>3 DEF CheckDeploy, Leave, Goto, Proceed
<1> HIDE DEF Goal
<1>7. Goal
  BY <1>3, <1>4, <1>5, <1>6
     DEF Build, GetFound, GetFails, ParseCASecretFails, Create, CreateFails
<1> QED
  BY <1>2, <1>7 DEF Goal, StatusInv

\* The end of a pass.
LEMMA IdleStatus ==
    ASSUME IdleWorker, \A i \in Versions' : InOrder(versions'[i])
    PROVE  StatusInv'
<1>1. InOrder(Gone(0))
  BY DEF InOrder, IsTrue, Gone, NoConditions, ConditionTypes
<1> QED
  BY <1>1 DEF StatusInv, IdleWorker

\* The deferred function.
LEMMA PatchStatusInOrder ==
    ASSUME TypeOK, StatusInv, Patch
    PROVE  StatusInv'
<1>1. /\ TenantTypeOK /\ tenant \in Tenant /\ before \in Tenant /\ Stored \in Tenant
      /\ InOrder(tenant) /\ InOrder(Stored)
  BY VersionType DEF TypeOK, WorkerTypeOK, StatusInv
<1>2. CASE Deferred \/ DeferredNotFound \/ PatchMetadataFails \/ PatchStatusFails
  <2>1. \A i \in Versions' : InOrder(versions'[i])
    BY <1>2 DEF Deferred, DeferredNotFound, PatchMetadataFails, PatchStatusFails,
                StatusInv, Versions
  <2>2. CASE IdleWorker
    BY <2>1, <2>2, IdleStatus
  <2>3. CASE ~IdleWorker
    <3>1. tenant' = ReconcilePhase(tenant) /\ pc' \in {"patch", "status"}
      BY <1>2, <2>3 DEF Deferred, DeferredNotFound, PatchMetadataFails, PatchStatusFails,
                        Return, Goto
    <3>2. ReconcilePhase(tenant).conds = tenant.conds
      BY <1>1 DEF ReconcilePhase, Tenant
    <3>3. InOrder(tenant)'
      BY <1>1, <3>1, <3>2 DEF InOrder, IsTrue
    <3> QED
      BY <2>1, <3>1, <3>3 DEF StatusInv
  <2> QED
    BY <2>2, <2>3
<1>3. CASE PatchMetadata
  <2> DEFINE t == WithFinalizers(Stored, tenant.finalizers)
  <2>1. t \in Tenant
    BY <1>1, WithFinalizersType DEF Tenant
  <2>2. InOrder(t)
    BY <1>1 DEF WithFinalizers, Gone, NoConditions, ConditionTypes, InOrder, IsTrue, Tenant
  <2>3. Store(t)
    BY <1>3 DEF PatchMetadata
  <2> HIDE DEF t
  <2>4. \A i \in Versions' : InOrder(versions'[i])
    BY <1>1, <2>1, <2>2, <2>3, StoreInOrder DEF StatusInv
  <2>5. IdleWorker \/ (pc' = "status" /\ tenant' = tenant)
    BY <1>3 DEF PatchMetadata, Return, Goto
  <2> QED
    BY <1>1, <2>4, <2>5, IdleStatus DEF StatusInv
<1>4. CASE PatchStatus
  <2> DEFINE t == StatusPatched(Stored, before, tenant)
  <2>1. t \in Tenant
    BY <1>1, StatusPatchedType
  <2>2. InOrder(t)
    BY <1>1 DEF StatusPatched, InOrder, IsTrue, Tenant
  <2>3. Store(t) /\ IdleWorker
    BY <1>4 DEF PatchStatus, Return
  <2> HIDE DEF t
  <2> QED
    BY <1>1, <2>1, <2>2, <2>3, StoreInOrder, IdleStatus DEF StatusInv
<1> QED
  BY <1>2, <1>3, <1>4 DEF Patch

\* The manager: what the informer forgets needs no more to be in order.
LEMMA ManagerStatus ==
    ASSUME TypeOK, StatusInv, Manager
    PROVE  StatusInv'
<1>1. TenantTypeOK
  BY DEF TypeOK
<1>2. CASE Deliver
  <2>1. \A i \in Versions' : InOrder(versions'[i])
    BY <1>1, <1>2 DEF Deliver, StatusInv, Versions, TenantTypeOK
  <2> QED
    BY <1>2, <2>1 DEF Deliver, workerVars, StatusInv
<1>3. CASE FireTimer \/ Resync
  BY <1>3 DEF FireTimer, Resync, tenantVars, workerVars, StatusInv, Versions
<1>4. CASE Crash
  <2>1. PICK first \in 1..Len(versions) : versions' = SubSeq(versions, first, Len(versions))
    BY <1>4 DEF Crash
  <2>2. \A i \in Versions' : InOrder(versions'[i])
    <3>1. /\ first \in Nat /\ Len(versions) \in Nat
          /\ Len(versions') = Len(versions) - first + 1
          /\ \A i \in 1..(Len(versions) - first + 1) : versions'[i] = versions[i + first - 1]
      BY <1>1, <2>1 DEF TenantTypeOK
    <3>2. \A i \in Versions' : i + first - 1 \in Versions /\ versions'[i] = versions[i + first - 1]
      BY <2>1, <3>1 DEF Versions
    <3> QED
      BY <3>2 DEF StatusInv
  <2> QED
    BY <1>4, <2>2, IdleStatus DEF Crash
<1> QED
  BY <1>2, <1>3, <1>4 DEF Manager

\* Users and other controllers create tenants without conditions, and leave
\* those that there are alone.
LEMMA ClientsWrite ==
    ASSUME TypeOK, Clients
    PROVE  /\ UNCHANGED <<hostVars, queueVars, workerVars>>
           /\ \E t \in Tenant :
                 /\ StoreByOthers(t)
                 /\ t.conds = Stored.conds \/ t.conds = NoConditions
                 /\ (t.uid = Stored.uid /\ Stored.exists) \/ Stored.uid < MaxUid
<1> DEFINE Written(t) ==
      /\ StoreByOthers(t)
      /\ t.conds = Stored.conds \/ t.conds = NoConditions
      /\ (t.uid = Stored.uid /\ Stored.exists) \/ Stored.uid < MaxUid
<1>1. Stored \in Tenant /\ Stored.uid \in 0..MaxUid
  BY VersionType DEF TypeOK, Tenant
<1>2. \A uid \in 0..MaxUid : /\ Gone(uid) \in Tenant /\ Created(uid) \in Tenant
                             /\ Gone(uid).uid = uid
                             /\ Gone(uid).conds = NoConditions
                             /\ Created(uid).conds = NoConditions
  BY GoneType, CreatedType DEF Gone, Created
<1>3. UNCHANGED <<hostVars, queueVars, workerVars>>
  BY DEF Clients, CreateTenant, DeleteTenant, AddOtherFinalizer, OtherFinalizersDone,
         DropOtherFinalizer
<1>4. CASE CreateTenant
  <2>1. Stored.uid + 1 \in 0..MaxUid /\ Stored.uid < MaxUid
    BY <1>1, <1>4, MaxUidAssumption DEF CreateTenant
  <2>2. Written(Created(Stored.uid + 1))
    BY <1>2, <1>4, <2>1 DEF CreateTenant
  <2> QED
    BY <1>2, <1>3, <2>1, <2>2
<1>5. CASE DeleteTenant
  <2> DEFINE t == IF Stored.finalizers = {}
                  THEN Gone(Stored.uid)
                  ELSE [Stored EXCEPT !.deleting = TRUE]
  <2>1. /\ t \in Tenant /\ t.uid = Stored.uid
        /\ t.conds = Stored.conds \/ t.conds = NoConditions
    BY <1>1, <1>2 DEF Tenant
  <2>2. StoreByOthers(t) /\ Stored.exists
    BY <1>5 DEF DeleteTenant
  <2> HIDE DEF t
  <2> QED
    BY <1>3, <2>1, <2>2
<1>6. ASSUME NEW f \in OtherFinalizers, AddOtherFinalizer(f)
      PROVE  \E t \in Tenant : Written(t)
  <2> DEFINE t == [Stored EXCEPT !.finalizers = @ \cup {f}]
  <2>1. t \in Tenant /\ t.uid = Stored.uid /\ t.conds = Stored.conds
    BY <1>1 DEF Tenant, Finalizers
  <2>2. StoreByOthers(t) /\ Stored.exists
    BY <1>6 DEF AddOtherFinalizer
  <2> HIDE DEF t
  <2> QED
    BY <2>1, <2>2
<1>7. ASSUME NEW f \in OtherFinalizers, DropOtherFinalizer(f)
      PROVE  \E t \in Tenant : Written(t)
  <2> DEFINE t == WithFinalizers(Stored, Stored.finalizers \ {f})
  <2>1. t \in Tenant
    BY <1>1, WithFinalizersType DEF Tenant
  <2>2. t.uid = Stored.uid /\ (t.conds = Stored.conds \/ t.conds = NoConditions)
    BY <1>1, <1>2 DEF WithFinalizers, Tenant
  <2>3. StoreByOthers(t) /\ Stored.exists
    BY <1>7 DEF DropOtherFinalizer
  <2> HIDE DEF t
  <2> QED
    BY <2>1, <2>2, <2>3
<1> QED
  BY <1>3, <1>4, <1>5, <1>6, <1>7 DEF Clients, OtherFinalizersDone

LEMMA ClientsStatus ==
    ASSUME TypeOK, StatusInv, Clients
    PROVE  StatusInv'
<1>1. TenantTypeOK /\ InOrder(Stored)
  BY VersionType DEF TypeOK, StatusInv
<1>2. PICK t \in Tenant : /\ StoreByOthers(t)
                          /\ t.conds = Stored.conds \/ t.conds = NoConditions
  BY ClientsWrite
<1>3. Store(t) /\ InOrder(t)
  BY <1>1, <1>2 DEF StoreByOthers, InOrder, IsTrue, NoConditions, ConditionTypes
<1>4. \A i \in Versions' : InOrder(versions'[i])
  BY <1>1, <1>3, StoreInOrder DEF StatusInv
<1>5. UNCHANGED workerVars
  BY ClientsWrite
<1> QED
  BY <1>4, <1>5 DEF StatusInv, workerVars

LEMMA StatusStep ==
    ASSUME TypeOK, StatusInv, [Next]_vars
    PROVE  StatusInv'
<1>1. CASE Host \/ UNCHANGED vars
  BY <1>1 DEF Host, HostStep, PodFailure, PodRecovery, vars, tenantVars, workerVars,
              StatusInv, Versions
<1> QED
  BY <1>1, ReconcileStatus, BuildStatus, PatchStatusInOrder, ManagerStatus, ClientsStatus
     DEF Next, Worker, Build, Patch, Manager, Clients, Host

\* Conditions are patched as a whole list, from a first read that may be older
\* than the object that is patched; all the same, no mixture of passes shows a
\* tenant as Ready that was never provisioned.
THEOREM ReadyAlwaysProvisioned == Spec => []ReadyMeansProvisioned
<1>1. TypeOK /\ StatusInv /\ [Next]_vars => StatusInv'
  BY StatusStep
<1>2. TypeOK /\ StatusInv => ReadyMeansProvisioned
  <2> SUFFICES ASSUME TypeOK, StatusInv
               PROVE  ReadyMeansProvisioned
    OBVIOUS
  <2>1. Stored = versions[Len(versions)] /\ Len(versions) \in Versions
    BY VersionType DEF TypeOK
  <2> QED
    BY <2>1 DEF StatusInv, InOrder, ReadyMeansProvisioned
<1> QED
  BY StatusInit, TypeCorrect, <1>1, <1>2, PTL DEF Spec
-----------------------------------------------------------------------------
(* No pass of the controller is forgotten: why an empty queue means that there *)
(* is nothing left to do.                                                      *)
\* Nothing will add the key to the queue by itself.
Calm == ~queued /\ ~timer /\ Len(versions) = 1

Settled(t) == Own(t) /\ ~t.deleting /\ IsTrue(t, "Ready") /\ t.phase = "Ready"

Differs(t, mem) == MetadataDiffers(t, mem) \/ StatusDiffers(t, mem)

Retried == reterr \/ requeue

\* A pass that goes on while nothing else is scheduled works on the stored
\* tenant, and leaves it different, or returns with a timer, or it is settled.
QueueInv ==
    Calm =>
        /\ pc = "idle" /\ Stored.exists => Settled(Stored)
        /\ Building => /\ tenant.finalizers = Stored.finalizers
                       /\ Own(tenant)
                       /\ ~tenant.deleting /\ ~Stored.deleting
        /\ pc = "defer" =>
              \/ Retried \/ ~Stored.exists \/ Settled(Stored)
              \/ Differs(Stored, ReconcilePhase(tenant))
        /\ pc = "patch" => Retried \/ MetadataDiffers(Stored, tenant)
        /\ pc = "status" =>
              Retried \/ (before = Stored /\ StatusDiffers(Stored, tenant))

\* A write that changes the tenant brings an event.
LEMMA WriteIsSeen ==
    ASSUME TenantTypeOK, NEW t \in Tenant, Store(t), Calm'
    PROVE  t = Stored /\ versions' = versions
<1>1. CASE t # Stored
  <2>1. versions' = Append(versions, t) /\ versions \in Seq(Tenant) /\ Len(versions) >= 1
    BY <1>1, BoundsAssumption DEF Store, TenantTypeOK
  <2>2. Len(versions') = Len(versions) + 1 /\ Len(versions) \in Nat
    BY <2>1
  <2> QED
    BY <2>1, <2>2 DEF Calm
<1> QED
  BY <1>1 DEF Store

\* When the informer is up to date it shows what is stored.
LEMMA CalmFacts ==
    ASSUME TypeOK
    PROVE  /\ TenantTypeOK /\ Stored \in Tenant /\ tenant \in Tenant /\ before \in Tenant
           /\ Shown \in Tenant
           /\ Len(versions) = 1 => Shown = Stored
BY VersionType DEF TypeOK, WorkerTypeOK, Shown, Stored

\* What ends the passes that did something.
LEMMA PhaseFacts ==
    ASSUME NEW t \in Tenant
    PROVE  /\ ReconcilePhase(t).finalizers = t.finalizers
           /\ ReconcilePhase(t).conds = t.conds
           /\ t.deleting => ReconcilePhase(t).phase = "Terminating"
           /\ ~t.deleting /\ IsTrue(t, "Ready") => ReconcilePhase(t).phase = "Ready"
<1>1. t.deleting => PhaseOf(t) = "Terminating"
  BY DEF PhaseOf
<1>2. ~t.deleting /\ IsTrue(t, "Ready") => PhaseOf(t) = "Ready"
  BY DEF PhaseOf, IsTrue, IsFalse, Has
<1>3. /\ ReconcilePhase(t).finalizers = t.finalizers
      /\ ReconcilePhase(t).conds = t.conds
      /\ ReconcilePhase(t).phase = PhaseOf(t)
  BY DEF ReconcilePhase, Tenant
<1> QED
  BY <1>1, <1>2, <1>3

LEMMA QueueInit == Init => QueueInv
<1> SUFFICES ASSUME Init
             PROVE  QueueInv
  OBVIOUS
<1>1. pc = "idle" /\ Stored = Gone(0)
  BY DEF Init, Stored
<1>2. ~Stored.exists
  BY <1>1 DEF Gone
<1> QED
  BY <1>1, <1>2 DEF QueueInv, Building

LEMMA ReconcileQueue ==
    ASSUME TypeOK, QueueInv,
           \/ ReconcileNotFound \/ ReconcileAddFinalizer
           \/ ReconcileDelete \/ ReconcileNormal
    PROVE  QueueInv'
<1> SUFFICES ASSUME Calm'
             PROVE  QueueInv'
  BY DEF QueueInv
<1>1. /\ pc = "idle" /\ versions' = versions /\ Stored' = Stored /\ Shown = Stored
      /\ Shown \in Tenant
  BY CalmFacts
     DEF Calm, Stored, ReconcileNotFound, ReconcileAddFinalizer, ReconcileDelete,
         ReconcileNormal, StartPass, Begin, tenantVars
<1>2. CASE ReconcileNotFound
  BY <1>1, <1>2 DEF ReconcileNotFound, Begin, workerVars, QueueInv, Building
<1>3. CASE ReconcileNormal
  BY <1>1, <1>3 DEF ReconcileNormal, Goto, QueueInv, Own, Building
<1>4. CASE ReconcileAddFinalizer
  <2>1. pc' = "defer" /\ tenant' = [Shown EXCEPT !.finalizers = @ \cup {TenantFinalizer}]
        /\ TenantFinalizer \notin Shown.finalizers
    BY <1>4 DEF ReconcileAddFinalizer, Leave, Goto
  <2>2. tenant' \in Tenant /\ tenant'.finalizers # Shown.finalizers
    BY <1>1, <2>1 DEF Tenant, Finalizers
  <2>3. Differs(Stored', ReconcilePhase(tenant'))
    BY <1>1, <2>2, PhaseFacts DEF Differs, MetadataDiffers
  <2> QED
    BY <2>1, <2>3 DEF QueueInv, Building
<1>5. CASE ReconcileDelete
  <2>1. /\ pc' = "defer" /\ Shown.deleting /\ TenantFinalizer \in Shown.finalizers
        /\ tenant' = IF Shown.phase = "Terminating"
                     THEN [Shown EXCEPT !.finalizers = @ \ {TenantFinalizer}]
                     ELSE Shown
    BY <1>5 DEF ReconcileDelete, Leave, Goto
  <2>2. tenant' \in Tenant /\ tenant'.deleting
    BY <1>1, <2>1 DEF Tenant
  <2>3. Differs(Stored', ReconcilePhase(tenant'))
    <3>1. CASE Shown.phase = "Terminating"
      <4>1. tenant'.finalizers # Shown.finalizers
        BY <1>1, <2>1, <3>1 DEF Tenant
      <4> QED
        BY <1>1, <2>2, <4>1, PhaseFacts DEF Differs, MetadataDiffers
    <3>2. CASE Shown.phase # "Terminating"
      BY <1>1, <2>2, <3>2, PhaseFacts DEF Differs, StatusDiffers
    <3> QED
      BY <3>1, <3>2
  <2> QED
    BY <2>1, <2>3 DEF QueueInv, Building
<1> QED
  BY <1>2, <1>3, <1>4, <1>5

\* Conditions do not touch what the pass will patch of the metadata.
LEMMA MarkLeaves ==
    ASSUME NEW t \in Tenant, NEW type \in ConditionTypes,
           NEW status \in {"True", "False"}, NEW now \in Times
    PROVE  /\ Mark(t, type, status, now).finalizers = t.finalizers
           /\ Mark(t, type, status, now).deleting = t.deleting
           /\ IsTrue(Mark(t, type, "True", now), type)
BY DEF Mark, Tenant, IsTrue

\* reconcileNormal: it ends in an error, with a requeue, or Ready.
LEMMA BuildQueue ==
    ASSUME TypeOK, QueueInv, Build
    PROVE  QueueInv'
<1> SUFFICES ASSUME Calm'
             PROVE  QueueInv'
  BY DEF QueueInv
<1>1. /\ Building /\ UNCHANGED <<versions, read, before, queued, timer>>
      /\ pc' \in {"get", "sign", "create", "check", "defer"}
      /\ tenant \in Tenant /\ Stored \in Tenant /\ {"Provisioned", "Ready"} = ConditionTypes
  BY BuildKeeps, CalmFacts
     DEF ConditionTypes, Build, GetFound, GetNotFound, GetFails, ParseCASecret,
         ParseCASecretFails, Create, CreateFails, CheckDeploy, CheckDeployFails, queueVars
<1>2. /\ Stored' = Stored /\ tenant.finalizers = Stored.finalizers
      /\ Own(tenant) /\ ~tenant.deleting /\ ~Stored.deleting
  BY <1>1 DEF QueueInv, Calm, Stored
<1> DEFINE Goal ==
      /\ tenant'.finalizers = tenant.finalizers /\ tenant'.deleting = tenant.deleting
      /\ \/ pc' # "defer" \/ reterr' \/ requeue'
         \/ tenant' \in Tenant /\ IsTrue(tenant, "Ready")'
<1>3. ASSUME Ensured PROVE Goal
  BY <1>1, <1>3, MarkLeaves DEF Ensured, Proceed, Goto
<1>4. ASSUME FailStep PROVE Goal
  BY <1>1, <1>4, MarkLeaves DEF FailStep, Leave, Goto
<1>5. ASSUME CheckDeploy PROVE Goal
  <2>1. CASE tenant' = tenant /\ (pc' = "check" \/ requeue')
    BY <2>1
  <2>2. CASE \E now \in Times : tenant' = Mark(tenant, "Ready", "True", now)
    BY <1>1, <2>2, MarkLeaves, MarkType DEF IsTrue
  <2> QED
    BY <1>5, <2>1, <2>2 DEF CheckDeploy, Proceed, Leave, Goto
<1>6. ASSUME GetNotFound \/ ParseCASecret \/ CheckDeployFails PROVE Goal
  BY <1>6 DEF GetNotFound, ParseCASecret, CheckDeployFails, Proceed, Leave, Goto
<1> HIDE DEF Goal
<1>7. Goal
  BY <1>3, <1>4, <1>5, <1>6
     DEF Build, GetFound, GetFails, ParseCASecretFails, Create, CreateFails
<1>8. CASE pc' # "defer"
  BY <1>1, <1>2, <1>7, <1>8 DEF Goal, QueueInv, Own, Building
<1>9. CASE pc' = "defer" /\ (reterr' \/ requeue')
  BY <1>9 DEF QueueInv, Building, Retried
<1>10. CASE pc' = "defer" /\ tenant' \in Tenant /\ IsTrue(tenant, "Ready")'
  <2>1. ~Differs(Stored, ReconcilePhase(tenant')) => Settled(Stored)
    <3>1. /\ ReconcilePhase(tenant').finalizers = Stored.finalizers
          /\ ReconcilePhase(tenant').conds = tenant'.conds
          /\ ReconcilePhase(tenant').phase = "Ready"
          /\ TenantFinalizer \in Stored.finalizers
      BY <1>2, <1>7, <1>10, PhaseFacts DEF Goal, Own, IsTrue
    <3> QED
      BY <1>2, <1>10, <3>1 DEF Differs, StatusDiffers, Settled, Own, IsTrue
  <2> QED
    BY <1>2, <1>10, <2>1 DEF QueueInv, Building, Differs, Settled, Own, IsTrue,
                             MetadataDiffers, StatusDiffers
<1> QED
  BY <1>7, <1>8, <1>9, <1>10 DEF Goal

\* The end of a pass: it is added again, or there was nothing left to do.
LEMMA PassEndsQuietly ==
    ASSUME NEW failed \in BOOLEAN, Return(failed), Calm',
           Retried \/ failed \/ (Stored.exists => Settled(Stored))',
           TypeOK
    PROVE  QueueInv'
<1>1. pc' = "idle" /\ ~Retried /\ ~failed
  BY DEF Return, IdleWorker, Calm, Retried, TypeOK, WorkerTypeOK, QueueTypeOK
<1> QED
  BY <1>1 DEF QueueInv, Building

\* The deferred function writes what differs, and that brings an event.
LEMMA PatchQueue ==
    ASSUME TypeOK, QueueInv, Patch
    PROVE  QueueInv'
<1> SUFFICES ASSUME Calm'
             PROVE  QueueInv'
  BY DEF QueueInv
<1>1. /\ TenantTypeOK /\ Stored \in Tenant /\ tenant \in Tenant /\ before \in Tenant
      /\ Shown \in Tenant
  BY CalmFacts
<1>2. UNCHANGED queued
  BY DEF Patch, Deferred, DeferredNotFound, PatchMetadata, PatchMetadataFails, PatchStatus,
         PatchStatusFails, Return, queueVars
<1>3. ~timer /\ ~queued
  BY <1>2 DEF Calm, Patch, Deferred, DeferredNotFound, PatchMetadata, PatchMetadataFails,
              PatchStatus, PatchStatusFails, Return, queueVars
<1>4. CASE DeferredNotFound
  <2>1. versions' = versions /\ Stored' = Stored /\ Shown = Stored
    BY <1>4, CalmFacts DEF DeferredNotFound, Stored, Calm
  <2>2. Return(FALSE) /\ ~Stored.exists
    BY <1>4, <2>1 DEF DeferredNotFound
  <2> QED
    BY <2>1, <2>2, PassEndsQuietly
<1>5. CASE Deferred
  <2> DEFINE mem == ReconcilePhase(tenant)
  <2>1. versions' = versions /\ Stored' = Stored /\ Shown = Stored /\ pc = "defer"
    BY <1>5, CalmFacts DEF Deferred, Stored, Calm
  <2>2. Calm
    BY <1>3, <2>1 DEF Calm
  <2>3. Retried \/ Settled(Stored) \/ Differs(Stored, mem)
    BY <1>5, <2>1, <2>2 DEF QueueInv, Deferred
  <2>4. CASE ~Differs(Shown, mem)
    <3>1. Return(FALSE)
      BY <1>5, <2>4 DEF Deferred, Differs
    <3>2. Retried \/ (Stored.exists => Settled(Stored))'
      BY <2>1, <2>3, <2>4 DEF Settled, Own, IsTrue
    <3> QED
      BY <3>1, <3>2, PassEndsQuietly
  <2>5. CASE Differs(Shown, mem)
    <3>1. /\ pc' = IF MetadataDiffers(Shown, mem) THEN "patch" ELSE "status"
          /\ tenant' = mem /\ before' = Shown
      BY <1>5, <2>5 DEF Deferred, Differs, Goto
    <3>2. CASE MetadataDiffers(Shown, mem)
      <4>1. pc' = "patch" /\ MetadataDiffers(Stored', tenant')
        BY <2>1, <3>1, <3>2
      <4> QED
        BY <4>1 DEF QueueInv, Building, MetadataDiffers
    <3>3. CASE ~MetadataDiffers(Shown, mem)
      <4>1. pc' = "status" /\ before' = Stored' /\ StatusDiffers(Stored', tenant')
        BY <2>1, <2>5, <3>1, <3>3 DEF Differs
      <4> QED
        BY <4>1 DEF QueueInv, Building, StatusDiffers
    <3> QED
      BY <3>2, <3>3
  <2> QED
    BY <2>4, <2>5
<1>6. CASE PatchMetadata
  <2> DEFINE t == WithFinalizers(Stored, tenant.finalizers)
  <2>1. t \in Tenant
    BY <1>1, WithFinalizersType DEF Tenant
  <2>2. Store(t) /\ pc = "patch"
    BY <1>6 DEF PatchMetadata
  <2>3. t = Stored /\ versions' = versions
    <3> HIDE DEF t
    <3> QED
      BY <1>1, <2>1, <2>2, WriteIsSeen
  <2>4. ~MetadataDiffers(Stored, tenant)
    <3>1. CASE Stored.deleting /\ tenant.finalizers = {}
      <4>1. Stored = Gone(Stored.uid)
        BY <2>3, <3>1 DEF WithFinalizers
      <4>2. Gone(Stored.uid).deleting = FALSE
        BY DEF Gone
      <4> QED
        BY <3>1, <4>1, <4>2
    <3>2. CASE ~(Stored.deleting /\ tenant.finalizers = {})
      <4>1. Stored = [Stored EXCEPT !.finalizers = tenant.finalizers]
        BY <2>3, <3>2 DEF WithFinalizers
      <4>2. Stored.finalizers = tenant.finalizers
        BY <1>1, <4>1 DEF Tenant
      <4> QED
        BY <4>2 DEF MetadataDiffers
    <3> QED
      BY <3>1, <3>2
  <2>5. Retried
    BY <1>3, <2>2, <2>3, <2>4 DEF QueueInv, Calm
  <2>6. CASE pc' = "status" /\ UNCHANGED <<reterr, requeue>>
    BY <2>5, <2>6 DEF QueueInv, Building, Retried
  <2>7. ASSUME NEW failed \in BOOLEAN, Return(failed)
        PROVE  QueueInv'
    BY <2>5, <2>7, PassEndsQuietly
  <2> QED
    BY <1>6, <2>6, <2>7 DEF PatchMetadata, Goto
<1>7. CASE PatchStatus
  <2> DEFINE t == StatusPatched(Stored, before, tenant)
  <2>1. t \in Tenant
    BY <1>1, StatusPatchedType
  <2>2. Store(t) /\ pc = "status"
    BY <1>7 DEF PatchStatus
  <2>3. t = Stored /\ versions' = versions
    <3> HIDE DEF t
    <3> QED
      BY <1>1, <2>1, <2>2, WriteIsSeen
  <2>4. ~(before = Stored /\ StatusDiffers(Stored, tenant))
    BY <1>1, <2>3 DEF StatusPatched, StatusDiffers, Tenant
  <2>5. Retried
    BY <1>3, <2>2, <2>3, <2>4 DEF QueueInv, Calm
  <2> QED
    BY <1>7, <2>5, PassEndsQuietly DEF PatchStatus
<1>8. CASE PatchMetadataFails \/ PatchStatusFails
  BY <1>8, PassEndsQuietly DEF PatchMetadataFails, PatchStatusFails
<1> QED
  BY <1>4, <1>5, <1>6, <1>7, <1>8 DEF Patch

\* The manager's own steps add the key, unless there is no tenant.
LEMMA ManagerQueue ==
    ASSUME TypeOK, QueueInv, Manager
    PROVE  QueueInv'
<1> SUFFICES ASSUME Calm'
             PROVE  QueueInv'
  BY DEF QueueInv
<1>1. Crash
  BY DEF Calm, Manager, Deliver, FireTimer, Resync
<1>2. PICK first \in 1..Len(versions) :
         /\ versions' = SubSeq(versions, first, Len(versions))
         /\ queued' = versions[first].exists
  BY <1>1 DEF Crash
<1>3. /\ first \in Nat /\ Len(versions) \in Nat
      /\ Len(versions') = Len(versions) - first + 1
      /\ versions'[Len(versions')] = versions[Len(versions)]
  BY <1>2 DEF TypeOK, TenantTypeOK
<1>4. Stored' = Stored /\ ~Stored.exists
  BY <1>2, <1>3 DEF Calm, Stored
<1>5. pc' = "idle"
  BY <1>1 DEF Crash, IdleWorker
<1> QED
  BY <1>4, <1>5 DEF QueueInv, Building

\* A write of another client brings an event as well.
LEMMA OthersQueue ==
    ASSUME TypeOK, QueueInv, NEW t \in Tenant, StoreByOthers(t),
           UNCHANGED <<queueVars, workerVars>>
    PROVE  QueueInv'
<1> SUFFICES ASSUME Calm'
             PROVE  QueueInv'
  BY DEF QueueInv
<1>1. versions' = versions
  BY WriteIsSeen DEF StoreByOthers, TypeOK
<1> QED
  BY <1>1 DEF QueueInv, Calm, queueVars, workerVars, Stored, Settled, Own, Differs, Retried,
              Building

LEMMA ClientsQueue ==
    ASSUME TypeOK, QueueInv, Clients
    PROVE  QueueInv'
BY ClientsWrite, OthersQueue

LEMMA QueueStep ==
    ASSUME TypeOK, QueueInv, [Next]_vars
    PROVE  QueueInv'
<1>1. CASE Host \/ UNCHANGED vars
  BY <1>1 DEF Host, HostStep, PodFailure, PodRecovery, vars, tenantVars, queueVars,
              workerVars, QueueInv, Calm, Stored, Settled, Own, Differs, Retried, Building
<1> QED
  BY <1>1, ReconcileQueue, BuildQueue, PatchQueue, ManagerQueue, ClientsQueue
     DEF Next, Worker, Build, Patch, Manager, Clients, Host

\* Nobody waits for what does not come: when the queue is empty, no timer is
\* pending and the informer is up to date, a tenant that exists is Ready and
\* says so, whatever failed, was lost or was cut off by a restart before.
THEOREM NothingEverForgotten == Spec => []NothingForgotten
<1>1. TypeOK /\ QueueInv /\ [Next]_vars => QueueInv'
  BY QueueStep
<1>2. QueueInv => NothingForgotten
  BY DEF QueueInv, Calm, NothingForgotten, Quiescent, Settled, Own
<1> QED
  BY QueueInit, TypeCorrect, <1>1, <1>2, PTL DEF Spec
===============================================================================
