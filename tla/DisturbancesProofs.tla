--------------------------- MODULE DisturbancesProofs ---------------------------
(***************************************************************************)
(* What the controller's guarantees become when a request of the former    *)
(* leader reaches the API server late, at any moment of its successor's    *)
(* work: for every lag of the informer, every number of hand-overs,        *)
(* failures and restarts.                                                  *)
(***************************************************************************)
EXTENDS Disturbances, LifecycleProofs

-----------------------------------------------------------------------------
(* Steps *)

\* A step of the controller, the cluster or a client, among the disturbances.
LEMMA OrdinaryStep ==
    ASSUME Ordinary
    PROVE  /\ [Next]_vars /\ UNCHANGED manual
           /\ late' = late \/ late' = [late EXCEPT !.rv = "moved"]
BY DEF Ordinary, Overtake

LEMMA HandOverStep ==
    ASSUME HandOver
    PROVE  /\ [Next]_vars /\ Crash /\ Manager /\ UNCHANGED manual
           /\ late' = NoRequest \/ late' = Request
BY DEF HandOver, Next, Manager

\* The late requests are writes of the tenant by somebody else, or of an object.
LEMMA LateStep ==
    ASSUME LateArrives
    PROVE  /\ late' = NoRequest /\ UNCHANGED <<queueVars, workerVars, spent, manual>>
           /\ \/ LateCreate /\ UNCHANGED tenantVars
              \/ LateMetadata /\ UNCHANGED hostVars
              \/ LateStatus /\ UNCHANGED hostVars
              \/ UNCHANGED <<hostVars, tenantVars>>
BY DEF LateArrives, LateCreate, LateMetadata, LateStatus, LateRefused, Arrived

LEMMA ByHandStep ==
    ASSUME NEW o \in ByHand, DeleteByHand(o)
    PROVE  UNCHANGED <<tenantVars, queueVars, workerVars, spent, late>>
BY DEF DeleteByHand

-----------------------------------------------------------------------------
(* Types *)

LEMMA NoRequestType == NoRequest \in Requests
<1>1. Gone(0) \in Tenant
  <2>1. 0 \in 0..MaxUid
    BY MaxUidAssumption
  <2> QED
    BY <2>1, GoneType
<1> QED
  BY <1>1 DEF NoRequest, Requests, Children, Order

\* What a worker sends is what it holds.
LEMMA RequestType ==
    ASSUME TypeOK
    PROVE  Request \in Requests
<1>1. Child \in Children /\ tenant \in Tenant /\ before \in Tenant
      /\ signer \in CAs \cup {0} /\ rv \in {"none", "same", "moved"}
  BY OrderLength DEF TypeOK, WorkerTypeOK, TenantTypeOK, Child, Children
<1> QED
  BY <1>1, NoRequestType DEF Request, Requests

\* A new object, whoever asks for it.
LEMMA LateCreateType ==
    ASSUME DisturbancesTypeOK, LateCreate
    PROVE  HostTypeOK'
<1>1. HostTypeOK /\ late.child \in Children /\ late.mem.uid \in 0..MaxUid
  BY DEF DisturbancesTypeOK, TypeOK, Requests, Tenant
<1>2. FreshCA \in CAs /\ late.signer \in CAs \cup {0}
  BY FreshCAType DEF DisturbancesTypeOK, TypeOK, Requests
<1> DEFINE c == IF late.child = "server-cert" THEN FreshCA ELSE late.signer
<1>3. c \in CAs \cup {0} /\ CreateObject(late.child, late.mem.uid, c)
  BY <1>2 DEF LateCreate
<1> HIDE DEF c
<1> QED
  BY <1>1, <1>3, CreateObjectType

\* What the late patches write.
LEMMA LateWrites ==
    ASSUME DisturbancesTypeOK
    PROVE  /\ TenantTypeOK /\ Stored \in Tenant /\ late.mem \in Tenant
           /\ WithFinalizers(Stored, late.mem.finalizers) \in Tenant
           /\ StatusPatched(Stored, late.before, late.mem) \in Tenant
           /\ LateMetadata => StoreByOthers(WithFinalizers(Stored, late.mem.finalizers))
           /\ LateStatus => StoreByOthers(StatusPatched(Stored, late.before, late.mem))
<1>1. /\ TenantTypeOK /\ Stored \in Tenant /\ late.mem \in Tenant /\ late.before \in Tenant
      /\ late.mem.finalizers \in SUBSET Finalizers
  BY VersionsType DEF DisturbancesTypeOK, TypeOK, Requests, Tenant
<1> QED
  BY <1>1, WithFinalizersType, StatusPatchedType DEF LateMetadata, LateStatus

LEMMA DisturbancesTypeStep ==
    ASSUME DisturbancesTypeOK, [DNext]_dvars
    PROVE  DisturbancesTypeOK'
<1>1. TypeOK /\ late \in Requests /\ manual \in 0..MaxManual
  BY DEF DisturbancesTypeOK
<1>2. CASE Ordinary
  <2>1. late' \in Requests
    BY <1>1, <1>2, OrdinaryStep DEF Requests
  <2> QED
    BY <1>1, <1>2, <2>1, OrdinaryStep, TypeStep DEF DisturbancesTypeOK
<1>3. CASE HandOver
  BY <1>1, <1>3, HandOverStep, TypeStep, RequestType, NoRequestType DEF DisturbancesTypeOK
<1>4. CASE LateArrives
  <2>1. late' = NoRequest /\ UNCHANGED <<queueVars, workerVars, spent, manual>>
    BY <1>4, LateStep
  <2>2. late' \in Requests /\ manual' \in 0..MaxManual
    BY <1>1, <2>1, NoRequestType
  <2>3. QueueTypeOK' /\ WorkerTypeOK' /\ SpentTypeOK'
    BY <1>1, <2>1 DEF TypeOK, queueVars, workerVars, QueueTypeOK, WorkerTypeOK, SpentTypeOK
  <2>4. HostTypeOK'
    <3>1. UNCHANGED hostVars => HostTypeOK'
      BY <1>1 DEF TypeOK, hostVars, HostTypeOK
    <3> QED
      BY <1>4, <3>1, LateStep, LateCreateType
  <2>5. TenantTypeOK'
    <3>1. UNCHANGED tenantVars => TenantTypeOK'
      BY <1>1 DEF TypeOK, tenantVars, TenantTypeOK
    <3> QED
      BY <1>4, <3>1, LateStep, LateWrites, StoreByOthersType
  <2> QED
    BY <2>2, <2>3, <2>4, <2>5 DEF DisturbancesTypeOK, TypeOK
<1>5. ASSUME NEW o \in ByHand, DeleteByHand(o) PROVE DisturbancesTypeOK'
  <2>1. /\ UNCHANGED <<tenantVars, queueVars, workerVars, spent, late>>
        /\ manual' \in 0..MaxManual
    BY <1>1, <1>5, ManualAssumption DEF DeleteByHand
  <2>2. TenantTypeOK' /\ QueueTypeOK' /\ WorkerTypeOK' /\ SpentTypeOK'
    BY <1>1, <2>1 DEF TypeOK, tenantVars, queueVars, workerVars, TenantTypeOK, QueueTypeOK,
                      WorkerTypeOK, SpentTypeOK
  <2>3. HostTypeOK'
    <3>1. HostTypeOK /\ o \in Children
      BY <1>1, ManualAssumption DEF TypeOK
    <3>2. CASE o = "namespace"
      BY <1>5, <3>1, <3>2 DEF DeleteByHand, HostTypeOK
    <3>3. CASE o # "namespace"
      BY <1>5, <3>1, <3>3, RemoveType DEF DeleteByHand, HostTypeOK
    <3> QED
      BY <3>2, <3>3
  <2> QED
    BY <1>1, <2>1, <2>2, <2>3 DEF DisturbancesTypeOK, TypeOK
<1>6. CASE UNCHANGED dvars
  <2>1. UNCHANGED vars /\ late' = late /\ manual' = manual
    BY <1>6 DEF dvars
  <2>2. TypeOK'
    BY <1>1, <2>1, TypeStep
  <2> QED
    BY <1>1, <2>1, <2>2 DEF DisturbancesTypeOK
<1> QED
  BY <1>2, <1>3, <1>4, <1>5, <1>6 DEF DNext

\* Late requests and deletions by hand included, every variable keeps its type.
THEOREM DisturbancesTypeCorrect == DSpec => []DisturbancesTypeOK
<1>1. DInit => DisturbancesTypeOK
  BY InitType, NoRequestType, ManualAssumption DEF DInit, DisturbancesTypeOK
<1>2. DisturbancesTypeOK /\ [DNext]_dvars => DisturbancesTypeOK'
  BY DisturbancesTypeStep
<1> QED
  BY <1>1, <1>2, PTL DEF DSpec

-----------------------------------------------------------------------------
(* The finalizer guards what is built, with one incarnation of the name *)

\* A pass reads a tenant, and builds for one that was not being deleted.
PassStarted == pc # "idle" => read.uid > 0 /\ (Building => ~read.deleting)

\* A worker for which this is what it sees has seen the tenant's deletion.
Deletion(t) == t.uid > 0 /\ (t.exists => t.deleting)

\* The finalizer is on its way out only after the former leader has read the
\* deletion, and so will its successor.
LateKnown == late.verb = "patch" /\ ~Own(late.mem) => Deletion(Eye)

\* What a step does to the worker's read.
LEMMA ReadStays ==
    ASSUME TypeOK, [Next]_vars, pc' # "idle"
    PROVE  \/ pc # "idle" /\ read' = read /\ (Building' => Building)
           \/ pc = "idle" /\ read' = Shown /\ Shown.exists /\ versions' = versions
              /\ (Building' => ~Shown.deleting)
<1>1. CASE ReconcileNotFound \/ ReconcileAddFinalizer \/ ReconcileDelete \/ ReconcileNormal
  BY <1>1 DEF ReconcileNotFound, ReconcileAddFinalizer, ReconcileDelete, ReconcileNormal,
              StartPass, Begin, Leave, Goto, workerVars, tenantVars, Building
<1>2. CASE Build
  BY <1>2, BuildKeeps DEF Building
<1>3. CASE Patch
  BY <1>3 DEF Patch, Deferred, DeferredNotFound, PatchMetadata, PatchMetadataFails,
              PatchStatus, PatchStatusFails, Return, IdleWorker, Goto, Building
<1>4. CASE Manager
  BY <1>4 DEF Manager, Deliver, FireTimer, Resync, Crash, IdleWorker, workerVars, Building
<1>5. CASE Clients \/ Host \/ UNCHANGED vars
  BY <1>5, ClientsWrite DEF Host, HostStep, PodFailure, PodRecovery, vars, workerVars, Building
<1> QED
  BY <1>1, <1>2, <1>3, <1>4, <1>5 DEF Next, Worker, Build, Patch, Manager, Clients, Host

\* What the informer shows moves forward.
LEMMA ShownForward ==
    ASSUME TypeOK, FinalizerInv, [Next]_vars
    PROVE  Older(Shown, Shown')
<1>1. /\ TenantTypeOK /\ Stored \in Tenant /\ tenant \in Tenant /\ before \in Tenant
      /\ Shown \in Tenant /\ Shown = versions[1] /\ 1 \in Versions
      /\ \A i \in Versions : Older(Shown, versions[i])
  BY VersionType DEF TypeOK, WorkerTypeOK, FinalizerInv, Ordered, Versions
<1>2. Older(Shown, Shown)
  BY <1>1
<1>3. ASSUME NEW t \in Tenant, Store(t) PROVE Older(Shown, Shown')
  BY <1>1, <1>2, <1>3, StoreEffect
<1>4. CASE versions' = versions
  BY <1>2, <1>4 DEF Shown
<1>5. CASE PatchMetadata
  <2>1. WithFinalizers(Stored, tenant.finalizers) \in Tenant
    BY <1>1, WithFinalizersType DEF Tenant
  <2> QED
    BY <1>3, <1>5, <2>1 DEF PatchMetadata
<1>6. CASE PatchStatus
  <2>1. StatusPatched(Stored, before, tenant) \in Tenant
    BY <1>1, StatusPatchedType
  <2> QED
    BY <1>3, <1>6, <2>1 DEF PatchStatus
<1>7. CASE Clients
  BY <1>3, <1>7, ClientsWrite DEF StoreByOthers
<1>8. CASE Deliver
  <2>1. Shown' = versions[2] /\ 2 \in Versions
    BY <1>1, <1>8 DEF Deliver, TenantTypeOK, Versions, Shown
  <2> QED
    BY <1>1, <2>1
<1>9. CASE Crash
  <2>1. PICK first \in Versions : versions' = SubSeq(versions, first, Len(versions))
    BY <1>9 DEF Crash, Versions
  <2>2. Shown' = versions[first]
    BY <1>1, <2>1 DEF TenantTypeOK, Versions, Shown
  <2> QED
    BY <1>1, <2>1, <2>2
<1>10. CASE \/ ReconcileNotFound \/ ReconcileAddFinalizer \/ ReconcileDelete \/ ReconcileNormal
            \/ Deferred \/ DeferredNotFound \/ PatchMetadataFails \/ PatchStatusFails
            \/ FireTimer \/ Resync \/ Host \/ UNCHANGED vars
  BY <1>4, <1>10
     DEF ReconcileNotFound, ReconcileAddFinalizer, ReconcileDelete, ReconcileNormal, StartPass,
         Begin, Deferred, DeferredNotFound, PatchMetadataFails, PatchStatusFails, FireTimer,
         Resync, Host, HostStep, PodFailure, PodRecovery, vars, tenantVars
<1>11. CASE Build
  BY <1>4, <1>11, BuildKeeps
<1> QED
  BY <1>5, <1>6, <1>7, <1>8, <1>9, <1>10, <1>11
     DEF Next, Worker, Build, Clients, Host

\* So does what the worker has read, or would read.
LEMMA EyeForward ==
    ASSUME TypeOK, TypeOK', FinalizerInv, FinalizerInv', [Next]_vars
    PROVE  Older(Eye, Eye')
<1>1. Shown \in Tenant /\ Shown' \in Tenant /\ read \in Tenant /\ read' \in Tenant
  BY VersionsType DEF TypeOK, WorkerTypeOK, Shown, TenantTypeOK
<1>2. Older(Eye, Shown)
  BY <1>1, OlderReflexive DEF Eye, FinalizerInv, PassOK
<1>3. Older(Shown, Shown')
  BY ShownForward
<1>4. CASE pc' = "idle"
  BY <1>1, <1>2, <1>3, <1>4, OlderTransitive DEF Eye
<1>5. CASE pc' # "idle"
  <2>1. Eye' = read'
    BY <1>5 DEF Eye
  <2>2. \/ pc # "idle" /\ read' = read
        \/ pc = "idle" /\ read' = Shown
    BY <1>5, ReadStays
  <2>3. read' = Eye
    BY <2>2 DEF Eye
  <2> QED
    BY <1>1, <2>1, <2>3, OlderReflexive
<1> QED
  BY <1>4, <1>5

\* What has been seen of the deletion stays seen.
LEMMA DeletionKnown ==
    ASSUME OneIncarnation, NEW a \in Tenant, NEW b \in Tenant, Deletion(a), Older(a, b)
    PROVE  Deletion(b)
<1>1. a.uid = b.uid
  BY MaxUidAssumption DEF OneIncarnation, Deletion, Older, Tenant
<1> QED
  BY <1>1 DEF Deletion, Older

LEMMA EyeTypes ==
    ASSUME TypeOK, TypeOK'
    PROVE  Eye \in Tenant /\ Eye' \in Tenant
BY VersionsType DEF TypeOK, WorkerTypeOK, TenantTypeOK, Shown, Eye

LEMMA PassStartedStep ==
    ASSUME TypeOK, FinalizerInv, PassStarted, [Next]_vars
    PROVE  PassStarted'
<1> SUFFICES ASSUME pc' # "idle"
             PROVE  read'.uid > 0 /\ (Building' => ~read'.deleting)
  BY DEF PassStarted
<1>1. CASE pc # "idle" /\ read' = read /\ (Building' => Building)
  BY <1>1 DEF PassStarted
<1>2. CASE read' = Shown /\ Shown.exists /\ (Building' => ~Shown.deleting)
  <2>1. Shown = versions[1] /\ 1 \in Versions
    BY VersionType DEF TypeOK
  <2> QED
    BY <1>2, <2>1 DEF FinalizerInv, Shaped
<1> QED
  BY <1>1, <1>2, ReadStays

\* The former leader's metadata patch has no precondition; with one incarnation
\* it can only reach the tenant that it was meant for.
LEMMA LateMetadataInv ==
    ASSUME OneIncarnation, DisturbancesTypeOK, FinalizerInv, PassStarted, LateKnown,
           LateMetadata
    PROVE  FinalizerInv'
<1> DEFINE t == WithFinalizers(Stored, late.mem.finalizers)
<1>1. /\ TenantTypeOK /\ read \in Tenant /\ before \in Tenant /\ tenant \in Tenant
      /\ Shown \in Tenant /\ Stored \in Tenant /\ late.mem \in Tenant /\ t \in Tenant
      /\ Store(t)
  BY LateWrites, VersionType
     DEF DisturbancesTypeOK, TypeOK, WorkerTypeOK, StoreByOthers
<1>2. /\ late.verb = "patch" /\ Stored.exists
      /\ Stored.deleting => late.mem.finalizers \subseteq Stored.finalizers
      /\ UNCHANGED <<pc, read, tenant, before>>
  BY DEF LateMetadata, Arrived, workerVars
<1>3. /\ t.uid = Stored.uid
      /\ Own(t) <=> Own(late.mem)
      /\ Own(t) => t.exists
      /\ t.exists => t.deleting = Stored.deleting /\ t.finalizers = late.mem.finalizers
  BY <1>1, <1>2 DEF WithFinalizers, Gone, Own, Tenant
<1>4. Older(Stored, t) /\ Stored.uid > 0
  BY <1>1, <1>2, <1>3, StoredFacts DEF Older, Tenant, DisturbancesTypeOK
<1> HIDE DEF t
<1>5. Shaped' /\ Ordered'
  BY <1>1, <1>3, <1>4, StoreOrdered DEF FinalizerInv
<1>6. /\ Stored' = t /\ Shown' = Shown /\ Eye' = Eye /\ Eye \in Tenant
      /\ \A i \in Versions' : \/ i \in Versions /\ versions'[i] = versions[i]
                              \/ versions'[i] = t
  BY <1>1, <1>2, StoreEffect DEF Eye
<1>7. \A i \in Versions' : versions'[i] \in Tenant /\ versions'[i].uid <= 1
  BY <1>1, <1>6, VersionType, MaxUidAssumption DEF OneIncarnation, Tenant
<1>8. Own(late.mem) \/ Deletion(Eye)
  BY <1>2 DEF LateKnown
<1>9. ASSUME NEW i \in Versions', Own(versions'[i])
      PROVE  \/ t.uid = versions'[i].uid /\ Own(t)
             \/ Eye.uid = versions'[i].uid /\ Eye.exists /\ Eye.deleting
  <2>1. versions'[i].exists /\ versions'[i].uid = 1
    BY <1>5, <1>7, <1>9 DEF Shaped, Own, Tenant
  <2>2. CASE Own(late.mem)
    BY <1>1, <1>3, <1>4, <2>1, <2>2, MaxUidAssumption DEF OneIncarnation, Tenant
  <2>3. CASE Deletion(Eye)
    <3>1. Eye.uid = 1
      BY <1>6, <2>3, MaxUidAssumption DEF Deletion, OneIncarnation, Tenant
    <3>2. CASE versions'[i] = t
      BY <1>3, <1>9, <2>1, <3>2
    <3>3. CASE i \in Versions /\ versions'[i] = versions[i]
      <4>1. Older(Eye, Shown) /\ Older(Shown, versions[i]) /\ versions[i] \in Tenant
        BY <1>1, <3>3, VersionType, OlderReflexive
           DEF Eye, FinalizerInv, PassOK, Ordered, Versions
      <4>2. Older(Eye, versions[i])
        BY <1>1, <1>6, <4>1, OlderTransitive
      <4> QED
        BY <2>1, <2>3, <3>1, <3>3, <4>2 DEF Older, Deletion
    <3> QED
      BY <1>6, <3>2, <3>3
  <2> QED
    BY <1>8, <2>2, <2>3
<1>10. Kept'
  BY <1>6, <1>9 DEF Kept, KeptBut, Own
<1>11. OneAtATime'
  BY <1>5, <1>7 DEF OneAtATime, Shaped, Own, Tenant
<1>12. PassOK' /\ BeforeOK'
  BY <1>2, <1>6 DEF FinalizerInv, PassOK, BeforeOK, Own
<1>13. ReadOK'
  BY <1>1, <1>2, <1>7 DEF PassStarted, ReadOK, Tenant
<1>14. FinalizerGuard'
  <2> SUFFICES ASSUME Building
               PROVE  t.exists /\ t.uid = tenant.uid /\ Own(t)
    BY <1>2, <1>6 DEF FinalizerGuard, Building, Own
  <2>1. pc # "idle" /\ ~read.deleting /\ read.exists /\ Stored.uid = tenant.uid
    BY DEF Building, PassStarted, FinalizerInv, FinalizerGuard, PassOK
  <2>2. Own(late.mem)
    BY <1>8, <2>1 DEF Eye, Deletion
  <2> QED
    BY <1>3, <2>1, <2>2
<1> QED
  BY <1>5, <1>10, <1>11, <1>12, <1>13, <1>14 DEF FinalizerInv

LEMMA LateStatusInv ==
    ASSUME DisturbancesTypeOK, FinalizerInv, LateStatus
    PROVE  FinalizerInv'
<1> DEFINE t == StatusPatched(Stored, late.before, late.mem)
<1>1. TypeOK /\ Stored \in Tenant /\ t \in Tenant /\ StoreByOthers(t)
  BY LateWrites DEF DisturbancesTypeOK
<1>2. /\ t.uid = Stored.uid /\ t.exists = Stored.exists
      /\ t.deleting = Stored.deleting /\ t.finalizers = Stored.finalizers
      /\ Stored.exists /\ UNCHANGED workerVars
  BY <1>1 DEF StatusPatched, Tenant, LateStatus, Arrived
<1> HIDE DEF t
<1>3. Stored.uid > 0
  BY <1>1, <1>2, StoredFacts
<1>4. Harmless(t)
  BY <1>1, <1>2, <1>3 DEF Harmless, Older, Own, Tenant
<1> QED
  BY <1>1, <1>2, <1>4, OthersInv

DFinalizerInv == FinalizerInv /\ PassStarted /\ LateKnown

\* What the former leader had sent, it sent knowing what its successor will know.
LEMMA RequestKnown ==
    ASSUME OneIncarnation, TypeOK, TypeOK', DFinalizerInv, FinalizerInv', [Next]_vars,
           late' = Request
    PROVE  LateKnown'
<1> SUFFICES ASSUME pc = "patch", ~Own(tenant)
             PROVE  Deletion(Eye')
  BY DEF LateKnown, Request, NoRequest, Own, Deletion
<1>1. read.exists /\ read.deleting /\ read.uid > 0
  BY DEF DFinalizerInv, FinalizerInv, PassOK, PassStarted
<1>2. Deletion(Eye)
  BY <1>1 DEF Eye, Deletion
<1> QED
  BY <1>2, EyeTypes, EyeForward, DeletionKnown DEF DFinalizerInv

LEMMA LateKnownStep ==
    ASSUME OneIncarnation, TypeOK, TypeOK', DFinalizerInv, FinalizerInv', [Next]_vars,
           late \in Requests, late'.verb = late.verb, late'.mem = late.mem
    PROVE  LateKnown'
<1> SUFFICES ASSUME late.verb = "patch", ~Own(late.mem)
             PROVE  Deletion(Eye')
  BY DEF LateKnown, Own, Deletion
<1>1. Deletion(Eye)
  BY DEF DFinalizerInv, LateKnown
<1> QED
  BY <1>1, EyeTypes, EyeForward, DeletionKnown DEF DFinalizerInv

LEMMA DFinalizerInit == DInit => DFinalizerInv
<1> SUFFICES ASSUME DInit
             PROVE  DFinalizerInv
  OBVIOUS
<1>1. Init /\ late.verb = "none" /\ pc = "idle"
  BY DEF DInit, NoRequest, Init
<1> QED
  BY <1>1, InitInv DEF DFinalizerInv, PassStarted, LateKnown

\* Every step of DNext keeps it.
LEMMA DFinalizerStep ==
    ASSUME OneIncarnation, DisturbancesTypeOK, DisturbancesTypeOK', DFinalizerInv,
           [DNext]_dvars
    PROVE  DFinalizerInv'
<1>1. TypeOK /\ TypeOK' /\ late \in Requests /\ FinalizerInv /\ PassStarted /\ LateKnown
  BY DEF DisturbancesTypeOK, DFinalizerInv
<1>2. ASSUME [Next]_vars
      PROVE  FinalizerInv' /\ PassStarted'
  BY <1>1, <1>2, FinalizerStep, OneIncarnationUndisturbed, PassStartedStep
<1>3. CASE Ordinary \/ UNCHANGED dvars
  <2>1. [Next]_vars /\ late'.verb = late.verb /\ late'.mem = late.mem
    BY <1>1, <1>3, OrdinaryStep DEF dvars, Requests
  <2> QED
    BY <1>1, <1>2, <2>1, LateKnownStep DEF DFinalizerInv
<1>4. CASE HandOver
  <2>1. [Next]_vars /\ (late' = NoRequest \/ late' = Request)
    BY <1>4, HandOverStep
  <2>2. late' = NoRequest => LateKnown'
    BY DEF LateKnown, NoRequest
  <2> QED
    BY <1>1, <1>2, <2>1, <2>2, RequestKnown DEF DFinalizerInv
<1>5. CASE LateArrives
  <2>1. late' = NoRequest /\ UNCHANGED workerVars
    BY <1>5, LateStep
  <2>2. PassStarted' /\ LateKnown'
    BY <1>1, <2>1 DEF workerVars, PassStarted, Building, LateKnown, NoRequest
  <2>3. UNCHANGED tenantVars => FinalizerInv'
    BY <1>1, <2>1, ElsewhereInv
  <2>4. FinalizerInv'
    BY <1>1, <1>5, <2>3, LateMetadataInv, LateStatusInv
       DEF LateArrives, LateCreate, LateRefused
  <2> QED
    BY <2>2, <2>4 DEF DFinalizerInv
<1>6. ASSUME NEW o \in ByHand, DeleteByHand(o)
      PROVE  DFinalizerInv'
  <2>1. UNCHANGED <<tenantVars, workerVars, late>>
    BY <1>6, ByHandStep
  <2>2. FinalizerInv'
    BY <1>1, <2>1, ElsewhereInv
  <2> QED
    BY <1>1, <2>1, <2>2
       DEF DFinalizerInv, tenantVars, workerVars, PassStarted, Building, LateKnown, Eye, Shown
<1> QED
  BY <1>3, <1>4, <1>5, <1>6 DEF DNext

\* The finalizer guards the first tenant of a name also when the last patch of the
\* former leader, which takes any finalizer list to whatever has the name, arrives
\* in the middle of its successor's pass, and whatever is deleted by hand.
THEOREM FinalizerGuardedFromTheFormerLeader ==
    ASSUME OneIncarnation
    PROVE  DSpec => []FinalizerGuard
<1>1. DisturbancesTypeOK /\ DisturbancesTypeOK' /\ DFinalizerInv /\ [DNext]_dvars
         => DFinalizerInv'
  BY DFinalizerStep
<1>2. DFinalizerInv => FinalizerGuard
  BY DEF DFinalizerInv, FinalizerInv
<1> QED
  BY DFinalizerInit, DisturbancesTypeCorrect, <1>1, <1>2, PTL DEF DSpec

-----------------------------------------------------------------------------
(* Conditions and queue: no premise *)

\* What the former leader is still to write is a list that a pass held.
DStatusInv == StatusInv /\ InOrder(late.mem)

LEMMA NothingInOrder == InOrder(Gone(0))
BY DEF InOrder, IsTrue, Gone, NoConditions, ConditionTypes

LEMMA RequestInOrder ==
    ASSUME StatusInv
    PROVE  InOrder(Request.mem)
BY NothingInOrder DEF Request, NoRequest, StatusInv

\* The late patches: conditions as they were, or those of the request.
LEMMA LateConditions ==
    ASSUME DisturbancesTypeOK
    PROVE  LET t == WithFinalizers(Stored, late.mem.finalizers)
               u == StatusPatched(Stored, late.before, late.mem)
           IN  /\ t.conds = Stored.conds \/ t.conds = NoConditions
               /\ u.conds = Stored.conds \/ u.conds = late.mem.conds
<1>1. Stored \in Tenant
  BY LateWrites
<1> QED
  BY <1>1 DEF WithFinalizers, StatusPatched, Gone, Tenant

LEMMA DStatusStep ==
    ASSUME DisturbancesTypeOK, DStatusInv, [DNext]_dvars
    PROVE  DStatusInv'
<1>1. TypeOK /\ late \in Requests /\ StatusInv /\ InOrder(late.mem)
  BY DEF DisturbancesTypeOK, DStatusInv
<1>2. CASE Ordinary \/ UNCHANGED dvars
  <2>1. [Next]_vars /\ late'.mem = late.mem
    BY <1>1, <1>2, OrdinaryStep DEF dvars, Requests
  <2> QED
    BY <1>1, <2>1, StatusStep DEF DStatusInv, InOrder, IsTrue
<1>3. CASE HandOver
  <2>1. InOrder(NoRequest.mem) /\ InOrder(Request.mem)
    BY <1>1, NothingInOrder, RequestInOrder DEF NoRequest
  <2> QED
    BY <1>1, <1>3, <2>1, HandOverStep, StatusStep DEF DStatusInv, InOrder, IsTrue
<1>4. CASE LateArrives
  <2>1. UNCHANGED workerVars /\ late' = NoRequest
    BY <1>4, LateStep
  <2>2. InOrder(late.mem)'
    BY <2>1, NothingInOrder DEF NoRequest, InOrder, IsTrue
  <2>3. TenantTypeOK /\ InOrder(Stored) /\ \A i \in Versions : InOrder(versions[i])
    BY <1>1, VersionType DEF TypeOK, StatusInv
  <2>4. ASSUME NEW t \in Tenant, StoreByOthers(t),
               t.conds \in {Stored.conds, NoConditions, late.mem.conds}
        PROVE  \A i \in Versions' : InOrder(versions'[i])
    <3>1. InOrder(t)
      BY <1>1, <2>3, <2>4 DEF InOrder, IsTrue, NoConditions, ConditionTypes
    <3> QED
      BY <2>3, <2>4, <3>1, StoreInOrder DEF StoreByOthers
  <2>5. UNCHANGED tenantVars => \A i \in Versions' : InOrder(versions'[i])
    BY <2>3 DEF tenantVars, Versions
  <2>6. \A i \in Versions' : InOrder(versions'[i])
    BY <1>4, <2>4, <2>5, LateStep, LateWrites, LateConditions
  <2> QED
    BY <1>1, <2>1, <2>2, <2>6 DEF DStatusInv, StatusInv, workerVars
<1>5. ASSUME NEW o \in ByHand, DeleteByHand(o)
      PROVE  DStatusInv'
  <2>1. UNCHANGED <<tenantVars, workerVars, late>>
    BY <1>5, ByHandStep
  <2> QED
    BY <1>1, <2>1 DEF tenantVars, workerVars, DStatusInv, StatusInv, Versions, InOrder, IsTrue
<1> QED
  BY <1>2, <1>3, <1>4, <1>5 DEF DNext

\* A status patch of the former leader that lands late is a whole list as well: it
\* never shows a tenant as Ready that was not provisioned.
THEOREM ReadyAlwaysProvisionedDisturbed == DSpec => []ReadyMeansProvisioned
<1>1. DInit => DStatusInv
  <2>1. InOrder(NoRequest.mem)
    BY NothingInOrder DEF NoRequest
  <2> QED
    BY <2>1, StatusInit DEF DInit, DStatusInv
<1>2. DisturbancesTypeOK /\ DStatusInv /\ [DNext]_dvars => DStatusInv'
  BY DStatusStep
<1>3. DisturbancesTypeOK /\ DStatusInv => ReadyMeansProvisioned
  <2> SUFFICES ASSUME DisturbancesTypeOK, DStatusInv
               PROVE  ReadyMeansProvisioned
    OBVIOUS
  <2>1. Stored = versions[Len(versions)] /\ Len(versions) \in Versions
    BY VersionType DEF TypeOK, DisturbancesTypeOK
  <2> QED
    BY <2>1 DEF DStatusInv, StatusInv, InOrder, ReadyMeansProvisioned
<1> QED
  BY DisturbancesTypeCorrect, <1>1, <1>2, <1>3, PTL DEF DSpec

LEMMA DQueueStep ==
    ASSUME DisturbancesTypeOK, QueueInv, [DNext]_dvars
    PROVE  QueueInv'
<1>1. TypeOK
  BY DEF DisturbancesTypeOK
<1>2. CASE Ordinary \/ HandOver \/ UNCHANGED dvars
  BY <1>1, <1>2, OrdinaryStep, HandOverStep, QueueStep DEF dvars
<1>3. ASSUME UNCHANGED <<tenantVars, queueVars, workerVars>>
      PROVE  QueueInv'
  BY <1>3 DEF tenantVars, queueVars, workerVars, QueueInv, Calm, Stored, Settled, Own,
              Differs, Retried, Building
<1>4. CASE LateArrives
  BY <1>1, <1>3, <1>4, LateStep, LateWrites, OthersQueue
<1> QED
  BY <1>2, <1>3, <1>4, ByHandStep DEF DNext

\* The successor hears of whatever the former leader still writes: it does not come
\* to rest over a tenant that such a write left unfinished.
THEOREM NothingForgottenDisturbed == DSpec => []NothingForgotten
<1>1. DInit => QueueInv
  BY QueueInit DEF DInit
<1>2. DisturbancesTypeOK /\ QueueInv /\ [DNext]_dvars => QueueInv'
  BY DQueueStep
<1>3. QueueInv => NothingForgotten
  BY DEF QueueInv, Calm, NothingForgotten, Quiescent, Settled, Own
<1> QED
  BY DisturbancesTypeCorrect, <1>1, <1>2, <1>3, PTL DEF DSpec

-----------------------------------------------------------------------------
(* What the former leader builds late, where nobody deletes objects by hand *)

\* It builds for the incarnation that is there, or that is just gone.
LateOwned == late.verb = "create" => late.mem.uid \in 1..Stored.uid

DHostInv == HostOK /\ LateOwned

\* What a late patch keeps of the tenant.
LEMMA LatePatchKeeps ==
    ASSUME DisturbancesTypeOK, LateMetadata \/ LateStatus
    PROVE  /\ Stored.exists /\ Stored'.uid = Stored.uid /\ LiveUids' \subseteq LiveUids
           /\ UNCHANGED <<hostVars, workerVars>>
           /\ \E t \in Tenant :
                 /\ Store(t) /\ Stored' = t
                 /\ \/ t.conds \in {Stored.conds, NoConditions}
                    \/ late.verb = "status" /\ t.conds = late.mem.conds
<1>1. TenantTypeOK /\ Stored \in Tenant
  BY LateWrites
<1>2. Stored.exists /\ UNCHANGED <<hostVars, workerVars>>
  BY DEF LateMetadata, LateStatus, Arrived
<1>3. CASE LateMetadata
  <2> DEFINE t == WithFinalizers(Stored, late.mem.finalizers)
  <2>1. t \in Tenant /\ Store(t) /\ t.conds \in {Stored.conds, NoConditions}
    BY <1>3, LateWrites, LateConditions DEF StoreByOthers
  <2>2. t.uid = Stored.uid
    BY <1>1 DEF WithFinalizers, Gone, Tenant
  <2> HIDE DEF t
  <2>3. Stored' = t
    BY <1>1, <2>1, StoreEffect
  <2> QED
    BY <1>2, <2>1, <2>2, <2>3 DEF LiveUids
<1>4. CASE LateStatus
  <2> DEFINE t == StatusPatched(Stored, late.before, late.mem)
  <2>1. /\ t \in Tenant /\ Store(t) /\ late.verb = "status"
        /\ t.conds = Stored.conds \/ t.conds = late.mem.conds
    BY <1>4, LateWrites, LateConditions DEF StoreByOthers, LateStatus
  <2>2. t.uid = Stored.uid
    BY <1>1 DEF StatusPatched, Tenant
  <2> HIDE DEF t
  <2>3. Stored' = t
    BY <1>1, <2>1, StoreEffect
  <2> QED
    BY <1>2, <2>1, <2>2, <2>3 DEF LiveUids
<1> QED
  BY <1>3, <1>4

\* What a late create writes.
LEMMA LateCreateEffect ==
    ASSUME DisturbancesTypeOK, LateOwned, LateCreate
    PROVE  /\ late.child \in Children /\ CanCreate(late.child)
           /\ late.mem.uid \in 1..Stored.uid
           /\ owner' = [owner EXCEPT ![late.child] = late.mem.uid]
           /\ ca' = IF late.child \in Secrets
                    THEN [ca EXCEPT ![late.child] =
                             IF late.child = "server-cert" THEN FreshCA ELSE late.signer]
                    ELSE ca
           /\ UNCHANGED <<terminating, cached, tenantVars, workerVars>>
BY DEF DisturbancesTypeOK, Requests, LateOwned, LateCreate, CreateObject, Arrived

LEMMA DHostStep ==
    ASSUME OneIncarnation, ByHand = {}, DisturbancesTypeOK, DisturbancesTypeOK',
           DFinalizerInv, DHostInv, [DNext]_dvars
    PROVE  DHostInv'
<1>1. /\ TypeOK /\ TypeOK' /\ late \in Requests /\ FinalizerInv /\ HostOK /\ LateOwned
      /\ Stored \in Tenant /\ Stored' \in Tenant
  BY StoredTypes DEF DisturbancesTypeOK, DFinalizerInv, DHostInv
<1>2. ASSUME [Next]_vars
      PROVE  HostOK' /\ Stored.uid <= Stored'.uid
  <2>1. HostOK' /\ [Lifecycle!Next]_(Lifecycle!vars)
    BY <1>1, <1>2, StepRefines
  <2>2. Stored'.uid = Stored.uid \/ Stored'.uid = Stored.uid + 1
    BY <2>1 DEF Lifecycle!Next, Lifecycle!Create, Lifecycle!Adopt, Lifecycle!Delete,
                Lifecycle!Release, Lifecycle!Vanish, Lifecycle!Build, Lifecycle!Collect,
                Lifecycle!vars
  <2> QED
    BY <1>1, <2>1, <2>2 DEF Tenant
<1>3. CASE Ordinary \/ UNCHANGED dvars
  <2>1. [Next]_vars /\ late'.verb = late.verb /\ late'.mem = late.mem
    BY <1>1, <1>3, OrdinaryStep DEF dvars, Requests
  <2>2. LateOwned'
    BY <1>1, <1>2, <2>1 DEF LateOwned, Tenant
  <2> QED
    BY <1>2, <2>1, <2>2 DEF DHostInv
<1>4. CASE HandOver
  <2>1. [Next]_vars /\ Manager /\ (late' = NoRequest \/ late' = Request)
    BY <1>4, HandOverStep
  <2>2. Stored' = Stored
    BY <1>1, <2>1, ManagerStutters
  <2>3. pc = "create" => tenant.uid \in 1..Stored.uid
    <3>1. Building => Stored.uid = tenant.uid /\ Stored.uid > 0 /\ Stored.uid \in 0..MaxUid
      BY <1>1, StoredFacts DEF FinalizerInv, FinalizerGuard
    <3> QED
      BY <3>1 DEF Building
  <2>4. LateOwned'
    BY <2>1, <2>2, <2>3 DEF LateOwned, Request, NoRequest
  <2> QED
    BY <1>2, <2>1, <2>4 DEF DHostInv
<1>5. CASE LateArrives
  <2>1. late' = NoRequest
    BY <1>5, LateStep
  <2>2. LateOwned'
    BY <2>1 DEF LateOwned, NoRequest
  <2>3. CASE LateCreate
    <3>1. /\ late.child \in Children /\ CanCreate(late.child)
          /\ late.mem.uid \in 1..Stored.uid
          /\ owner' = [owner EXCEPT ![late.child] = late.mem.uid]
          /\ UNCHANGED <<terminating, tenantVars>>
          /\ owner \in [Children -> Unowned..MaxUid]
      BY <1>1, <2>3, LateCreateEffect DEF TypeOK, HostTypeOK
    <3>2. Stored' = Stored /\ LiveUids' = LiveUids
      BY <3>1 DEF tenantVars, Stored, LiveUids
    <3>3. terminating => late.child # "namespace" /\ "namespace" \in Children
      BY <1>1, <3>1 DEF CanCreate, HostOK, Exists, Children, Order
    <3> QED
      BY <1>1, <2>2, <3>1, <3>2, <3>3 DEF DHostInv, HostOK
  <2>4. CASE LateMetadata \/ LateStatus
    BY <1>1, <2>2, <2>4, LatePatchKeeps DEF DHostInv, HostOK, hostVars
  <2>5. CASE UNCHANGED <<hostVars, tenantVars>>
    BY <1>1, <2>2, <2>5 DEF DHostInv, HostOK, LiveUids, hostVars, tenantVars, Stored
  <2> QED
    BY <1>5, <2>3, <2>4, <2>5, LateStep
<1> QED
  BY <1>3, <1>4, <1>5 DEF DNext

\* What the former leader has found built is built while the tenant stands.
LateBuilt == Standing /\ IsTrue(late.mem, "Provisioned") => AllBuilt

DBuiltInv == BuiltInv /\ LateBuilt

\* The late requests: the tenant stood before, and what stood then stands.
LEMMA LateStanding ==
    ASSUME DisturbancesTypeOK, LateOwned, LateArrives, Standing'
    PROVE  /\ Standing /\ cached' = cached /\ UNCHANGED workerVars
           /\ \A o \in Children : Exists(o) => Exists(o)'
<1>1. CASE LateMetadata \/ LateStatus
  BY <1>1, LatePatchKeeps DEF Standing, hostVars, Exists
<1>2. CASE UNCHANGED <<hostVars, tenantVars>>
  BY <1>2, LateStep DEF Standing, hostVars, tenantVars, Stored, Exists
<1>3. CASE LateCreate
  <2>1. Stored \in Tenant /\ owner \in [Children -> Unowned..MaxUid]
    BY LateWrites DEF DisturbancesTypeOK, TypeOK, HostTypeOK
  <2> QED
    BY <1>3, <2>1, LateCreateEffect DEF Standing, tenantVars, Stored, Exists, Absent, Tenant
<1> QED
  BY <1>1, <1>2, <1>3, LateStep

LEMMA DBuiltStep ==
    ASSUME OneIncarnation, ByHand = {}, DisturbancesTypeOK, DFinalizerInv, DHostInv,
           DBuiltInv, [DNext]_dvars
    PROVE  DBuiltInv'
<1>1. /\ TypeOK /\ late \in Requests /\ FinalizerInv /\ HostOK /\ BuiltInv /\ LateBuilt
      /\ LateOwned
  BY DEF DisturbancesTypeOK, DFinalizerInv, DHostInv, DBuiltInv
<1>2. ASSUME [Next]_vars
      PROVE  /\ BuiltInv'
             /\ Standing' => Standing /\ (AllBuilt => AllBuilt')
  <2>1. BuiltInv'
    BY <1>1, <1>2, BuiltStep
  <2>2. Standing' => Standing /\ (AllBuilt => AllBuilt')
    BY <1>1, <1>2, StandingKeeps DEF AllBuilt
  <2> QED
    BY <2>1, <2>2
<1>3. ~IsTrue(NoRequest.mem, "Provisioned")
  BY DEF NoRequest, Gone, IsTrue, NoConditions, ConditionTypes
<1>4. CASE Ordinary \/ UNCHANGED dvars
  <2>1. [Next]_vars /\ late'.mem = late.mem
    BY <1>1, <1>4, OrdinaryStep DEF dvars, Requests
  <2>2. LateBuilt'
    BY <1>1, <1>2, <2>1 DEF LateBuilt, IsTrue
  <2> QED
    BY <1>2, <2>1, <2>2 DEF DBuiltInv
<1>5. CASE HandOver
  <2>1. [Next]_vars /\ (late' = NoRequest \/ late' = Request)
    BY <1>5, HandOverStep
  <2>2. Standing /\ IsTrue(Request.mem, "Provisioned") => AllBuilt
    BY <1>1, <1>3 DEF BuiltInv, Request
  <2>3. LateBuilt'
    BY <1>2, <1>3, <2>1, <2>2 DEF LateBuilt, IsTrue
  <2> QED
    BY <1>2, <2>1, <2>3 DEF DBuiltInv
<1>6. CASE LateArrives
  <2>1. late' = NoRequest
    BY <1>6, LateStep
  <2>2. LateBuilt'
    BY <1>3, <2>1 DEF LateBuilt, IsTrue
  <2>3. ASSUME Standing'
        PROVE  BuiltInv'
    <3>1. /\ Standing /\ cached' = cached /\ UNCHANGED workerVars
          /\ \A o \in Children : Exists(o) => Exists(o)'
      BY <1>1, <1>6, <2>3, LateStanding
    <3>2. AllBuilt => AllBuilt'
      BY <3>1 DEF AllBuilt
    <3>3. \A i \in Versions' : IsTrue(versions'[i], "Provisioned") => AllBuilt'
      <4>1. CASE UNCHANGED tenantVars
        BY <1>1, <3>1, <3>2, <4>1 DEF BuiltInv, tenantVars, Versions
      <4>2. CASE LateMetadata \/ LateStatus
        <5>1. PICK t \in Tenant :
                 /\ Store(t)
                 /\ \/ t.conds \in {Stored.conds, NoConditions}
                    \/ t.conds = late.mem.conds
          BY <4>2, LatePatchKeeps
        <5>2. owner' = owner
          BY <4>2, LatePatchKeeps DEF hostVars
        <5>3. Stored = versions[Len(versions)] /\ Len(versions) \in Versions
          BY <1>1, VersionType DEF TypeOK
        <5>4. IsTrue(t, "Provisioned") => AllBuilt
          BY <1>1, <3>1, <5>1, <5>3, NotProvisioned DEF BuiltInv, LateBuilt, IsTrue
        <5> QED
          BY <1>1, <3>1, <5>1, <5>2, <5>4, WriteBuilt
      <4> QED
        BY <1>6, <4>1, <4>2, LateStep
    <3>4. /\ cached \subseteq Children /\ step \in 1..7
          /\ \A i \in 1..7 : Order[i] \in Children
      BY <1>1, OrderLength
         DEF TypeOK, HostTypeOK, WorkerTypeOK, CachedChildren, Children, Order
    <3>5. \A o \in cached' : Exists(o)'
      BY <1>1, <3>1, <3>4 DEF BuiltInv
    <3>6. pc' \in {"get", "sign", "create"} => \A i \in 1..(step' - 1) : Exists(Order[i])'
      BY <1>1, <3>1, <3>4 DEF BuiltInv, workerVars
    <3>7. IsTrue(tenant, "Provisioned")' => AllBuilt'
      BY <1>1, <3>1, <3>2 DEF BuiltInv, workerVars, IsTrue
    <3> QED
      BY <3>3, <3>5, <3>6, <3>7 DEF BuiltInv
  <2>4. BuiltInv'
    BY <2>3 DEF BuiltInv
  <2> QED
    BY <2>2, <2>4 DEF DBuiltInv
<1> QED
  BY <1>4, <1>5, <1>6 DEF DNext

\* The invariants of what is built.
DHostBuiltInv == DFinalizerInv /\ DHostInv /\ DBuiltInv

LEMMA DHostBuiltInvHolds ==
    ASSUME OneIncarnation, ByHand = {}
    PROVE  DSpec => []DHostBuiltInv
<1>1. DInit => DHostBuiltInv
  <2> SUFFICES ASSUME DInit
               PROVE  DHostBuiltInv
    OBVIOUS
  <2>1. late.verb = "none" /\ ~IsTrue(late.mem, "Provisioned")
    BY DEF DInit, NoRequest, Gone, IsTrue, NoConditions, ConditionTypes
  <2> QED
    BY <2>1, DFinalizerInit, InitHostOK, BuiltInit
       DEF DInit, DHostBuiltInv, DHostInv, DBuiltInv, LateOwned, LateBuilt
<1>2. DisturbancesTypeOK /\ DisturbancesTypeOK' /\ DHostBuiltInv /\ [DNext]_dvars
         => DHostBuiltInv'
  BY DFinalizerStep, DHostStep, DBuiltStep DEF DHostBuiltInv
<1> QED
  BY <1>1, <1>2, DisturbancesTypeCorrect, PTL DEF DSpec

\* A status patch that the former leader decided on before it was cut off never
\* shows the first tenant of a name as provisioned while something is missing.
THEOREM ProvisionedIsBuiltDisturbed ==
    ASSUME OneIncarnation, ByHand = {}
    PROVE  DSpec => []ProvisionedMeansBuilt
<1>1. DisturbancesTypeOK /\ DHostBuiltInv => ProvisionedMeansBuilt
  BY BuiltForOne
     DEF DisturbancesTypeOK, DHostBuiltInv, DFinalizerInv, DHostInv, DBuiltInv
<1> QED
  BY <1>1, DHostBuiltInvHolds, DisturbancesTypeCorrect, PTL

-----------------------------------------------------------------------------
(* The certificates *)

\* A kubeconfig that is on its way is signed by the CA that stands.
LateSigned ==
    Standing /\ late.verb = "create" /\ late.child \in Kubeconfigs
        => Exists("server-cert") /\ late.signer = ca["server-cert"]

DTrustInv == (Standing => TrustInv) /\ LateSigned

\* The former leader's create comes second, or it creates what the successor's
\* then finds; either way the CA is the one that stands.
LEMMA LateCreateTrust ==
    ASSUME DisturbancesTypeOK, LateOwned, LateSigned, TrustInv, Standing, LateCreate
    PROVE  TrustInv'
<1>1. /\ owner \in [Children -> Unowned..MaxUid] /\ ca \in [Secrets -> CAs \cup {0}]
      /\ Secrets \subseteq Children /\ Kubeconfigs \subseteq Secrets
      /\ "server-cert" \in Secrets /\ "server-cert" \notin Kubeconfigs
  BY DEF DisturbancesTypeOK, TypeOK, HostTypeOK, Secrets, Kubeconfigs, Children, Order
<1> DEFINE o == late.child
           c == IF o = "server-cert" THEN FreshCA ELSE late.signer
<1>2. /\ o \in Children /\ ~Exists(o) /\ late.mem.uid # Absent
      /\ owner' = [owner EXCEPT ![o] = late.mem.uid]
      /\ ca' = IF o \in Secrets THEN [ca EXCEPT ![o] = c] ELSE ca
      /\ UNCHANGED workerVars /\ late.verb = "create"
  BY LateCreateEffect DEF CanCreate, Absent, LateCreate
<1>3. \A p \in Children : p # o => (Exists(p)' <=> Exists(p))
  BY <1>1, <1>2 DEF Exists
<1>4. \A s \in Secrets : s # o => ca'[s] = ca[s]
  BY <1>1, <1>2
<1>5. Child' = Child /\ pc' = pc /\ signer' = signer
  BY <1>2 DEF workerVars, Child
<1>6. CASE o = "server-cert"
  <2>1. \A k \in Kubeconfigs : ~Exists(k)' /\ ~(pc = "create" /\ Child \in Kubeconfigs)
    BY <1>1, <1>2, <1>3, <1>6 DEF TrustInv
  <2>2. Exists("server-cert")'
    BY <1>1, <1>2, <1>6 DEF Exists
  <2> QED
    BY <1>2, <1>5, <1>6, <2>1, <2>2 DEF TrustInv, KubeconfigsTrusted, Kubeconfigs
<1>7. CASE o \in Kubeconfigs
  <2>1. Exists("server-cert") /\ c = ca["server-cert"] /\ o # "server-cert" /\ o \in Secrets
    BY <1>1, <1>2, <1>7 DEF LateSigned
  <2>2. Exists("server-cert")' /\ ca'["server-cert"] = ca["server-cert"]
    BY <1>1, <1>3, <1>4, <2>1
  <2>3. \A k \in Kubeconfigs : Exists(k)' => ca'[k] = ca["server-cert"]
    <3> SUFFICES ASSUME NEW k \in Kubeconfigs, Exists(k)'
                 PROVE  ca'[k] = ca["server-cert"]
      OBVIOUS
    <3>1. CASE k = o
      BY <1>1, <1>2, <2>1, <3>1
    <3>2. CASE k # o
      <4>1. Exists(k) /\ ca'[k] = ca[k]
        BY <1>1, <1>3, <1>4, <3>2
      <4> QED
        BY <2>1, <4>1 DEF TrustInv, KubeconfigsTrusted
    <3> QED
      BY <3>1, <3>2
  <2> QED
    BY <1>5, <2>2, <2>3 DEF TrustInv, KubeconfigsTrusted
<1>8. CASE o \notin Secrets
  <2>1. \A s \in Secrets : (Exists(s)' <=> Exists(s)) /\ ca'[s] = ca[s]
    BY <1>1, <1>2, <1>3, <1>8
  <2> QED
    BY <1>1, <1>5, <2>1 DEF TrustInv, KubeconfigsTrusted
<1> QED
  BY <1>6, <1>7, <1>8 DEF Kubeconfigs

LEMMA DTrustStep ==
    ASSUME OneIncarnation, ByHand = {}, DisturbancesTypeOK, DFinalizerInv, DHostInv,
           DTrustInv, [DNext]_dvars
    PROVE  DTrustInv'
<1>1. /\ TypeOK /\ late \in Requests /\ FinalizerInv /\ HostOK /\ LateSigned
      /\ LateOwned /\ (Standing => TrustInv)
      /\ "server-cert" \in Children /\ "server-cert" \in Secrets
  BY DEF DisturbancesTypeOK, DFinalizerInv, DHostInv, DTrustInv, Secrets, Children, Order
<1>2. ASSUME [Next]_vars
      PROVE  /\ Standing' => TrustInv'
             /\ Standing' => /\ Standing
                             /\ Exists("server-cert") =>
                                   Exists("server-cert")' /\ ca'["server-cert"] = ca["server-cert"]
  <2> SUFFICES ASSUME Standing'
               PROVE  /\ TrustInv' /\ Standing
                      /\ Exists("server-cert") =>
                            Exists("server-cert")' /\ ca'["server-cert"] = ca["server-cert"]
    OBVIOUS
  <2>1. /\ Standing
        /\ Exists("server-cert") =>
              Exists("server-cert")' /\ ca'["server-cert"] = ca["server-cert"]
    BY <1>1, <1>2, StandingKeeps
  <2> QED
    BY <1>1, <1>2, <2>1, TrustStep
<1>3. CASE Ordinary \/ UNCHANGED dvars
  <2>1. /\ [Next]_vars /\ late'.verb = late.verb /\ late'.child = late.child
        /\ late'.signer = late.signer
    BY <1>1, <1>3, OrdinaryStep DEF dvars, Requests
  <2>2. LateSigned'
    BY <1>1, <1>2, <2>1 DEF LateSigned
  <2> QED
    BY <1>2, <2>1, <2>2 DEF DTrustInv
<1>4. CASE HandOver
  <2>1. [Next]_vars /\ (late' = NoRequest \/ late' = Request)
    BY <1>4, HandOverStep
  <2>2. Standing /\ pc = "create" /\ Child \in Kubeconfigs
           => Exists("server-cert") /\ signer = ca["server-cert"]
    BY <1>1 DEF TrustInv
  <2>3. LateSigned'
    BY <1>2, <2>1, <2>2 DEF LateSigned, Request, NoRequest
  <2> QED
    BY <1>2, <2>1, <2>3 DEF DTrustInv
<1>5. CASE LateArrives
  <2>1. late' = NoRequest
    BY <1>5, LateStep
  <2>2. LateSigned'
    BY <2>1 DEF LateSigned, NoRequest
  <2>3. ASSUME Standing'
        PROVE  TrustInv'
    <3>1. Standing /\ UNCHANGED workerVars
      BY <1>1, <1>5, <2>3, LateStanding
    <3>2. CASE LateCreate
      BY <1>1, <3>1, <3>2, LateCreateTrust
    <3>3. CASE UNCHANGED hostVars
      BY <1>1, <3>1, <3>3
         DEF hostVars, workerVars, TrustInv, KubeconfigsTrusted, Exists, Child
    <3> QED
      BY <1>5, <3>2, <3>3, LateStep
  <2> QED
    BY <2>2, <2>3 DEF DTrustInv
<1> QED
  BY <1>3, <1>4, <1>5 DEF DNext

\* While the first tenant of a name exists, a kubeconfig and the server certificate
\* that stand side by side come from one CA, whichever of the two leaders' creates
\* gets through.
THEOREM TrustedWhileItExists ==
    ASSUME OneIncarnation, ByHand = {}
    PROVE  DSpec => []TrustedWhileAlive
<1>1. DInit => DTrustInv
  BY DEF DInit, NoRequest, Init, HostInit, DTrustInv, LateSigned, TrustInv, KubeconfigsTrusted,
         Exists, Kubeconfigs, Secrets, Children, Order
<1>2. DisturbancesTypeOK /\ DHostBuiltInv /\ DTrustInv /\ [DNext]_dvars => DTrustInv'
  BY DTrustStep DEF DHostBuiltInv
<1>3. DTrustInv => TrustedWhileAlive
  BY DEF DTrustInv, TrustInv, Standing, TrustedWhileAlive
<1> QED
  BY <1>1, <1>2, <1>3, DHostBuiltInvHolds, DisturbancesTypeCorrect, PTL DEF DSpec
===============================================================================
