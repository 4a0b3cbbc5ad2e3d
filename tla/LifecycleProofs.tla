---------------------------- MODULE LifecycleProofs ----------------------------
(***************************************************************************)
(* The controller implements TenantLifecycle, for every lag of the         *)
(* informer and every number of failures and restarts, where FinalizerInv  *)
(* is known to hold (Undisturbed); and what it shows as provisioned, or    *)
(* has signed, for the first tenant of a name, is built and fits together. *)
(***************************************************************************)
EXTENDS LifecycleRefinement, StatusProofs

-----------------------------------------------------------------------------
(* What the steps of the controller are to a tenant's life. *)

\* The tenant's own steps: what a write of it may do.
TenantMoves ==
    \/ Lifecycle!Create \/ Lifecycle!Adopt \/ Lifecycle!Delete
    \/ Lifecycle!Release \/ Lifecycle!Vanish
    \/ UNCHANGED Lifecycle!vars

\* A step that leaves the stored tenant and the objects alone.
LEMMA Stutter ==
    ASSUME Stored' = Stored, owner' = owner
    PROVE  UNCHANGED Lifecycle!vars
BY DEF Lifecycle!vars, StageOf, Own

\* A write that changes neither the incarnation, nor whether it is being
\* deleted, nor whether it has the controller's finalizer.
LEMMA StutteringWrite ==
    ASSUME owner' = owner,
           Stored'.uid = Stored.uid,
           Stored'.exists = Stored.exists,
           Stored'.deleting = Stored.deleting,
           Own(Stored)' <=> Own(Stored)
    PROVE  UNCHANGED Lifecycle!vars
BY DEF Lifecycle!vars, StageOf

\* The facts about the stored tenant that every case needs.
LEMMA StoredFacts ==
    ASSUME TypeOK, FinalizerInv
    PROVE  /\ TenantTypeOK /\ Stored \in Tenant /\ Stored.uid \in 0..MaxUid
           /\ Own(Stored) => Stored.exists
           /\ Stored.exists => Stored.uid > 0
<1>1. /\ TenantTypeOK /\ Stored \in Tenant
      /\ Stored = versions[Len(versions)] /\ Len(versions) \in Versions
  BY VersionType DEF TypeOK
<1> QED
  BY <1>1 DEF FinalizerInv, Shaped, Tenant

-----------------------------------------------------------------------------
(* One lemma for each actor that writes the tenant. *)

\* The metadata patch adopts the tenant, or lets it go after its deletion.
LEMMA PatchMetadataMoves ==
    ASSUME TypeOK, FinalizerInv, PatchMetadata
    PROVE  TenantMoves
<1> DEFINE t == WithFinalizers(Stored, tenant.finalizers)
<1>1. /\ TenantTypeOK /\ Stored \in Tenant /\ tenant \in Tenant /\ read \in Tenant
      /\ Shown \in Tenant
      /\ Stored = versions[Len(versions)] /\ Len(versions) \in Versions
      /\ Shown = versions[1] /\ 1 \in Versions /\ 1 <= Len(versions)
  BY VersionType DEF TypeOK, WorkerTypeOK, Versions
<1>2. pc = "patch" /\ Store(t) /\ owner' = owner /\ Stored.exists
      /\ (Stored.deleting => tenant.finalizers \subseteq Stored.finalizers)
  BY DEF PatchMetadata, hostVars, MetadataPatchRefused
<1>3. t \in Tenant
  BY <1>1, WithFinalizersType DEF Tenant
<1>4. /\ t.uid = Stored.uid
      /\ t.exists => t.deleting = Stored.deleting /\ t.finalizers = tenant.finalizers
      /\ ~t.exists => Stored.deleting /\ tenant.finalizers = {} /\ t.finalizers = {}
  BY <1>1, <1>2 DEF WithFinalizers, Gone, Tenant
<1>5. Stored' = t
  BY <1>1, <1>2, <1>3, StoreEffect
<1> HIDE DEF t
<1>6. Own(t) <=> Own(tenant)
  BY <1>4 DEF Own
<1>7. CASE Own(tenant) /\ Own(Stored)
  <2>1. t.exists
    BY <1>4, <1>7 DEF Own
  <2> QED
    BY <1>2, <1>4, <1>5, <1>6, <1>7, <2>1, StutteringWrite DEF TenantMoves, Own
<1>8. CASE Own(tenant) /\ ~Own(Stored)
  <2>1. ~Stored.deleting /\ t.exists
    BY <1>2, <1>4, <1>8 DEF Own
  <2>2. StageOf(Stored) = "new" /\ StageOf(t) = "held"
    BY <1>2, <1>4, <1>6, <1>8, <2>1 DEF StageOf
  <2>3. StageOf(Stored)' = StageOf(t)
    BY <1>5 DEF StageOf, Own
  <2> QED
    BY <1>2, <1>4, <1>5, <2>2, <2>3 DEF TenantMoves, Lifecycle!Adopt
<1>9. CASE ~Own(tenant) /\ Own(Stored)
  <2>1. Own(read) /\ read.deleting /\ read.exists /\ Older(read, Shown)
    BY <1>2, <1>9 DEF FinalizerInv, PassOK
  <2>2. Older(Shown, Stored)
    BY <1>1 DEF FinalizerInv, Ordered
  <2>3. Older(read, Stored)
    BY <1>1, <2>1, <2>2, OlderTransitive
  <2>4. ~(read.uid < Stored.uid)
    BY <1>1, <1>2, <1>9, <2>1 DEF FinalizerInv, ReadOK
  <2>5. Stored.deleting
    BY <1>1, <1>2, <2>1, <2>3, <2>4 DEF Older, Tenant
  <2>6. StageOf(Stored) = "going"
    BY <1>2, <1>9, <2>5 DEF StageOf
  <2>7. StageOf(t) \in {"absent", "released"}
    BY <1>3, <1>4, <1>6, <1>9, <2>5 DEF StageOf, Tenant
  <2>8. StageOf(Stored)' = StageOf(t)
    BY <1>5 DEF StageOf, Own
  <2> QED
    BY <1>2, <1>4, <1>5, <2>6, <2>7, <2>8 DEF TenantMoves, Lifecycle!Release
<1>10. CASE ~Own(tenant) /\ ~Own(Stored)
  <2>1. StageOf(Stored) = (IF Stored.deleting THEN "released" ELSE "new")
    BY <1>1, <1>2, <1>10 DEF StageOf, Tenant
  <2>2. CASE t.exists
    BY <1>2, <1>4, <1>5, <1>6, <1>10, <2>2, StutteringWrite DEF TenantMoves, Own
  <2>3. CASE ~t.exists
    <3>1. StageOf(t) = "absent" /\ StageOf(Stored) = "released"
      BY <1>4, <2>1, <2>3 DEF StageOf
    <3>2. StageOf(Stored)' = StageOf(t)
      BY <1>5 DEF StageOf, Own
    <3> QED
      BY <1>2, <1>4, <1>5, <3>1, <3>2 DEF TenantMoves, Lifecycle!Vanish
  <2> QED
    BY <2>2, <2>3
<1> QED
  BY <1>7, <1>8, <1>9, <1>10

\* The deferred function: only its metadata patch matters.
LEMMA PatchMoves ==
    ASSUME TypeOK, FinalizerInv, Patch
    PROVE  TenantMoves
<1>1. CASE PatchMetadata
  BY <1>1, PatchMetadataMoves
<1>2. CASE PatchStatus
  <2> DEFINE t == StatusPatched(Stored, before, tenant)
  <2>1. /\ TenantTypeOK /\ Stored \in Tenant /\ before \in Tenant /\ tenant \in Tenant
    BY StoredFacts DEF TypeOK, WorkerTypeOK
  <2>2. t \in Tenant
    BY <2>1, StatusPatchedType
  <2>3. /\ t.uid = Stored.uid /\ t.exists = Stored.exists
        /\ t.deleting = Stored.deleting /\ t.finalizers = Stored.finalizers
    BY <2>1 DEF StatusPatched, Tenant
  <2>4. Store(t) /\ owner' = owner
    BY <1>2 DEF PatchStatus, hostVars
  <2> HIDE DEF t
  <2>5. Stored' = t
    BY <2>1, <2>2, <2>4, StoreEffect
  <2> QED
    BY <2>3, <2>4, <2>5, StutteringWrite DEF TenantMoves, Own
<1>3. CASE Deferred \/ DeferredNotFound \/ PatchMetadataFails \/ PatchStatusFails
  <2>1. Stored' = Stored /\ owner' = owner
    BY <1>3 DEF Deferred, DeferredNotFound, PatchMetadataFails, PatchStatusFails,
                hostVars, Stored
  <2> QED
    BY <2>1, Stutter DEF TenantMoves
<1> QED
  BY <1>1, <1>2, <1>3 DEF Patch

\* Users create and delete; other controllers let go.
LEMMA ClientsMove ==
    ASSUME TypeOK, FinalizerInv, Clients
    PROVE  TenantMoves
<1>1. /\ TenantTypeOK /\ Stored \in Tenant
      /\ Own(Stored) => Stored.exists
      /\ owner' = owner
  BY StoredFacts
     DEF Clients, CreateTenant, DeleteTenant, AddOtherFinalizer, OtherFinalizersDone,
         DropOtherFinalizer, hostVars
<1>2. CASE CreateTenant
  <2> DEFINE t == Created(Stored.uid + 1)
  <2>1. ~Stored.exists /\ Stored.uid < MaxUid /\ Store(t)
    BY <1>2 DEF CreateTenant, StoreByOthers
  <2>2. t \in Tenant
    BY <1>1, <2>1, CreatedType, MaxUidAssumption DEF Tenant
  <2>3. t.uid = Stored.uid + 1 /\ t.exists /\ ~t.deleting /\ ~Own(t)
    BY DEF Created, Gone, Own
  <2> HIDE DEF t
  <2>4. Stored' = t
    BY <1>1, <2>1, <2>2, StoreEffect
  <2>5. StageOf(Stored) = "absent" /\ StageOf(t) = "new"
    BY <2>1, <2>3 DEF StageOf
  <2>6. StageOf(Stored)' = StageOf(t)
    BY <2>4 DEF StageOf, Own
  <2> QED
    BY <1>1, <2>1, <2>3, <2>4, <2>5, <2>6 DEF TenantMoves, Lifecycle!Create
<1>3. CASE DeleteTenant
  <2> DEFINE t == IF Stored.finalizers = {}
                  THEN Gone(Stored.uid)
                  ELSE [Stored EXCEPT !.deleting = TRUE]
  <2>1. Gone(Stored.uid) \in Tenant /\ [Stored EXCEPT !.deleting = TRUE] \in Tenant
    BY <1>1, GoneType DEF Tenant
  <2>2. /\ t.uid = Stored.uid
        /\ t.exists => t.deleting /\ t.finalizers = Stored.finalizers
        /\ Own(Stored) => t.exists
    BY <1>1 DEF Gone, Own, Tenant
  <2>3. Store(t) /\ t \in Tenant /\ Stored.exists /\ ~Stored.deleting
    BY <1>3, <2>1 DEF DeleteTenant, StoreByOthers
  <2> HIDE DEF t
  <2>4. Stored' = t
    BY <1>1, <2>3, StoreEffect
  <2>5. StageOf(Stored) = (IF Own(Stored) THEN "held" ELSE "new")
    BY <2>3 DEF StageOf
  <2>6. StageOf(t) = (IF ~t.exists THEN "absent" ELSE IF Own(t) THEN "going" ELSE "released")
    BY <1>1, <2>2, <2>3 DEF StageOf
  <2>7. t.exists => (Own(t) <=> Own(Stored))
    BY <2>2 DEF Own
  <2>8. StageOf(Stored)' = StageOf(t)
    BY <2>4 DEF StageOf, Own
  <2>9. UNCHANGED <<Stored.uid, owner>>
    BY <1>1, <2>2, <2>4
  <2>10. CASE Own(Stored)
    <3>1. StageOf(Stored) = "held" /\ StageOf(t) = "going"
      BY <2>2, <2>5, <2>6, <2>7, <2>10
    <3> QED
      BY <2>8, <2>9, <3>1 DEF TenantMoves, Lifecycle!Delete
  <2>11. CASE ~Own(Stored)
    <3>1. StageOf(Stored) = "new" /\ StageOf(t) \in {"absent", "released"}
      BY <2>5, <2>6, <2>7, <2>11
    <3> QED
      BY <2>8, <2>9, <3>1 DEF TenantMoves, Lifecycle!Delete
  <2> QED
    BY <2>10, <2>11
<1>4. ASSUME NEW f \in OtherFinalizers, AddOtherFinalizer(f) PROVE TenantMoves
  <2> DEFINE t == [Stored EXCEPT !.finalizers = @ \cup {f}]
  <2>1. t \in Tenant /\ f # TenantFinalizer
    BY <1>1, FinalizerAssumption DEF Tenant, Finalizers
  <2>2. /\ t.uid = Stored.uid /\ t.exists = Stored.exists /\ t.deleting = Stored.deleting
        /\ Own(t) <=> Own(Stored)
    BY <1>1, <2>1 DEF Own, Tenant
  <2>3. Store(t)
    BY <1>4 DEF AddOtherFinalizer, StoreByOthers
  <2> HIDE DEF t
  <2>4. Stored' = t
    BY <1>1, <2>1, <2>3, StoreEffect
  <2> QED
    BY <1>1, <2>2, <2>4, StutteringWrite DEF TenantMoves, Own
<1>5. ASSUME NEW f \in OtherFinalizers, DropOtherFinalizer(f) PROVE TenantMoves
  <2> DEFINE fs == Stored.finalizers \ {f}
             t == WithFinalizers(Stored, fs)
  <2>1. /\ f # TenantFinalizer /\ Store(t) /\ Stored.exists /\ Stored.deleting
        /\ fs \in SUBSET Finalizers
    BY <1>1, <1>5, FinalizerAssumption DEF DropOtherFinalizer, StoreByOthers, Tenant
  <2>2. t \in Tenant
    BY <1>1, <2>1, WithFinalizersType
  <2>3. /\ t.uid = Stored.uid
        /\ t.exists => t.deleting /\ (Own(t) <=> Own(Stored))
        /\ ~t.exists => ~Own(Stored)
    BY <1>1, <2>1 DEF WithFinalizers, Gone, Own, Tenant
  <2> HIDE DEF t, fs
  <2>4. Stored' = t
    BY <1>1, <2>1, <2>2, StoreEffect
  <2>5. CASE t.exists
    BY <1>1, <2>1, <2>3, <2>4, <2>5, StutteringWrite DEF TenantMoves, Own
  <2>6. CASE ~t.exists
    <3>1. StageOf(Stored) = "released" /\ StageOf(t) = "absent"
      BY <2>1, <2>3, <2>6 DEF StageOf
    <3>2. StageOf(Stored)' = StageOf(t)
      BY <2>4 DEF StageOf, Own
    <3> QED
      BY <1>1, <2>3, <2>4, <3>1, <3>2 DEF TenantMoves, Lifecycle!Vanish
  <2> QED
    BY <2>5, <2>6
<1> QED
  BY <1>2, <1>3, <1>4, <1>5 DEF Clients, OtherFinalizersDone

\* The informer, the queue and restarts change nothing of it.
LEMMA ManagerStutters ==
    ASSUME TypeOK, Manager
    PROVE  Stored' = Stored /\ owner' = owner /\ terminating' = terminating
<1>1. versions \in Seq(Tenant) /\ Len(versions) >= 1
  BY DEF TypeOK, TenantTypeOK
<1>2. CASE Deliver
  BY <1>1, <1>2 DEF Deliver, hostVars, Stored
<1>3. CASE FireTimer \/ Resync
  BY <1>3 DEF FireTimer, Resync, hostVars, tenantVars, Stored
<1>4. CASE Crash
  <2>1. PICK first \in 1..Len(versions) : versions' = SubSeq(versions, first, Len(versions))
    BY <1>4 DEF Crash
  <2>2. Stored' = Stored
    BY <1>1, <2>1 DEF Stored
  <2> QED
    BY <1>4, <2>2 DEF Crash, RelistChildren
<1> QED
  BY <1>2, <1>3, <1>4 DEF Manager

\* Nor does the first step of a pass.
LEMMA ReconcileStutters ==
    ASSUME \/ ReconcileNotFound \/ ReconcileAddFinalizer
           \/ ReconcileDelete \/ ReconcileNormal
    PROVE  Stored' = Stored /\ owner' = owner /\ terminating' = terminating
BY DEF ReconcileNotFound, ReconcileAddFinalizer, ReconcileDelete, ReconcileNormal,
       StartPass, Begin, hostVars, tenantVars, Stored

-----------------------------------------------------------------------------
(* The host cluster's objects. *)

\* reconcileNormal creates an object or none.
LEMMA BuildEffect ==
    ASSUME TypeOK, FinalizerInv, Build
    PROVE  /\ Stored' = Stored /\ terminating' = terminating
           /\ \/ owner' = owner
              \/ /\ Stored.exists /\ Own(Stored)
                 /\ \E o \in Children : /\ CanCreate(o)
                                       /\ owner' = [owner EXCEPT ![o] = Stored.uid]
<1>1. CASE Create
  <2>1. /\ Building /\ CanCreate(Child) /\ versions' = versions
        /\ owner' = [owner EXCEPT ![Child] = tenant.uid] /\ terminating' = terminating
    BY <1>1 DEF Create, CreateObject, OwnerReference, Building, tenantVars
  <2>2. Stored.exists /\ Own(Stored) /\ tenant.uid = Stored.uid
    BY <2>1 DEF FinalizerInv, FinalizerGuard, Own
  <2>3. Child \in Children
    BY OrderLength DEF TypeOK, WorkerTypeOK, Child, Children
  <2> QED
    BY <2>1, <2>2, <2>3 DEF Stored
<1>2. CASE ~Create
  BY <1>2 DEF Build, GetFound, GetNotFound, GetFails, ParseCASecret, ParseCASecretFails,
              CreateFails, CheckDeploy, CheckDeployFails, hostVars, tenantVars, Stored
<1> QED
  BY <1>1, <1>2

\* The host cluster removes an object or none; it marks or frees a namespace.
LEMMA HostEffect ==
    ASSUME Host
    PROVE  /\ Stored' = Stored
           /\ \/ owner' = owner /\ terminating' = terminating
              \/ /\ owner' = owner /\ owner["namespace"] \notin {Absent} \cup LiveUids
              \/ \E o \in Children :
                    /\ o # "namespace" /\ owner[o] # Absent
                    /\ terminating \/ owner[o] \notin {Absent} \cup LiveUids
                    /\ owner' = [owner EXCEPT ![o] = Absent]
                    /\ terminating' = terminating
              \/ /\ terminating /\ terminating' = FALSE
                 /\ \A o \in Children \ {"namespace"} : owner[o] = Absent
                 /\ owner' = [owner EXCEPT !["namespace"] = Absent]
<1>1. CASE HostStep
  <2>1. Stored' = Stored
    BY <1>1 DEF HostStep, tenantVars, Stored
  <2>2. CASE \E o \in Children : CollectGarbage(o, LiveUids)
    BY <2>1, <2>2 DEF CollectGarbage, Remove
  <2>3. CASE \E o \in Children : DrainNamespace(o)
    BY <2>1, <2>3 DEF DrainNamespace, Remove, Exists
  <2>4. CASE FinishNamespace
    BY <2>1, <2>4 DEF FinishNamespace, Remove, Exists
  <2>5. CASE \/ \E o \in Children : SyncCache(o)
             \/ \E d \in Deployments : StartPod(d) \/ PodReady(d)
    BY <2>1, <2>5 DEF SyncCache, StartPod, PodReady
  <2> QED
    BY <1>1, <2>2, <2>3, <2>4, <2>5 DEF HostStep
<1>2. CASE \E d \in Deployments : PodFailure(d) \/ PodRecovery(d)
  BY <1>2 DEF PodFailure, PodRecovery, PodFails, PodRecovers, tenantVars, Stored
<1> QED
  BY <1>1, <1>2 DEF Host

\* The stored tenant before and after a step.
LEMMA StoredTypes ==
    ASSUME TypeOK, TypeOK'
    PROVE  Stored \in Tenant /\ Stored' \in Tenant
<1>1. versions \in Seq(Tenant) /\ Len(versions) \in 1..Len(versions)
  BY BoundsAssumption DEF TypeOK, TenantTypeOK
<1>2. versions' \in Seq(Tenant) /\ Len(versions') \in 1..Len(versions')
  BY BoundsAssumption DEF TypeOK, TenantTypeOK
<1> QED
  BY <1>1, <1>2 DEF Stored

\* A tenant's own step never brings an incarnation back.
LEMMA MovesForward ==
    ASSUME TypeOK, TypeOK', TenantMoves
    PROVE  /\ owner' = owner
           /\ Stored.uid <= Stored'.uid
           /\ Stored'.uid > Stored.uid \/ LiveUids' \subseteq LiveUids
<1>1. Stored.uid \in Int /\ Stored'.uid \in Int
  BY StoredTypes DEF Tenant
<1>2. owner' = owner
  BY DEF TenantMoves, Lifecycle!Create, Lifecycle!Adopt, Lifecycle!Delete,
         Lifecycle!Release, Lifecycle!Vanish, Lifecycle!vars
<1>3. Stored'.uid = Stored.uid + 1 \/ Stored'.uid = Stored.uid
  BY DEF TenantMoves, Lifecycle!Create, Lifecycle!Adopt, Lifecycle!Delete,
         Lifecycle!Release, Lifecycle!Vanish, Lifecycle!vars
<1>4. ASSUME Stored'.uid = Stored.uid PROVE LiveUids' \subseteq LiveUids
  <2>1. StageOf(Stored) = "absent" => StageOf(Stored)' = "absent"
    BY <1>1, <1>4
       DEF TenantMoves, Lifecycle!Create, Lifecycle!Adopt, Lifecycle!Delete,
           Lifecycle!Release, Lifecycle!Vanish, Lifecycle!vars
  <2>2. (StageOf(Stored) = "absent" <=> ~Stored.exists)
        /\ (StageOf(Stored)' = "absent" <=> ~Stored'.exists)
    <3>1. Stored.exists \in BOOLEAN /\ Stored.deleting \in BOOLEAN
          /\ Stored'.exists \in BOOLEAN /\ Stored'.deleting \in BOOLEAN
      BY StoredTypes DEF Tenant
    <3> QED
      BY <3>1 DEF StageOf
  <2> QED
    BY <1>4, <2>1, <2>2 DEF LiveUids
<1> QED
  BY <1>1, <1>2, <1>3, <1>4

LEMMA InitHostOK == Init => HostOK
BY DEF Init, HostInit, HostOK, Children, Order, Absent

\* What the tenant's own steps leave of HostOK.
LEMMA MovesHostOK ==
    ASSUME TypeOK, TypeOK', HostOK, TenantMoves, terminating' = terminating
    PROVE  HostOK'
<1>1. Stored.uid \in Nat /\ Stored'.uid \in Nat
  BY StoredTypes DEF Tenant
<1>2. \A o \in Children : owner'[o] = Absent \/ owner'[o] \in 1..Stored'.uid
  BY <1>1, MovesForward DEF HostOK
<1>3. ASSUME terminating'
      PROVE  owner'["namespace"] # Absent /\ owner'["namespace"] \notin LiveUids'
  <2>1. /\ owner["namespace"] \in 1..Stored.uid
        /\ owner["namespace"] \notin LiveUids
        /\ owner' = owner
    BY <1>3, MovesForward DEF HostOK, Children, Order, Absent
  <2>2. CASE LiveUids' \subseteq LiveUids
    BY <2>1, <2>2 DEF Absent
  <2>3. CASE Stored'.uid > Stored.uid
    BY <1>1, <2>1, <2>3 DEF LiveUids, Absent
  <2> QED
    BY <2>2, <2>3, MovesForward
<1> QED
  BY <1>2, <1>3 DEF HostOK

\* And the other steps.
LEMMA BuildHostOK ==
    ASSUME TypeOK, FinalizerInv, HostOK, Build
    PROVE  HostOK'
<1>1. owner \in [Children -> Unowned..MaxUid] /\ Stored.uid \in 0..MaxUid
      /\ (Stored.exists => Stored.uid > 0)
  BY StoredFacts DEF TypeOK, HostTypeOK
<1>2. Stored' = Stored /\ terminating' = terminating /\ LiveUids' = LiveUids
  BY BuildEffect DEF LiveUids
<1>3. CASE owner' = owner
  BY <1>2, <1>3 DEF HostOK
<1>4. ASSUME NEW o \in Children, CanCreate(o), Stored.exists,
             owner' = [owner EXCEPT ![o] = Stored.uid]
      PROVE  HostOK'
  <2>1. terminating => o # "namespace"
    BY <1>4 DEF CanCreate, HostOK, Exists
  <2>2. Stored.uid \in 1..Stored.uid
    BY <1>1, <1>4
  <2>3. \A p \in Children : owner'[p] = Absent \/ owner'[p] \in 1..Stored'.uid
    BY <1>1, <1>2, <1>4, <2>2 DEF HostOK
  <2>4. terminating' => owner'["namespace"] = owner["namespace"]
    BY <1>1, <1>2, <1>4, <2>1 DEF Children, Order
  <2> QED
    BY <1>2, <2>3, <2>4 DEF HostOK
<1> QED
  BY <1>3, <1>4, BuildEffect

LEMMA ElsewhereHostOK ==
    ASSUME TypeOK, HostOK, Host
    PROVE  HostOK'
<1>1. owner \in [Children -> Unowned..MaxUid]
  BY DEF TypeOK, HostTypeOK
<1>2. Stored' = Stored /\ LiveUids' = LiveUids
  BY HostEffect DEF LiveUids
<1>3. CASE owner' = owner /\ terminating' = terminating
  BY <1>2, <1>3 DEF HostOK
<1>4. CASE owner' = owner /\ owner["namespace"] \notin {Absent} \cup LiveUids
  BY <1>2, <1>4 DEF HostOK
<1>5. ASSUME NEW o \in Children, o # "namespace",
             owner' = [owner EXCEPT ![o] = Absent], terminating' = terminating
      PROVE  HostOK'
  <2>1. owner'["namespace"] = owner["namespace"]
    BY <1>1, <1>5 DEF Children, Order
  <2> QED
    BY <1>1, <1>2, <1>5, <2>1 DEF HostOK
<1>6. CASE terminating' = FALSE /\ owner' = [owner EXCEPT !["namespace"] = Absent]
  BY <1>1, <1>2, <1>6 DEF HostOK
<1> QED
  BY <1>3, <1>4, <1>5, <1>6, HostEffect

-----------------------------------------------------------------------------
(* The refinement. *)

\* reconcileNormal builds under the finalizer.
LEMMA BuildRefines ==
    ASSUME TypeOK, FinalizerInv, Build
    PROVE  [Lifecycle!Next]_(Lifecycle!vars)
<1>1. CASE owner' = owner
  BY <1>1, BuildEffect, Stutter
<1>2. ASSUME NEW o \in Children, CanCreate(o), Stored.exists, Own(Stored),
             owner' = [owner EXCEPT ![o] = Stored.uid]
      PROVE  Lifecycle!Build(o)
  <2>1. StageOf(Stored) \in {"held", "going"}
    BY <1>2 DEF StageOf
  <2>2. StageOf(Stored)' = StageOf(Stored) /\ Stored' = Stored
    BY BuildEffect DEF StageOf, Own
  <2> QED
    BY <1>2, <2>1, <2>2 DEF Lifecycle!Build, Lifecycle!Absent, CanCreate, Exists, Absent
<1> QED
  BY <1>1, <1>2, BuildEffect DEF Lifecycle!Next

\* The garbage collector and the namespace controller take what is left behind.
LEMMA HostRefines ==
    ASSUME TypeOK, HostOK, Host
    PROVE  [Lifecycle!Next]_(Lifecycle!vars)
<1>1. Stored' = Stored /\ StageOf(Stored)' = StageOf(Stored)
  BY HostEffect DEF StageOf, Own
<1>2. \A u : u \notin {Absent} \cup LiveUids => Lifecycle!Gone(u)
  BY DEF LiveUids, Lifecycle!Gone, Lifecycle!Absent, Absent, StageOf
<1>3. CASE owner' = owner
  BY <1>1, <1>3, Stutter
<1>4. ASSUME NEW o \in Children, o # "namespace", owner[o] # Absent,
             terminating \/ owner[o] \notin {Absent} \cup LiveUids,
             owner' = [owner EXCEPT ![o] = Absent]
      PROVE  Lifecycle!Collect(o)
  <2>1. Lifecycle!Gone(owner[o]) \/ Lifecycle!Gone(owner["namespace"])
    BY <1>2, <1>4 DEF HostOK
  <2> QED
    BY <1>1, <1>4, <2>1 DEF Lifecycle!Collect, Lifecycle!Absent, Absent
<1>5. ASSUME terminating, \A o \in Children \ {"namespace"} : owner[o] = Absent,
             owner' = [owner EXCEPT !["namespace"] = Absent]
      PROVE  Lifecycle!Collect("namespace")
  <2>1. owner["namespace"] # Absent /\ Lifecycle!Gone(owner["namespace"])
    BY <1>2, <1>5 DEF HostOK
  <2> QED
    BY <1>1, <1>5, <2>1 DEF Lifecycle!Collect, Lifecycle!Absent, Absent
<1>6. "namespace" \in Children
  BY DEF Children, Order
<1> QED
  BY <1>3, <1>4, <1>5, <1>6, HostEffect DEF Lifecycle!Next

\* Every step keeps HostOK and is a step of a tenant's life, or none.
LEMMA StepRefines ==
    ASSUME TypeOK, TypeOK', FinalizerInv, HostOK, [Next]_vars
    PROVE  HostOK' /\ [Lifecycle!Next]_(Lifecycle!vars)
<1>1. ASSUME TenantMoves, terminating' = terminating
      PROVE  HostOK' /\ [Lifecycle!Next]_(Lifecycle!vars)
  BY <1>1, MovesHostOK DEF TenantMoves, Lifecycle!Next
<1>2. CASE Stored' = Stored /\ owner' = owner /\ terminating' = terminating
  BY <1>1, <1>2, Stutter DEF TenantMoves
<1>3. CASE ReconcileNotFound \/ ReconcileAddFinalizer \/ ReconcileDelete \/ ReconcileNormal
  BY <1>2, <1>3, ReconcileStutters
<1>4. CASE Build
  BY <1>4, BuildHostOK, BuildRefines
<1>5. CASE Patch
  <2>1. terminating' = terminating
    BY <1>5 DEF Patch, Deferred, DeferredNotFound, PatchMetadata, PatchMetadataFails,
                PatchStatus, PatchStatusFails, hostVars
  <2> QED
    BY <1>1, <1>5, <2>1, PatchMoves
<1>6. CASE Manager
  BY <1>2, <1>6, ManagerStutters
<1>7. CASE Clients
  <2>1. terminating' = terminating
    BY <1>7 DEF Clients, CreateTenant, DeleteTenant, AddOtherFinalizer,
                OtherFinalizersDone, DropOtherFinalizer, hostVars
  <2> QED
    BY <1>1, <1>7, <2>1, ClientsMove
<1>8. CASE Host
  BY <1>8, ElsewhereHostOK, HostRefines
<1>9. CASE UNCHANGED vars
  BY <1>2, <1>9 DEF vars, hostVars, tenantVars, Stored
<1> QED
  BY <1>3, <1>4, <1>5, <1>6, <1>7, <1>8, <1>9
     DEF Next, Worker, Build, Patch, Manager, Clients, Host

\* The objects that stand belong to this incarnation or to one before it, and
\* the garbage collector only takes a namespace from those before it.
THEOREM HostAlwaysOK ==
    ASSUME Undisturbed
    PROVE  Spec => []HostOK
BY InitHostOK, StepRefines, TypeCorrect, FinalizerInvariantHolds, PTL DEF Spec

\* However the controller, users and the cluster interleave, what the API
\* server stores moves through a tenant's life as TenantLifecycle allows.
THEOREM LifecycleImplemented ==
    ASSUME Undisturbed
    PROVE  Spec => LifecycleKept
<1>1. Init => Lifecycle!Init
  <2> SUFFICES ASSUME Init PROVE Lifecycle!Init
    OBVIOUS
  <2>1. Stored = Gone(0) /\ owner = [o \in Children |-> Absent]
    BY DEF Init, HostInit, Stored
  <2>2. Gone(0).uid = 0 /\ ~Gone(0).exists
    BY DEF Gone
  <2> QED
    BY <2>1, <2>2 DEF Lifecycle!Init, Lifecycle!Absent, Absent, StageOf
<1> QED
  BY <1>1, StepRefines, HostAlwaysOK, TypeCorrect, FinalizerInvariantHolds, PTL
     DEF Spec, LifecycleKept, Lifecycle!Spec

\* No object carries the uid of an incarnation that the controller has not put
\* its finalizer on: nothing that Reconcile creates can be orphaned by a
\* deletion that it does not get to see.
THEOREM NothingBuiltBeforeAdoption ==
    ASSUME Undisturbed
    PROVE  Spec => []NothingBeforeAdoption
<1> USE DEF NothingBeforeAdoption, Lifecycle!NothingBeforeAdoption
<1>1. Init => NothingBeforeAdoption
  <2> SUFFICES ASSUME Init PROVE StageOf(Stored) # "new"
    OBVIOUS
  <2>1. Stored = Gone(0) /\ ~Gone(0).exists
    BY DEF Init, Stored, Gone
  <2> QED
    BY <2>1 DEF StageOf
<1>2. ASSUME TypeOK, FinalizerInv, HostOK, NothingBeforeAdoption,
             [Lifecycle!Next]_(Lifecycle!vars)
      PROVE  NothingBeforeAdoption'
  <2>1. /\ owner \in [Children -> Unowned..MaxUid] /\ Stored.uid \in 0..MaxUid
        /\ StageOf(Stored) = "new" => Stored.uid > 0
    <3>1. owner \in [Children -> Unowned..MaxUid]
      BY <1>2 DEF TypeOK, HostTypeOK
    <3> QED
      BY <1>2, <3>1, StoredFacts DEF StageOf
  <2>2. CASE Lifecycle!Create
    BY <1>2, <2>1, <2>2 DEF Lifecycle!Create, HostOK, Absent
  <2>3. CASE \/ Lifecycle!Adopt \/ Lifecycle!Delete \/ Lifecycle!Release
             \/ Lifecycle!Vanish
    BY <2>3 DEF Lifecycle!Adopt, Lifecycle!Delete, Lifecycle!Release, Lifecycle!Vanish
  <2>4. ASSUME NEW o \in Children, Lifecycle!Build(o) PROVE NothingBeforeAdoption'
    BY <1>2, <2>4 DEF Lifecycle!Build
  <2>5. ASSUME NEW o \in Children, Lifecycle!Collect(o) PROVE NothingBeforeAdoption'
    BY <1>2, <2>1, <2>5 DEF Lifecycle!Collect, Lifecycle!Absent
  <2>6. CASE UNCHANGED Lifecycle!vars
    BY <1>2, <2>6 DEF Lifecycle!vars
  <2> QED
    BY <1>2, <2>2, <2>3, <2>4, <2>5, <2>6 DEF Lifecycle!Next
<1> QED
  BY <1>1, <1>2, StepRefines, HostAlwaysOK, TypeCorrect, FinalizerInvariantHolds, PTL
     DEF Spec

-----------------------------------------------------------------------------
(* What is built for the first tenant of a name: Provisioned means that    *)
(* everything is there.  (A second one of the same name may find, and      *)
(* count on, the namespace of the first one while it is not collected.)    *)

\* The incarnation may still be created, or it is there.
Standing == Stored.exists \/ Stored.uid = 0

AllBuilt == \A o \in Children : Exists(o)

\* What a pass takes for built is built: the objects that it has passed, those
\* that the informers show, and all of them where a tenant is provisioned.
BuiltInv ==
    Standing =>
        /\ \A o \in cached : Exists(o)
        /\ pc \in {"get", "sign", "create"} => \A i \in 1..(step - 1) : Exists(Order[i])
        /\ IsTrue(tenant, "Provisioned") => AllBuilt
        /\ \A i \in Versions : IsTrue(versions[i], "Provisioned") => AllBuilt

\* Nothing is collected while the one incarnation is there or to come.
LEMMA NothingCollected ==
    ASSUME OneIncarnation, TypeOK, FinalizerInv, HostOK, Standing
    PROVE  /\ ~terminating
           /\ \A o \in Children : owner[o] \in {Absent} \cup LiveUids
<1>1. Stored.uid \in 0..MaxUid /\ (Stored.exists => Stored.uid > 0)
  BY StoredFacts
<1>2. CASE Stored.exists
  <2>1. Stored.uid = 1 /\ LiveUids = {1}
    BY <1>1, <1>2, MaxUidAssumption DEF OneIncarnation, LiveUids
  <2>2. \A o \in Children : owner[o] = Absent \/ owner[o] = 1
    BY <2>1 DEF HostOK
  <2> QED
    BY <2>1, <2>2 DEF HostOK, Children, Order
<1>3. CASE ~Stored.exists
  <2>1. Stored.uid = 0
    BY <1>3 DEF Standing
  <2>2. \A o \in Children : owner[o] = Absent
    BY <2>1 DEF HostOK
  <2> QED
    BY <2>2 DEF HostOK, Children, Order
<1> QED
  BY <1>2, <1>3

\* So what exists goes on to exist while something else changes.
LEMMA HostBuilt ==
    ASSUME OneIncarnation, TypeOK, FinalizerInv, HostOK, BuiltInv, Host
    PROVE  BuiltInv'
<1>1. /\ Stored' = Stored /\ UNCHANGED <<tenantVars, workerVars>>
  BY HostEffect DEF Host, HostStep, PodFailure, PodRecovery
<1> SUFFICES ASSUME Standing'
             PROVE  BuiltInv'
  BY DEF BuiltInv
<1>2. Standing
  BY <1>1 DEF Standing
<1>3. owner' = owner
  <2>1. ~terminating /\ \A o \in Children : owner[o] \in {Absent} \cup LiveUids
    BY <1>2, NothingCollected
  <2> QED
    BY <2>1, HostEffect
<1>4. \A o \in cached' : Exists(o)'
  <2>1. \A o \in cached : Exists(o)
    BY <1>2 DEF BuiltInv
  <2>2. CASE cached' = cached
    BY <1>3, <2>1, <2>2 DEF Exists
  <2>3. ASSUME NEW o \in Children, SyncCache(o)
        PROVE  \A p \in cached' : Exists(p)'
    BY <1>3, <2>1, <2>3 DEF SyncCache, Exists
  <2> QED
    BY <2>2, <2>3
       DEF Host, HostStep, PodFailure, PodRecovery, CollectGarbage, DrainNamespace,
           FinishNamespace, StartPod, PodReady, PodFails, PodRecovers
<1> QED
  BY <1>1, <1>2, <1>3, <1>4
     DEF BuiltInv, tenantVars, workerVars, Exists, AllBuilt, Versions

LEMMA BuiltInit == Init => BuiltInv
<1> SUFFICES ASSUME Init
             PROVE  BuiltInv
  OBVIOUS
<1>1. Versions = {1} /\ versions[1] = Gone(0) /\ tenant = Gone(0) /\ pc = "idle"
      /\ cached = {}
  BY DEF Init, HostInit, Versions
<1>2. ~IsTrue(Gone(0), "Provisioned")
  BY DEF IsTrue, Gone, NoConditions, ConditionTypes
<1> QED
  BY <1>1, <1>2 DEF BuiltInv

LEMMA ReconcileBuilt ==
    ASSUME TypeOK, BuiltInv,
           \/ ReconcileNotFound \/ ReconcileAddFinalizer
           \/ ReconcileDelete \/ ReconcileNormal
    PROVE  BuiltInv'
<1>1. Shown \in Tenant /\ Shown = versions[1] /\ 1 \in Versions
  BY VersionType DEF TypeOK
<1>2. UNCHANGED <<versions, hostVars>>
  BY DEF ReconcileNotFound, ReconcileAddFinalizer, ReconcileDelete, ReconcileNormal,
         StartPass, Begin, tenantVars
<1>3. /\ Standing' <=> Standing
      /\ AllBuilt' <=> AllBuilt
      /\ \A o \in Children : Exists(o)' <=> Exists(o)
      /\ Versions' = Versions /\ cached' = cached
  BY <1>2 DEF Standing, Stored, AllBuilt, Exists, hostVars, Versions
<1>4. \/ tenant' = tenant /\ pc' = pc /\ pc = "idle"
      \/ tenant'.conds = Shown.conds /\ (pc' = "defer" \/ (pc' = "get" /\ step' = 1))
  BY <1>1
     DEF ReconcileNotFound, ReconcileAddFinalizer, ReconcileDelete, ReconcileNormal, StartPass,
         Begin, Leave, Goto, Tenant, workerVars
<1>5. cached \subseteq Children
  BY DEF TypeOK, HostTypeOK, CachedChildren, Children, Order
<1>6. Standing /\ IsTrue(tenant, "Provisioned")' => AllBuilt
  BY <1>1, <1>4 DEF BuiltInv, IsTrue
<1> QED
  BY <1>2, <1>3, <1>4, <1>5, <1>6 DEF BuiltInv

-----------------------------------------------------------------------------
\* What marking a condition means for another type, and for Provisioned False.
LEMMA MarkProvisioned ==
    ASSUME NEW t \in Tenant, NEW now \in Times
    PROVE  /\ ~IsTrue(Mark(t, "Provisioned", "False", now), "Provisioned")
           /\ IsTrue(Mark(t, "Ready", "True", now), "Provisioned")
                 => IsTrue(t, "Provisioned")
BY DEF Mark, Tenant, IsTrue, ConditionTypes

\* The object at hand is built: the pass goes on to the next one.
LEMMA EnsuredBuilt ==
    ASSUME TypeOK, BuiltInv, Standing, Ensured, pc \in {"get", "create"},
           \A o \in Children : Exists(o) => Exists(o)',
           owner'[Child] # Absent
    PROVE  /\ pc' \in {"get", "sign", "create"} => \A i \in 1..(step' - 1) : Exists(Order[i])'
           /\ IsTrue(tenant, "Provisioned")' => AllBuilt'
<1>1. step \in 1..7 /\ Len(Order) = 7 /\ Children = {Order[i] : i \in 1..7}
  BY OrderLength DEF TypeOK, WorkerTypeOK, Children
<1>2. \A i \in 1..(step - 1) : Order[i] \in Children /\ Exists(Order[i])
  BY <1>1 DEF BuiltInv
<1>3. \A i \in 1..step : Exists(Order[i])'
  <2> TAKE i \in 1..step
  <2>1. CASE i = step
    BY <2>1 DEF Child, Exists
  <2>2. CASE i # step
    BY <1>1, <1>2, <2>2
  <2> QED
    BY <2>1, <2>2
<1>4. IsTrue(tenant, "Provisioned") => AllBuilt'
  BY DEF BuiltInv, AllBuilt
<1>5. CASE step = 1 /\ ~NeedsProvisioning(tenant)
  BY <1>4, <1>5 DEF Ensured, Proceed, Goto
<1>6. CASE ~(step = 1 /\ ~NeedsProvisioning(tenant)) /\ step < Len(Order)
  <2>1. tenant' = tenant /\ step' = step + 1
    BY <1>6 DEF Ensured, Goto
  <2> QED
    BY <1>1, <1>3, <1>4, <2>1
<1>7. CASE ~(step = 1 /\ ~NeedsProvisioning(tenant)) /\ ~(step < Len(Order))
  <2>1. pc' = "check"
    BY <1>7 DEF Ensured, Goto
  <2>2. step = 7
    BY <1>1, <1>7
  <2>3. AllBuilt'
    BY <1>1, <1>3, <2>2 DEF AllBuilt
  <2> QED
    BY <2>1, <2>3
<1> QED
  BY <1>5, <1>6, <1>7

\* reconcileNormal, for an incarnation that is stored as FinalizerGuard says.
LEMMA BuildBuilt ==
    ASSUME TypeOK, FinalizerInv, HostOK, BuiltInv, Build
    PROVE  BuiltInv'
<1> SUFFICES ASSUME Standing'
             PROVE  BuiltInv'
  BY DEF BuiltInv
<1>1. /\ UNCHANGED <<versions, cached>> /\ Stored' = Stored
      /\ Building /\ pc' \in {"get", "sign", "create", "check", "defer"}
      /\ tenant \in Tenant /\ Stored.uid > 0
  BY BuildKeeps, BuildEffect, StoredFacts
     DEF FinalizerInv, FinalizerGuard, TypeOK, WorkerTypeOK, Build, GetFound, GetNotFound,
         GetFails, ParseCASecret, ParseCASecretFails, Create, CreateObject, CreateFails,
         CheckDeploy, CheckDeployFails, hostVars
<1>2. Standing
  BY <1>1 DEF Standing
<1>3. \A o \in Children : Exists(o) => Exists(o)'
  <2>1. owner \in [Children -> Unowned..MaxUid] /\ Stored.uid \in 0..MaxUid
    BY StoredFacts DEF TypeOK, HostTypeOK
  <2> QED
    BY <1>1, <2>1, BuildEffect DEF Exists, Absent
<1>4. Child \in Children \/ pc = "check"
  BY OrderLength DEF TypeOK, WorkerTypeOK, Child, Children
<1>5. cached \subseteq Children /\ \A i \in 1..7 : Order[i] \in Children
  BY OrderLength DEF TypeOK, HostTypeOK, CachedChildren, Children, Order
<1>6. \A i \in 1..(step - 1) : pc \in {"get", "sign", "create"} => Exists(Order[i])'
  <2>1. step \in 1..7
    BY OrderLength DEF TypeOK, WorkerTypeOK
  <2> QED
    BY <1>2, <1>3, <1>5, <2>1 DEF BuiltInv
<1>7. IsTrue(tenant, "Provisioned") => AllBuilt'
  BY <1>2, <1>3 DEF BuiltInv, AllBuilt
<1> DEFINE Goal ==
      /\ pc' \in {"get", "sign", "create"} => \A i \in 1..(step' - 1) : Exists(Order[i])'
      /\ IsTrue(tenant, "Provisioned")' => AllBuilt'
<1>8. ASSUME GetFound
      PROVE  Goal
  <2>1. Exists(Child)
    <3>1. Visible(Child)
      BY <1>8 DEF GetFound
    <3> QED
      BY <1>2, <3>1 DEF Visible, BuiltInv
  <2>2. Ensured /\ pc = "get" /\ Child \in Children
    BY <1>4, <1>8 DEF GetFound
  <2> QED
    BY <1>2, <1>3, <2>1, <2>2, EnsuredBuilt DEF Exists
<1>9. ASSUME Create /\ Ensured
      PROVE  Goal
  <2>1. pc = "create" /\ CreateObject(Child, tenant.uid, SigningCA) /\ Child \in Children
    BY <1>4, <1>9 DEF Create, OwnerReference
  <2>2. tenant.uid = Stored.uid
    BY <1>1 DEF FinalizerInv, FinalizerGuard
  <2>3. owner'[Child] # Absent
    <3>1. owner' = [owner EXCEPT ![Child] = tenant.uid]
      BY <2>1 DEF CreateObject
    <3> QED
      BY <1>1, <2>1, <2>2, <3>1 DEF TypeOK, HostTypeOK, Absent
  <2> QED
    BY <1>2, <1>3, <1>9, <2>1, <2>3, EnsuredBuilt
<1>10. ASSUME FailStep
       PROVE  Goal
  BY <1>1, <1>7, <1>10, MarkProvisioned DEF FailStep, Leave, Goto
<1>11. ASSUME GetNotFound \/ ParseCASecret \/ CheckDeployFails
       PROVE  Goal
  <2>1. tenant' = tenant
    BY <1>11 DEF GetNotFound, ParseCASecret, CheckDeployFails, Proceed, Leave
  <2>2. pc' = "defer" \/ (step' = step /\ pc \in {"get", "sign", "create"})
    BY <1>11 DEF GetNotFound, ParseCASecret, CheckDeployFails, Proceed, Leave, Goto
  <2> QED
    BY <1>6, <1>7, <2>1, <2>2
<1>12. ASSUME CheckDeploy
       PROVE  Goal
  <2>1. pc' \in {"check", "defer"}
    BY <1>12 DEF CheckDeploy, Proceed, Leave, Goto
  <2>2. \/ tenant' = tenant
        \/ \E now \in Times : tenant' = Mark(tenant, "Ready", "True", now)
    BY <1>12 DEF CheckDeploy, Proceed, Leave
  <2> QED
    BY <1>1, <1>7, <2>1, <2>2, MarkProvisioned
<1> HIDE DEF Goal
<1>13. Goal
  BY <1>8, <1>9, <1>10, <1>11, <1>12
     DEF Goal, Build, GetFails, ParseCASecretFails, Create, CreateFails
<1>14. \A i \in Versions' : IsTrue(versions'[i], "Provisioned") => AllBuilt'
  BY <1>1, <1>2, <1>3 DEF BuiltInv, Versions, AllBuilt
<1>15. \A o \in cached' : Exists(o)'
  BY <1>1, <1>2, <1>3, <1>5 DEF BuiltInv
<1> QED
  BY <1>13, <1>14, <1>15 DEF Goal, BuiltInv

-----------------------------------------------------------------------------
\* A write whose conditions some pass held or some version shows.
LEMMA WriteBuilt ==
    ASSUME TypeOK, BuiltInv, Standing, NEW t \in Tenant, Store(t), owner' = owner,
           IsTrue(t, "Provisioned") => AllBuilt
    PROVE  \A i \in Versions' : IsTrue(versions'[i], "Provisioned") => AllBuilt'
<1> TAKE i \in Versions'
<1>1. \/ i \in Versions /\ versions'[i] = versions[i]
      \/ versions'[i] = t
  BY StoreEffect DEF TypeOK
<1> QED
  BY <1>1 DEF BuiltInv, AllBuilt, Exists

\* A tenant that has never been provisioned.
LEMMA NotProvisioned ==
    \A t \in Tenant : t.conds = NoConditions => ~IsTrue(t, "Provisioned")
BY DEF IsTrue, NoConditions, ConditionTypes

\* The worker is idle and nothing else changes for the worse.
LEMMA IdleBuilt ==
    ASSUME TypeOK, BuiltInv, Standing, IdleWorker, owner' = owner, cached' = cached,
           \A i \in Versions' : IsTrue(versions'[i], "Provisioned") => AllBuilt'
    PROVE  BuiltInv'
<1>1. ~IsTrue(Gone(0), "Provisioned")
  BY DEF Gone, IsTrue, NoConditions, ConditionTypes
<1>2. ~IsTrue(tenant, "Provisioned")' /\ pc' = "idle"
  BY <1>1 DEF IdleWorker
<1> QED
  BY <1>2 DEF BuiltInv, Exists

LEMMA PatchBuilt ==
    ASSUME TypeOK, FinalizerInv, BuiltInv, Patch
    PROVE  BuiltInv'
<1>1. /\ TenantTypeOK /\ tenant \in Tenant /\ before \in Tenant /\ Stored \in Tenant
      /\ Stored = versions[Len(versions)] /\ Len(versions) \in Versions
      /\ UNCHANGED hostVars
  BY VersionType
     DEF TypeOK, WorkerTypeOK, Patch, Deferred, DeferredNotFound, PatchMetadata,
         PatchMetadataFails, PatchStatus, PatchStatusFails
<1>2. owner' = owner /\ cached' = cached /\ AllBuilt' = AllBuilt
  BY <1>1 DEF hostVars, AllBuilt, Exists
<1> SUFFICES ASSUME Standing'
             PROVE  BuiltInv'
  BY DEF BuiltInv
<1>3. CASE Deferred \/ DeferredNotFound \/ PatchMetadataFails \/ PatchStatusFails
  <2>1. versions' = versions
    BY <1>3 DEF Deferred, DeferredNotFound, PatchMetadataFails, PatchStatusFails
  <2>2. Standing
    BY <2>1 DEF Standing, Stored
  <2>3. \A i \in Versions' : IsTrue(versions'[i], "Provisioned") => AllBuilt'
    BY <1>2, <2>1, <2>2 DEF BuiltInv, Versions
  <2>4. CASE IdleWorker
    BY <1>2, <2>2, <2>3, <2>4, IdleBuilt
  <2>5. CASE ~IdleWorker
    <3>1. tenant' = ReconcilePhase(tenant) /\ pc' \in {"patch", "status"}
      BY <1>3, <2>5 DEF Deferred, DeferredNotFound, PatchMetadataFails, PatchStatusFails,
                        Return, Goto
    <3>2. ReconcilePhase(tenant).conds = tenant.conds
      BY <1>1 DEF ReconcilePhase, Tenant
    <3>3. IsTrue(tenant, "Provisioned")' => AllBuilt'
      BY <1>2, <2>2, <3>1, <3>2 DEF BuiltInv, IsTrue
    <3> QED
      BY <1>2, <2>2, <2>3, <3>1, <3>3 DEF BuiltInv, Exists
  <2> QED
    BY <2>4, <2>5
<1>4. CASE PatchMetadata
  <2> DEFINE t == WithFinalizers(Stored, tenant.finalizers)
  <2>1. t \in Tenant /\ (t.conds = Stored.conds \/ t.conds = NoConditions)
    BY <1>1, WithFinalizersType DEF Tenant, WithFinalizers, Gone
  <2>2. Store(t) /\ Stored.exists
    BY <1>4 DEF PatchMetadata, MetadataPatchRefused
  <2>3. Standing
    BY <2>2 DEF Standing
  <2> HIDE DEF t
  <2>4. IsTrue(t, "Provisioned") => AllBuilt
    BY <1>1, <2>1, <2>3, NotProvisioned DEF BuiltInv, IsTrue
  <2>5. \A i \in Versions' : IsTrue(versions'[i], "Provisioned") => AllBuilt'
    BY <1>2, <2>1, <2>2, <2>3, <2>4, WriteBuilt
  <2>6. IdleWorker \/ (pc' = "status" /\ tenant' = tenant)
    BY <1>4 DEF PatchMetadata, Return, Goto
  <2>7. CASE IdleWorker
    BY <1>2, <2>3, <2>5, <2>7, IdleBuilt
  <2>8. CASE pc' = "status" /\ tenant' = tenant
    BY <1>2, <2>3, <2>5, <2>8 DEF BuiltInv, Exists, IsTrue
  <2> QED
    BY <2>6, <2>7, <2>8
<1>5. CASE PatchStatus
  <2> DEFINE t == StatusPatched(Stored, before, tenant)
  <2>1. t \in Tenant /\ (t.conds = Stored.conds \/ t.conds = tenant.conds)
    BY <1>1, StatusPatchedType DEF StatusPatched, Tenant
  <2>2. Store(t) /\ Stored.exists /\ IdleWorker
    BY <1>5 DEF PatchStatus, StatusPatchRefused, Return
  <2>3. Standing
    BY <2>2 DEF Standing
  <2> HIDE DEF t
  <2>4. IsTrue(t, "Provisioned") => AllBuilt
    BY <1>1, <2>1, <2>3 DEF BuiltInv, IsTrue
  <2>5. \A i \in Versions' : IsTrue(versions'[i], "Provisioned") => AllBuilt'
    BY <1>2, <2>1, <2>2, <2>3, <2>4, WriteBuilt
  <2> QED
    BY <1>2, <2>2, <2>3, <2>5, IdleBuilt
<1> QED
  BY <1>3, <1>4, <1>5 DEF Patch

\* A restarted manager lists its caches anew.
LEMMA ManagerBuilt ==
    ASSUME TypeOK, BuiltInv, Manager
    PROVE  BuiltInv'
<1>1. TenantTypeOK
  BY DEF TypeOK
<1> SUFFICES ASSUME Standing'
             PROVE  BuiltInv'
  BY DEF BuiltInv
<1>2. CASE Deliver
  <2>1. Stored' = Stored /\ owner' = owner /\ cached' = cached /\ UNCHANGED workerVars
        /\ \A i \in Versions' : i + 1 \in Versions /\ versions'[i] = versions[i + 1]
    BY <1>1, <1>2 DEF Deliver, Stored, TenantTypeOK, Versions, hostVars
  <2>2. Standing
    BY <2>1 DEF Standing
  <2> QED
    BY <2>1, <2>2 DEF BuiltInv, AllBuilt, Exists, workerVars
<1>3. CASE FireTimer \/ Resync
  BY <1>3 DEF FireTimer, Resync, tenantVars, workerVars, hostVars, BuiltInv, Standing, Stored,
              AllBuilt, Exists, Versions
<1>4. CASE Crash
  <2>1. PICK first \in 1..Len(versions) : versions' = SubSeq(versions, first, Len(versions))
    BY <1>4 DEF Crash
  <2>2. /\ first \in Nat /\ Len(versions) \in Nat
        /\ Len(versions') = Len(versions) - first + 1
        /\ \A i \in 1..(Len(versions) - first + 1) : versions'[i] = versions[i + first - 1]
    BY <1>1, <2>1 DEF TenantTypeOK
  <2>3. \A i \in Versions' : i + first - 1 \in Versions /\ versions'[i] = versions[i + first - 1]
    BY <2>1, <2>2 DEF Versions
  <2>4. Stored' = Stored
    BY <2>1, <2>2 DEF Stored
  <2>5. Standing /\ owner' = owner /\ IdleWorker
        /\ \A o \in cached' : o \in cached \/ Exists(o)
    BY <1>4, <2>4 DEF Standing, Crash, RelistChildren
  <2>6. \A i \in Versions' : IsTrue(versions'[i], "Provisioned") => AllBuilt'
    BY <2>3, <2>5 DEF BuiltInv, AllBuilt, Exists
  <2>7. ~IsTrue(tenant, "Provisioned")' /\ pc' = "idle"
    <3>1. ~IsTrue(Gone(0), "Provisioned")
      BY DEF Gone, IsTrue, NoConditions, ConditionTypes
    <3> QED
      BY <2>5, <3>1 DEF IdleWorker
  <2> QED
    BY <2>5, <2>6, <2>7 DEF BuiltInv, Exists
<1> QED
  BY <1>2, <1>3, <1>4 DEF Manager

\* Only the first tenant is ever created.
LEMMA ClientsBuilt ==
    ASSUME OneIncarnation, TypeOK, FinalizerInv, BuiltInv, Clients
    PROVE  BuiltInv'
<1>1. /\ TenantTypeOK /\ Stored \in Tenant /\ Stored.uid \in 0..MaxUid
      /\ Stored = versions[Len(versions)] /\ Len(versions) \in Versions
  BY StoredFacts, VersionType
<1>2. PICK t \in Tenant : /\ StoreByOthers(t)
                          /\ t.conds = Stored.conds \/ t.conds = NoConditions
                          /\ (t.uid = Stored.uid /\ Stored.exists) \/ Stored.uid < MaxUid
  BY ClientsWrite
<1>3. Standing
  BY <1>1, <1>2, MaxUidAssumption DEF Standing, OneIncarnation
<1>4. IsTrue(t, "Provisioned") => AllBuilt
  BY <1>1, <1>2, <1>3, NotProvisioned DEF BuiltInv, IsTrue
<1>5. UNCHANGED <<hostVars, workerVars>>
  BY ClientsWrite
<1>6. \A i \in Versions' : IsTrue(versions'[i], "Provisioned") => AllBuilt'
  BY <1>2, <1>3, <1>4, <1>5, WriteBuilt DEF StoreByOthers, hostVars
<1> QED
  BY <1>3, <1>5, <1>6 DEF BuiltInv, hostVars, workerVars, Exists, AllBuilt

LEMMA BuiltStep ==
    ASSUME OneIncarnation, TypeOK, FinalizerInv, HostOK, BuiltInv, [Next]_vars
    PROVE  BuiltInv'
<1>1. CASE UNCHANGED vars
  BY <1>1 DEF vars, hostVars, tenantVars, workerVars, BuiltInv, Standing, Stored, AllBuilt,
              Exists, Versions
<1> QED
  BY <1>1, ReconcileBuilt, BuildBuilt, PatchBuilt, ManagerBuilt, ClientsBuilt, HostBuilt
     DEF Next, Worker, Build, Patch, Manager, Clients, Host

\* With one incarnation, what exists belongs to it.
LEMMA BuiltForOne ==
    ASSUME OneIncarnation, TypeOK, FinalizerInv, HostOK, BuiltInv
    PROVE  ProvisionedMeansBuilt
<1> SUFFICES ASSUME Stored.exists, IsTrue(Stored, "Provisioned")
             PROVE  \A o \in Children : owner[o] = Stored.uid
  BY DEF ProvisionedMeansBuilt
<1>1. Stored = versions[Len(versions)] /\ Len(versions) \in Versions
  BY VersionType DEF TypeOK
<1>2. Stored.uid = 1
  BY StoredFacts, MaxUidAssumption DEF OneIncarnation
<1>3. \A o \in Children : owner[o] # Absent
  BY <1>1 DEF BuiltInv, Standing, AllBuilt, Exists
<1>4. \A o \in Children : owner[o] = Absent \/ owner[o] = 1
  BY <1>2 DEF HostOK
<1> QED
  BY <1>2, <1>3, <1>4

\* The Provisioned condition that users see is only ever True while every object
\* of the control plane exists and belongs to this tenant, through lost answers,
\* restarts between a create and the status patch, and stale reads, for the
\* first tenant of its name.
THEOREM ProvisionedIsBuilt ==
    ASSUME OneIncarnation
    PROVE  Spec => []ProvisionedMeansBuilt
<1>1. Undisturbed
  BY DEF OneIncarnation, Undisturbed
<1>2. TypeOK /\ FinalizerInv /\ HostOK /\ BuiltInv /\ [Next]_vars => BuiltInv'
  BY BuiltStep
<1>3. TypeOK /\ FinalizerInv /\ HostOK /\ BuiltInv => ProvisionedMeansBuilt
  BY BuiltForOne
<1> QED
  BY BuiltInit, <1>1, <1>2, <1>3, TypeCorrect, FinalizerInvariantHolds, HostAlwaysOK, PTL
     DEF Spec

-----------------------------------------------------------------------------
(* The certificates that stand side by side. *)

\* A kubeconfig is only built beside the server certificate whose CA signs it.
TrustInv ==
    /\ KubeconfigsTrusted
    /\ Standing => \A k \in Kubeconfigs : Exists(k) => Exists("server-cert")
    /\ pc = "create" /\ Child \in Kubeconfigs =>
          Exists("server-cert") /\ signer = ca["server-cert"]

\* The incarnation that is gone does not come back, and there is no other one.
LEMMA StandingBefore ==
    ASSUME OneIncarnation, TypeOK, FinalizerInv, [Next]_vars, Standing'
    PROVE  Standing
<1>1. TenantTypeOK /\ Stored.uid \in 0..MaxUid
  BY StoredFacts
<1>2. CASE Stored' = Stored
  BY <1>2 DEF Standing
<1>3. CASE Clients
  <2>1. Stored.exists \/ Stored.uid < MaxUid
    BY <1>3, ClientsWrite
  <2> QED
    BY <1>1, <2>1, MaxUidAssumption DEF Standing, OneIncarnation
<1>4. CASE PatchMetadata \/ PatchStatus
  BY <1>4 DEF PatchMetadata, PatchStatus, MetadataPatchRefused, StatusPatchRefused, Standing
<1>5. CASE Manager
  <2>1. Stored' = Stored
    <3>1. CASE Crash
      <4>1. PICK first \in 1..Len(versions) : versions' = SubSeq(versions, first, Len(versions))
        BY <3>1 DEF Crash
      <4>2. /\ first \in Nat /\ Len(versions) \in Nat
            /\ versions'[Len(versions')] = versions[Len(versions)]
        BY <1>1, <4>1 DEF TenantTypeOK
      <4> QED
        BY <4>2 DEF Stored
    <3>2. CASE Deliver
      BY <1>1, <3>2 DEF Deliver, Stored, TenantTypeOK
    <3> QED
      BY <1>5, <3>1, <3>2 DEF Manager, FireTimer, Resync, tenantVars, Stored
  <2> QED
    BY <1>2, <2>1
<1>6. CASE \/ ReconcileNotFound \/ ReconcileAddFinalizer \/ ReconcileDelete \/ ReconcileNormal
           \/ Deferred \/ DeferredNotFound \/ PatchMetadataFails \/ PatchStatusFails
           \/ UNCHANGED vars
  BY <1>2, <1>6
     DEF ReconcileNotFound, ReconcileAddFinalizer, ReconcileDelete, ReconcileNormal, StartPass,
         Begin, Deferred, DeferredNotFound, PatchMetadataFails, PatchStatusFails,
         vars, tenantVars, Stored
<1> QED
  BY <1>2, <1>3, <1>4, <1>5, <1>6, BuildEffect, HostEffect
     DEF Next, Worker, Build, Patch, Manager, Clients, Host

\* What is removed takes its certificate with it.
LEMMA HostTrust ==
    ASSUME OneIncarnation, TypeOK, FinalizerInv, HostOK, TrustInv, Host
    PROVE  TrustInv'
<1>1. Stored' = Stored /\ UNCHANGED workerVars /\ (Standing' <=> Standing)
  BY HostEffect DEF Host, HostStep, PodFailure, PodRecovery, Standing
<1>2. /\ owner \in [Children -> Unowned..MaxUid] /\ ca \in [Secrets -> CAs \cup {0}]
      /\ Secrets \subseteq Children /\ Kubeconfigs \subseteq Secrets
      /\ "server-cert" \in Secrets
  BY DEF TypeOK, HostTypeOK, Secrets, Kubeconfigs, Children, Order
<1>3. CASE owner' = owner /\ ca' = ca
  BY <1>1, <1>3 DEF TrustInv, KubeconfigsTrusted, Exists, Child, workerVars
<1>4. ASSUME NEW o \in Children, Remove(o), owner[o] # Absent,
             terminating \/ owner[o] \notin {Absent} \cup LiveUids
      PROVE  TrustInv'
  <2>1. ~Standing
    BY <1>4, NothingCollected
  <2>2. pc # "create"
    BY <2>1 DEF FinalizerInv, FinalizerGuard, Building, Standing
  <2>3. /\ \A p \in Children : Exists(p)' => Exists(p)
        /\ \A s \in Secrets : Exists(s)' => ca'[s] = ca[s]
    BY <1>2, <1>4 DEF Remove, Exists
  <2>4. KubeconfigsTrusted'
    BY <1>2, <2>3 DEF TrustInv, KubeconfigsTrusted
  <2> QED
    BY <1>1, <2>1, <2>2, <2>4 DEF TrustInv, workerVars
<1>5. CASE FinishNamespace
  <2>1. Remove("namespace") /\ "namespace" \in Children /\ terminating
    BY <1>5 DEF FinishNamespace, Children, Order
  <2> QED
    BY <1>4, <2>1 DEF HostOK
<1>6. ASSUME NEW o \in Children, CollectGarbage(o, LiveUids) \/ DrainNamespace(o)
      PROVE  TrustInv'
  BY <1>3, <1>4, <1>6 DEF CollectGarbage, DrainNamespace, Exists
<1>7. CASE \/ \E o \in Children : SyncCache(o)
           \/ \E d \in Deployments : StartPod(d) \/ PodReady(d) \/ PodFails(d) \/ PodRecovers(d)
  BY <1>3, <1>7 DEF SyncCache, StartPod, PodReady, PodFails, PodRecovers
<1> QED
  BY <1>5, <1>6, <1>7 DEF Host, HostStep, PodFailure, PodRecovery

\* The one step that writes certificates.
LEMMA CreateTrust ==
    ASSUME TypeOK, FinalizerInv, TrustInv, Create
    PROVE  TrustInv'
<1>1. /\ owner \in [Children -> Unowned..MaxUid] /\ ca \in [Secrets -> CAs \cup {0}]
      /\ Secrets \subseteq Children /\ Kubeconfigs \subseteq Secrets
      /\ "server-cert" \in Secrets /\ "server-cert" \notin Kubeconfigs
      /\ Child \in Children
  BY OrderLength DEF TypeOK, HostTypeOK, WorkerTypeOK, Secrets, Kubeconfigs, Child, Children, Order
<1>2. /\ pc = "create" /\ CanCreate(Child) /\ Stored' = Stored
      /\ owner' = [owner EXCEPT ![Child] = tenant.uid]
      /\ ca' = IF Child \in Secrets THEN [ca EXCEPT ![Child] = SigningCA] ELSE ca
  BY DEF Create, CreateObject, OwnerReference, tenantVars, Stored
<1>3. pc' \in {"get", "check", "defer"}
  BY DEF Create, Ensured, FailStep, Proceed, Leave, Goto
<1>4. Standing /\ ~Exists(Child) /\ tenant.uid # Absent
  <2>1. Stored.exists /\ tenant.uid = Stored.uid /\ Stored.uid > 0
    BY <1>2, StoredFacts DEF FinalizerInv, FinalizerGuard, Building
  <2> QED
    BY <1>2, <2>1, StoredFacts DEF Standing, CanCreate, Absent
<1>5. \A p \in Children : p # Child => (Exists(p)' <=> Exists(p))
  BY <1>1, <1>2 DEF Exists
<1>6. CASE Child = "server-cert"
  <2>1. \A k \in Kubeconfigs : ~Exists(k) /\ k # Child
    BY <1>1, <1>4, <1>6 DEF TrustInv
  <2>2. \A k \in Kubeconfigs : ~Exists(k)'
    BY <1>1, <1>5, <2>1
  <2> QED
    BY <1>3, <2>2 DEF TrustInv, KubeconfigsTrusted
<1>7. CASE Child \in Kubeconfigs
  <2>1. Exists("server-cert") /\ SigningCA = ca["server-cert"]
    BY <1>1, <1>2, <1>7 DEF TrustInv, SigningCA
  <2>2. Exists("server-cert")' /\ ca'["server-cert"] = ca["server-cert"]
    BY <1>1, <1>2, <1>5, <1>7, <2>1
  <2>3. \A k \in Kubeconfigs : Exists(k)' => ca'[k] = ca["server-cert"]
    <3> SUFFICES ASSUME NEW k \in Kubeconfigs, Exists(k)'
                 PROVE  ca'[k] = ca["server-cert"]
      OBVIOUS
    <3>1. CASE k = Child
      BY <1>1, <1>2, <2>1, <3>1
    <3>2. CASE k # Child
      <4>1. Exists(k) /\ ca'[k] = ca[k]
        BY <1>1, <1>2, <1>5, <3>2
      <4> QED
        BY <2>1, <4>1 DEF TrustInv, KubeconfigsTrusted
    <3> QED
      BY <3>1, <3>2
  <2> QED
    BY <1>3, <2>2, <2>3 DEF TrustInv, KubeconfigsTrusted
<1>8. CASE Child \notin Secrets
  <2>1. \A s \in Secrets : (Exists(s)' <=> Exists(s)) /\ ca'[s] = ca[s]
    BY <1>1, <1>2, <1>5, <1>8
  <2> QED
    BY <1>1, <1>3, <1>4, <2>1 DEF TrustInv, KubeconfigsTrusted
<1> QED
  BY <1>6, <1>7, <1>8 DEF Kubeconfigs

\* The other steps write no objects and no certificates.
LEMMA ObjectsLeft ==
    ASSUME TypeOK, [Next]_vars, ~Create, ~Host
    PROVE  owner' = owner /\ ca' = ca
BY ClientsWrite
   DEF Next, Worker, ReconcileNotFound, ReconcileAddFinalizer, ReconcileDelete, ReconcileNormal,
       StartPass, Begin, GetFound, GetNotFound, GetFails, ParseCASecret, ParseCASecretFails,
       CreateFails, CheckDeploy, CheckDeployFails, Deferred, DeferredNotFound, PatchMetadata,
       PatchMetadataFails, PatchStatus, PatchStatusFails, Deliver, FireTimer, Resync, Crash,
       RelistChildren, Clients, Host, hostVars, vars

\* A pass that is about to create a kubeconfig has read the CA.
LEMMA OtherTrust ==
    ASSUME OneIncarnation, TypeOK, FinalizerInv, TrustInv, [Next]_vars, ~Create, ~Host
    PROVE  TrustInv'
<1>1. owner' = owner /\ ca' = ca
  BY ObjectsLeft
<1>2. Standing' => Standing
  BY StandingBefore
<1>3. CASE pc' # "create"
  BY <1>1, <1>2, <1>3 DEF TrustInv, KubeconfigsTrusted, Exists
<1>4. CASE UNCHANGED <<pc, step, signer>>
  BY <1>1, <1>2, <1>4 DEF TrustInv, KubeconfigsTrusted, Exists, Child
<1>5. CASE ParseCASecret
  BY <1>1, <1>2, <1>5 DEF ParseCASecret, Goto, TrustInv, KubeconfigsTrusted, Exists, Child
<1>6. CASE GetNotFound
  BY <1>1, <1>2, <1>6 DEF GetNotFound, Proceed, Goto, TrustInv, KubeconfigsTrusted, Exists, Child
<1>7. \/ pc' # "create" \/ UNCHANGED <<pc, step, signer>> \/ ParseCASecret \/ GetNotFound
  BY ClientsWrite
     DEF Next, Worker, ReconcileNotFound, ReconcileAddFinalizer, ReconcileDelete, ReconcileNormal,
         StartPass, Begin, GetFound, GetFails, ParseCASecretFails, Ensured, FailStep, Leave,
         Proceed, Goto, CreateFails, CheckDeploy, CheckDeployFails, Deferred, DeferredNotFound,
         PatchMetadata, PatchMetadataFails, PatchStatus, PatchStatusFails, Return, IdleWorker,
         Deliver, FireTimer, Resync, Crash, Clients, Host, workerVars, vars
<1> QED
  BY <1>3, <1>4, <1>5, <1>6, <1>7

LEMMA TrustStep ==
    ASSUME OneIncarnation, TypeOK, FinalizerInv, HostOK, TrustInv, [Next]_vars
    PROVE  TrustInv'
BY CreateTrust, HostTrust, OtherTrust

\* While the tenant stands, what is built stays, with its certificate.
LEMMA StandingKeeps ==
    ASSUME OneIncarnation, TypeOK, FinalizerInv, HostOK, [Next]_vars, Standing'
    PROVE  /\ Standing
           /\ \A o \in Children : Exists(o) => Exists(o)'
           /\ \A s \in Secrets : Exists(s) => ca'[s] = ca[s]
<1>1. Standing
  BY StandingBefore
<1>2. owner \in [Children -> Unowned..MaxUid] /\ ca \in [Secrets -> CAs \cup {0}]
  BY DEF TypeOK, HostTypeOK
<1>3. CASE owner' = owner /\ ca' = ca
  BY <1>1, <1>3 DEF Exists
<1>4. CASE Create
  <2>1. /\ CanCreate(Child)
        /\ owner' = [owner EXCEPT ![Child] = tenant.uid]
        /\ ca' = IF Child \in Secrets THEN [ca EXCEPT ![Child] = SigningCA] ELSE ca
    BY <1>4 DEF Create, CreateObject, OwnerReference
  <2>2. \A o \in Children : Exists(o) => o # Child /\ owner'[o] = owner[o]
    BY <1>2, <2>1 DEF CanCreate, Exists
  <2>3. \A s \in Secrets : s # Child => ca'[s] = ca[s]
    BY <1>2, <2>1
  <2> QED
    BY <1>1, <2>1, <2>2, <2>3 DEF Exists, CanCreate
<1>5. CASE Host
  <2>1. ~terminating /\ \A o \in Children : owner[o] \in {Absent} \cup LiveUids
    BY <1>1, NothingCollected
  <2>2. owner' = owner /\ ca' = ca
    BY <1>5, <2>1
       DEF Host, HostStep, PodFailure, PodRecovery, CollectGarbage, DrainNamespace,
           FinishNamespace, SyncCache, StartPod, PodReady, PodFails, PodRecovers
  <2> QED
    BY <1>3, <2>2
<1> QED
  BY <1>3, <1>4, <1>5, ObjectsLeft

\* A kubeconfig and the server certificate that stand side by side come from one
\* CA: a retried reconcileSecret or reconcileKubeConfig never leaves a client
\* certificate that the API server of the first tenant of a name does not trust.
THEOREM KubeconfigsAlwaysTrusted ==
    ASSUME OneIncarnation
    PROVE  Spec => []KubeconfigsTrusted
<1>1. Undisturbed
  BY DEF OneIncarnation, Undisturbed
<1>2. Init => TrustInv
  BY DEF Init, HostInit, TrustInv, KubeconfigsTrusted, Exists, Kubeconfigs, Secrets, Children,
         Order
<1>3. TypeOK /\ FinalizerInv /\ HostOK /\ TrustInv /\ [Next]_vars => TrustInv'
  BY TrustStep
<1>4. TrustInv => KubeconfigsTrusted
  BY DEF TrustInv
<1> QED
  BY <1>1, <1>2, <1>3, <1>4, TypeCorrect, FinalizerInvariantHolds, HostAlwaysOK, PTL DEF Spec
===============================================================================
