---------------------------- MODULE FinalizerProofs ----------------------------
(***************************************************************************)
(* FinalizerGuard holds in every reachable state: the proof that           *)
(* FinalizerInv is inductive, for every lag of the informer and every      *)
(* number of failures and restarts, where no other controller puts         *)
(* finalizers on tenants or where there is one incarnation.                *)
(***************************************************************************)
EXTENDS FinalizerInvariant, TenantControllerProofs

-----------------------------------------------------------------------------
(* The order of the versions. *)

LEMMA OlderReflexive ==
    ASSUME NEW t \in Tenant
    PROVE  Older(t, t)
BY DEF Older, Tenant

LEMMA OlderTransitive ==
    ASSUME NEW a \in Tenant, NEW b \in Tenant, NEW c \in Tenant,
           Older(a, b), Older(b, c)
    PROVE  Older(a, c)
BY DEF Older, Tenant

\* What has been seen deleting is seen deleting in every later version of the
\* incarnation, up to one that exists.
LEMMA DeletionStays ==
    ASSUME NEW a \in Tenant, NEW b \in Tenant, NEW c \in Tenant,
           Older(a, b), Older(b, c), a.uid = c.uid, c.exists, a.exists, a.deleting
    PROVE  b.uid = c.uid /\ b.exists /\ b.deleting
BY DEF Older, Tenant

\* The versions are tenants, and the first and the last are among them.
LEMMA VersionType ==
    ASSUME TenantTypeOK
    PROVE  /\ \A i \in Versions : versions[i] \in Tenant
           /\ 1 \in Versions /\ Len(versions) \in Versions
           /\ Shown = versions[1] /\ Stored = versions[Len(versions)]
           /\ Shown \in Tenant /\ Stored \in Tenant
BY DEF TenantTypeOK, Versions, Shown, Stored

\* What a write of the tenant does to the versions.
LEMMA StoreEffect ==
    ASSUME TenantTypeOK, NEW t \in Tenant, Store(t)
    PROVE  /\ Stored' = t /\ Shown' = Shown
           /\ Versions \subseteq Versions'
           /\ \A i \in Versions : versions'[i] = versions[i]
           /\ \A i \in Versions' : i \notin Versions =>
                 i = Len(versions') /\ versions'[i] = t /\ \A j \in Versions : j < i
           /\ Len(versions') \in Versions'
<1>1. CASE t = Stored
  BY <1>1 DEF TenantTypeOK, Store, Versions, Shown, Stored
<1>2. CASE t # Stored
  <2>1. versions' = Append(versions, t)
    BY <1>2 DEF Store
  <2>2. Len(versions') = Len(versions) + 1 /\ Len(versions) \in Nat \ {0}
    BY <2>1 DEF TenantTypeOK
  <2>3. versions'[Len(versions) + 1] = t
    BY <2>1 DEF TenantTypeOK
  <2>4. \A i \in Versions : versions'[i] = versions[i]
    BY <2>1 DEF TenantTypeOK, Versions
  <2> QED
    BY <2>2, <2>3, <2>4 DEF Versions, Shown, Stored
<1> QED
  BY <1>1, <1>2

\* A write that goes forward keeps the versions in order.
LEMMA StoreOrdered ==
    ASSUME TenantTypeOK, Shaped, Ordered, NEW t \in Tenant, Store(t),
           Older(Stored, t), Own(t) => t.exists, t.exists => t.uid > 0
    PROVE  /\ Shaped' /\ Ordered'
           /\ \A i \in Versions : versions[i].uid <= t.uid
<1>1. \A i \in Versions : Older(versions[i], Stored)
  BY VersionType DEF Ordered, Versions
<1>2. \A i \in Versions : Older(versions[i], t)
  BY <1>1, VersionType, OlderTransitive
<1>3. Shaped'
  BY StoreEffect DEF Shaped
<1>4. Older(t, t)
  BY OlderReflexive
<1>5. ASSUME NEW i \in Versions', NEW j \in Versions', i <= j
      PROVE  Older(versions'[i], versions'[j])
  <2>1. CASE j \in Versions
    <3>1. i \in Versions
      BY <2>1, <1>5, StoreEffect DEF Versions, TenantTypeOK
    <3> QED
      BY <2>1, <3>1, <1>5, StoreEffect DEF Ordered
  <2>2. CASE j \notin Versions
    <3>1. versions'[j] = t
      BY <2>2, StoreEffect
    <3>2. CASE i \in Versions
      BY <3>1, <3>2, <1>2, StoreEffect
    <3>3. CASE i \notin Versions
      BY <3>1, <3>3, <1>4, StoreEffect
    <3> QED
      BY <3>2, <3>3
  <2> QED
    BY <2>1, <2>2
<1>6. Ordered'
  BY <1>5 DEF Ordered
<1> QED
  BY <1>2, <1>3, <1>6 DEF Older

-----------------------------------------------------------------------------
(* What each kind of step leaves true of the versions. *)

\* The facts about the versions, for a worker that has seen eye.
VersionFacts(eye) == Shaped /\ Ordered /\ OneAtATime /\ KeptBut(eye)

\* The facts about the first read that the metadata patch relies on.
Latest(t) ==
    Own(t) => \A i \in Versions : t.uid < versions[i].uid => ~Own(versions[i])

\* A write that leaves the finalizer and the incarnation that has it alone.
Harmless(t) ==
    /\ Older(Stored, t)
    /\ Own(t) <=> Own(Stored)
    /\ Own(Stored) => t.uid = Stored.uid /\ t.exists
    /\ t.exists => t.uid > 0

LEMMA HarmlessStore ==
    ASSUME TenantTypeOK, NEW eye \in Tenant, VersionFacts(eye),
           NEW t \in Tenant, Store(t), Harmless(t)
    PROVE  VersionFacts(eye)'
<1>1. Shaped' /\ Ordered' /\ \A i \in Versions : versions[i].uid <= t.uid
  BY StoreOrdered DEF VersionFacts, Harmless
<1>2. \A i \in Versions' : \E k \in Versions :
         /\ Own(versions'[i]) => Own(versions[k]) /\ versions[k].uid = versions'[i].uid
         /\ i \in Versions => k = i
         /\ i \notin Versions => k = Len(versions)
  BY StoreEffect, VersionType DEF Harmless
<1>3. OneAtATime'
  <2> SUFFICES ASSUME NEW i \in Versions', NEW j \in Versions',
                      Own(versions'[i]), versions'[i].uid < versions'[j].uid,
                      Own(versions'[j])
               PROVE  FALSE
    BY DEF OneAtATime
  <2> QED
    BY <1>2 DEF VersionFacts, OneAtATime
<1>4. KeptBut(eye)'
  <2> SUFFICES ASSUME NEW i \in Versions', Own(versions'[i])
               PROVE  \/ Stored'.uid = versions'[i].uid /\ Own(Stored')
                      \/ eye.uid = versions'[i].uid /\ eye.exists /\ eye.deleting
    BY DEF KeptBut, Own
  <2> QED
    BY <1>2, StoreEffect DEF VersionFacts, KeptBut, Harmless
<1> QED
  BY <1>1, <1>3, <1>4 DEF VersionFacts

LEMMA HarmlessLatest ==
    ASSUME TenantTypeOK, NEW r \in Tenant, Latest(r),
           NEW t \in Tenant, Store(t), Harmless(t)
    PROVE  Latest(r)'
BY StoreEffect, VersionType DEF Harmless, Latest

\* The pass that writes the finalizer back: nobody is shown with it but the
\* incarnation that has it.  This is where Undisturbed is needed.
LEMMA WritingBack ==
    ASSUME Undisturbed, TypeOK, FinalizerInv, pc = "patch",
           Own(tenant), ~Own(Stored),
           NEW i \in Versions, Own(versions[i])
    PROVE  ~(versions[i].uid < Stored.uid)
<1> SUFFICES ASSUME versions[i].uid < Stored.uid PROVE FALSE
  OBVIOUS
<1>1. /\ read \in Tenant /\ before \in Tenant /\ tenant \in Tenant
      /\ versions[i] \in Tenant /\ Shown \in Tenant /\ Stored \in Tenant
  BY VersionType DEF TypeOK, WorkerTypeOK
<1>2. read.uid = versions[i].uid /\ read.exists /\ read.deleting
  BY DEF FinalizerInv, Kept, KeptBut, Eye
<1>3. versions[i].exists /\ versions[i].uid > 0
  BY DEF FinalizerInv, Shaped
<1>4. Older(read, before) /\ Older(before, Shown) /\ Older(Shown, versions[i])
  BY VersionType DEF FinalizerInv, BeforeOK, Ordered, TypeOK, Versions
<1>5. Older(before, versions[i])
  BY <1>1, <1>4, OlderTransitive
<1>6. before.uid = versions[i].uid /\ before.exists /\ before.deleting
  BY <1>1, <1>2, <1>3, <1>4, <1>5, DeletionStays
<1>7. Own(before)
  BY <1>3, <1>5, <1>6 DEF Older, Own
<1>8. tenant.finalizers # before.finalizers
  BY DEF FinalizerInv, BeforeOK, MetadataDiffers
<1>9. CASE OtherFinalizers = {}
  <2>1. tenant.finalizers \subseteq {TenantFinalizer}
        /\ before.finalizers \subseteq {TenantFinalizer}
    BY <1>1, <1>9 DEF Tenant, Finalizers
  <2>2. tenant.finalizers = {TenantFinalizer} /\ before.finalizers = {TenantFinalizer}
    BY <1>7, <2>1 DEF Own
  <2> QED
    BY <1>8, <2>2
<1>10. CASE MaxUid <= 1
  BY <1>1, <1>3, <1>10, MaxUidAssumption DEF Tenant
<1> QED
  BY <1>9, <1>10 DEF Undisturbed

LEMMA PatchMetadataFacts ==
    ASSUME Undisturbed, TypeOK, FinalizerInv, PatchMetadata,
           NEW r \in Tenant, r = read
    PROVE  /\ VersionFacts(r)'
           /\ Older(Stored, Stored') /\ Shown' = Shown
<1> DEFINE t == WithFinalizers(Stored, tenant.finalizers)
<1>1. /\ TenantTypeOK /\ read \in Tenant /\ tenant \in Tenant
      /\ Shown \in Tenant /\ Stored \in Tenant
  BY VersionType DEF TypeOK, WorkerTypeOK
<1>2. pc = "patch" /\ Store(t) /\ ~MetadataPatchRefused
  BY DEF PatchMetadata
<1>3. t \in Tenant
  BY <1>1, WithFinalizersType DEF Tenant
<1>4. /\ t.uid = Stored.uid
      /\ Own(t) <=> Own(tenant)
      /\ Own(t) => t.exists
      /\ t.exists => Stored.exists /\ t.deleting = Stored.deleting
                     /\ t.finalizers = tenant.finalizers
  BY <1>1, <1>2 DEF WithFinalizers, Gone, Own, MetadataPatchRefused, Tenant
<1>5. Older(Stored, t)
  BY <1>1, <1>2, <1>3, <1>4 DEF Older, MetadataPatchRefused, Tenant
<1>6. Stored.exists => Stored.uid > 0
  BY <1>1, VersionType DEF FinalizerInv, Shaped
<1> HIDE DEF t
<1>7. Shaped' /\ Ordered' /\ \A i \in Versions : versions[i].uid <= t.uid
  BY <1>1, <1>2, <1>3, <1>4, <1>5, <1>6, StoreOrdered DEF FinalizerInv
<1>8. ASSUME NEW i \in Versions, Own(versions[i])
      PROVE  \/ Own(t) /\ versions[i].uid = t.uid
             \/ ~Own(t) /\ read.uid = versions[i].uid /\ read.exists /\ read.deleting
  <2>1. versions[i] \in Tenant
    BY <1>1, VersionType
  <2>2. CASE Own(tenant) /\ Own(Stored)
    <3>1. ~(versions[i].uid < Stored.uid)
      BY <1>1, <1>8, <2>2, VersionType DEF FinalizerInv, OneAtATime
    <3> QED
      BY <1>1, <1>4, <1>7, <2>1, <2>2, <3>1 DEF Tenant
  <2>3. CASE Own(tenant) /\ ~Own(Stored)
    <3>1. ~(versions[i].uid < Stored.uid)
      BY <1>2, <1>8, <2>3, WritingBack
    <3> QED
      BY <1>1, <1>4, <1>7, <2>1, <2>3, <3>1 DEF Tenant
  <2>4. CASE ~Own(tenant)
    <3>1. Own(read) /\ read.deleting /\ read.exists /\ Older(read, Shown)
      BY <1>2, <2>4 DEF FinalizerInv, PassOK
    <3>2. Older(Shown, versions[i])
      BY <1>1, VersionType DEF FinalizerInv, Ordered, Versions
    <3>3. read.uid <= versions[i].uid
      BY <1>1, <2>1, <3>1, <3>2, OlderTransitive DEF Older
    <3>4. ~(read.uid < versions[i].uid)
      BY <1>2, <1>8, <3>1 DEF FinalizerInv, ReadOK
    <3> QED
      BY <1>1, <1>4, <2>1, <2>4, <3>1, <3>3, <3>4 DEF Tenant
  <2> QED
    BY <2>2, <2>3, <2>4
<1>9. /\ Stored' = t /\ Shown' = Shown
      /\ \A i \in Versions' : \/ i \in Versions /\ versions'[i] = versions[i]
                              \/ versions'[i] = t
  BY <1>1, <1>2, <1>3, StoreEffect
<1>10. OneAtATime'
  <2> SUFFICES ASSUME NEW i \in Versions', NEW j \in Versions',
                      Own(versions'[i]), versions'[i].uid < versions'[j].uid,
                      Own(versions'[j])
               PROVE  FALSE
    BY DEF OneAtATime
  <2>1. CASE i \in Versions /\ versions'[i] = versions[i]
             /\ j \in Versions /\ versions'[j] = versions[j]
    BY <2>1 DEF FinalizerInv, OneAtATime
  <2>2. CASE i \in Versions /\ versions'[i] = versions[i] /\ versions'[j] = t
    BY <1>3, <1>8, <2>2 DEF Tenant
  <2>3. CASE j \in Versions /\ versions'[j] = versions[j] /\ versions'[i] = t
    <3>1. versions[j] \in Tenant /\ versions[j].uid <= t.uid
      BY <1>1, <1>7, <2>3, VersionType
    <3> QED
      BY <1>3, <2>3, <3>1 DEF Tenant
  <2>4. CASE versions'[i] = t /\ versions'[j] = t
    BY <1>3, <2>4 DEF Tenant
  <2> QED
    BY <1>9, <2>1, <2>2, <2>3, <2>4
<1>11. KeptBut(r)'
  <2> SUFFICES ASSUME NEW i \in Versions', Own(versions'[i])
               PROVE  \/ Stored'.uid = versions'[i].uid /\ Own(Stored')
                      \/ r.uid = versions'[i].uid /\ r.exists /\ r.deleting
    BY DEF KeptBut, Own
  <2> QED
    BY <1>8, <1>9
<1> QED
  BY <1>5, <1>7, <1>9, <1>10, <1>11 DEF VersionFacts

-----------------------------------------------------------------------------
(* The invariant, one lemma for each actor. *)

LEMMA InitInv == Init => FinalizerInv
<1> SUFFICES ASSUME Init PROVE FinalizerInv
  OBVIOUS
<1>1. Versions = {1} /\ versions[1] = Gone(0)
  BY DEF Init, Versions
<1>2. ~Own(Gone(0)) /\ ~Gone(0).exists
  BY DEF Gone, Own
<1>3. Older(Gone(0), Gone(0))
  BY DEF Older, Gone
<1> QED
  BY <1>1, <1>2, <1>3
     DEF Init, FinalizerInv, Shaped, Ordered, Kept, KeptBut, OneAtATime, PassOK,
         ReadOK, BeforeOK, FinalizerGuard, Building

\* The end of a pass: the worker will look at what the informer shows, which is
\* no older than what it had read.
LEMMA PassEnds ==
    ASSUME TypeOK, TypeOK', FinalizerInv, NEW r \in Tenant, r = read,
           pc # "idle", pc' = "idle", VersionFacts(r)', Shown' = Shown
    PROVE  FinalizerInv'
<1>1. r.exists /\ Older(r, Shown')
  BY DEF FinalizerInv, PassOK
<1>2. /\ Shown' \in Tenant /\ Shown' = versions'[1]
      /\ \A i \in Versions' : versions'[i] \in Tenant /\ 1 <= i /\ 1 \in Versions'
  BY VersionType DEF TypeOK, TenantTypeOK, Versions, Shown
<1>3. ASSUME NEW i \in Versions', Own(versions'[i])
      PROVE  \/ Stored'.uid = versions'[i].uid /\ Own(Stored')
             \/ Shown'.uid = versions'[i].uid /\ Shown'.exists /\ Shown'.deleting
  <2>1. Older(Shown', versions'[i]) /\ versions'[i].exists
    BY <1>2, <1>3 DEF VersionFacts, Ordered, Shaped, Own
  <2>2. \/ Stored'.uid = versions'[i].uid /\ Own(Stored')
        \/ r.uid = versions'[i].uid /\ r.exists /\ r.deleting
    BY <1>3 DEF VersionFacts, KeptBut, Own
  <2> QED
    BY <1>1, <1>2, <2>1, <2>2, DeletionStays
<1>4. Kept'
  BY <1>3 DEF Kept, KeptBut, Eye, Own
<1> QED
  BY <1>4 DEF VersionFacts, FinalizerInv, PassOK, ReadOK, BeforeOK, FinalizerGuard, Building

LEMMA ReconcileInv ==
    ASSUME TypeOK, FinalizerInv,
           \/ ReconcileNotFound \/ ReconcileAddFinalizer
           \/ ReconcileDelete \/ ReconcileNormal
    PROVE  FinalizerInv'
<1>1. pc = "idle" /\ UNCHANGED versions
  BY DEF ReconcileNotFound, ReconcileAddFinalizer, ReconcileDelete, ReconcileNormal,
         StartPass, Begin, tenantVars
<1>2. /\ Shown \in Tenant /\ Stored \in Tenant
      /\ Shown = versions[1] /\ 1 \in Versions
      /\ Stored = versions[Len(versions)] /\ Len(versions) \in Versions
  BY VersionType DEF TypeOK
<1>3. Shaped' /\ Ordered' /\ OneAtATime'
  BY <1>1 DEF FinalizerInv, Shaped, Ordered, OneAtATime, Versions
<1>4. CASE ReconcileNotFound
  BY <1>1, <1>3, <1>4
     DEF ReconcileNotFound, workerVars, FinalizerInv, Kept, KeptBut, Eye, Versions,
         Stored, Shown, PassOK, ReadOK, BeforeOK, FinalizerGuard, Building
<1>5. ASSUME StartPass, pc' \in {"get", "defer"},
             Own(tenant)' \/ (Own(Shown) /\ Shown.deleting)
      PROVE  Kept' /\ PassOK' /\ ReadOK' /\ BeforeOK'
  <2>1. read' = Shown /\ Shown' = Shown /\ Stored' = Stored /\ Shown.exists
    BY <1>1, <1>5 DEF StartPass, Shown, Stored
  <2>2. Kept'
    BY <1>1, <1>5, <2>1 DEF FinalizerInv, Kept, KeptBut, Eye, Versions
  <2>3. PassOK'
    BY <1>2, <1>5, <2>1, OlderReflexive DEF PassOK, Own
  <2>4. ReadOK'
    BY <1>1, <1>2, <2>1 DEF FinalizerInv, OneAtATime, ReadOK, Own, Versions
  <2>5. BeforeOK'
    BY <1>5 DEF BeforeOK
  <2> QED
    BY <2>2, <2>3, <2>4, <2>5
<1>6. CASE ReconcileAddFinalizer
  <2> DEFINE t == [Shown EXCEPT !.finalizers = @ \cup {TenantFinalizer}]
  <2>1. Own(t)
    BY <1>2 DEF Own, Tenant
  <2>2. StartPass /\ pc' = "defer" /\ tenant' = t
    BY <1>6 DEF ReconcileAddFinalizer, Leave, Goto
  <2> HIDE DEF t
  <2>3. FinalizerGuard'
    BY <2>2 DEF FinalizerGuard, Building
  <2> QED
    BY <1>3, <1>5, <2>1, <2>2, <2>3 DEF FinalizerInv, Own
<1>7. CASE ReconcileDelete
  <2>1. StartPass /\ pc' = "defer" /\ Own(Shown) /\ Shown.deleting
    BY <1>7 DEF ReconcileDelete, Leave, Goto, Own
  <2>2. FinalizerGuard'
    BY <2>1 DEF FinalizerGuard, Building
  <2> QED
    BY <1>3, <1>5, <2>1, <2>2 DEF FinalizerInv
<1>8. CASE ReconcileNormal
  <2>1. StartPass /\ pc' = "get" /\ tenant' = Shown /\ Own(Shown) /\ ~Shown.deleting
    BY <1>8 DEF ReconcileNormal, Goto, Own
  <2>2. Stored.uid = Shown.uid /\ Own(Stored)
    BY <1>1, <1>2, <2>1 DEF FinalizerInv, Kept, KeptBut, Eye
  <2>3. Stored.exists
    BY <1>2, <2>2 DEF FinalizerInv, Shaped
  <2>4. FinalizerGuard'
    BY <1>1, <2>1, <2>2, <2>3 DEF FinalizerGuard, Stored, Own
  <2>5. Own(tenant)'
    BY <2>1 DEF Own
  <2> QED
    BY <1>3, <1>5, <2>1, <2>4, <2>5 DEF FinalizerInv
<1> QED
  BY <1>4, <1>6, <1>7, <1>8

LEMMA MarkKeeps ==
    ASSUME NEW t \in Tenant, NEW type \in ConditionTypes,
           NEW status \in {"True", "False"}, NEW now \in Times
    PROVE  /\ Mark(t, type, status, now).uid = t.uid
           /\ Mark(t, type, status, now).finalizers = t.finalizers
           /\ Mark(t, type, status, now).deleting = t.deleting
           /\ Mark(t, type, status, now).phase = t.phase
BY DEF Mark, Tenant

\* reconcileNormal reads and creates; it touches nothing of the tenant but its
\* conditions, nor what the pass has read.
LEMMA BuildKeeps ==
    ASSUME TypeOK, Build
    PROVE  /\ Building
           /\ UNCHANGED <<versions, read, before>>
           /\ pc' \in {"get", "sign", "create", "check", "defer"}
           /\ tenant'.uid = tenant.uid /\ tenant'.finalizers = tenant.finalizers
           /\ tenant'.deleting = tenant.deleting /\ tenant'.phase = tenant.phase
<1>1. tenant \in Tenant /\ {"Provisioned", "Ready"} = ConditionTypes
  BY DEF TypeOK, WorkerTypeOK, ConditionTypes
<1>2. Building /\ UNCHANGED <<versions, read, before>>
  BY DEF Build, GetFound, GetNotFound, GetFails, ParseCASecret, ParseCASecretFails,
         Create, CreateFails, CheckDeploy, CheckDeployFails, Building, tenantVars
<1> DEFINE Goal == /\ pc' \in {"get", "sign", "create", "check", "defer"}
                   /\ tenant'.uid = tenant.uid
                   /\ tenant'.finalizers = tenant.finalizers
                   /\ tenant'.deleting = tenant.deleting
                   /\ tenant'.phase = tenant.phase
<1>3. ASSUME Ensured PROVE Goal
  BY <1>1, <1>3, MarkKeeps DEF Ensured, Proceed, Goto
<1>4. ASSUME FailStep PROVE Goal
  BY <1>1, <1>4, MarkKeeps DEF FailStep, Leave, Goto
<1>5. ASSUME CheckDeploy PROVE Goal
  BY <1>1, <1>5, MarkKeeps DEF CheckDeploy, Proceed, Leave, Goto
<1>6. ASSUME GetNotFound \/ ParseCASecret \/ CheckDeployFails PROVE Goal
  BY <1>6 DEF GetNotFound, ParseCASecret, CheckDeployFails, Proceed, Leave, Goto
<1> HIDE DEF Goal
<1>7. Goal
  BY <1>3, <1>4, <1>5, <1>6
     DEF Build, GetFound, GetFails, ParseCASecretFails, Create, CreateFails
<1> QED
  BY <1>2, <1>7 DEF Goal

LEMMA BuildInv ==
    ASSUME TypeOK, FinalizerInv, Build
    PROVE  FinalizerInv'
<1>1. /\ Building /\ pc' \in {"get", "sign", "create", "check", "defer"}
      /\ UNCHANGED <<versions, read, before>>
      /\ tenant'.uid = tenant.uid /\ tenant'.finalizers = tenant.finalizers
  BY BuildKeeps
<1>2. pc \notin {"idle", "status"}
  BY <1>1 DEF Building
<1>3. Shaped' /\ Ordered' /\ OneAtATime' /\ Kept'
  BY <1>1, <1>2 DEF FinalizerInv, Shaped, Ordered, OneAtATime, Kept, KeptBut, Eye,
                    Versions, Stored
<1>4. PassOK' /\ ReadOK' /\ BeforeOK'
  BY <1>1, <1>2 DEF FinalizerInv, PassOK, ReadOK, BeforeOK, Own, Versions, Shown
<1>5. FinalizerGuard'
  BY <1>1 DEF FinalizerInv, FinalizerGuard, Stored
<1> QED
  BY <1>3, <1>4, <1>5 DEF FinalizerInv

LEMMA PatchInv ==
    ASSUME Undisturbed, TypeOK, TypeOK', FinalizerInv, Patch
    PROVE  FinalizerInv'
<1>1. /\ TenantTypeOK /\ read \in Tenant /\ before \in Tenant /\ tenant \in Tenant
      /\ Shown \in Tenant /\ Stored \in Tenant
  BY VersionType DEF TypeOK, WorkerTypeOK
<1>2. pc \in {"defer", "patch", "status"}
  BY DEF Patch, Deferred, DeferredNotFound, PatchMetadata, PatchMetadataFails,
         PatchStatus, PatchStatusFails
<1>3. PICK r \in Tenant : r = read
  BY <1>1
<1>4. VersionFacts(r)
  BY <1>2, <1>3 DEF VersionFacts, FinalizerInv, Kept, Eye
<1>5. ASSUME UNCHANGED versions, NEW failed, Return(failed) PROVE FinalizerInv'
  <2>1. VersionFacts(r)'
    BY <1>4, <1>5 DEF VersionFacts, Shaped, Ordered, OneAtATime, KeptBut, Versions, Stored
  <2>2. Shown' = Shown /\ pc # "idle" /\ pc' = "idle"
    BY <1>2, <1>5 DEF Shown, Return, IdleWorker
  <2> QED
    BY <1>3, <2>1, <2>2, PassEnds
<1>6. CASE Deferred
  <2> DEFINE mem == ReconcilePhase(tenant)
             differ == MetadataDiffers(Shown, mem) \/ StatusDiffers(Shown, mem)
  <2>1. CASE differ
    <3>1. /\ pc = "defer"
          /\ pc' = IF MetadataDiffers(Shown, mem) THEN "patch" ELSE "status"
          /\ tenant' = mem /\ before' = Shown
          /\ UNCHANGED <<versions, read>>
      BY <1>6, <2>1 DEF Deferred, Goto
    <3>2. mem.finalizers = tenant.finalizers
      BY <1>1 DEF ReconcilePhase, Tenant
    <3> HIDE DEF mem
    <3>3. Shown' = Shown /\ Stored' = Stored
      BY <3>1 DEF Shown, Stored
    <3>4. Shaped' /\ Ordered' /\ OneAtATime' /\ Kept'
      BY <3>1, <3>3 DEF FinalizerInv, Shaped, Ordered, OneAtATime, Kept, KeptBut, Eye,
                        Versions
    <3>5. PassOK' /\ ReadOK'
      BY <3>1, <3>2, <3>3 DEF FinalizerInv, PassOK, ReadOK, Own, Versions
    <3>6. BeforeOK'
      BY <1>1, <3>1, <3>3, OlderReflexive DEF FinalizerInv, PassOK, BeforeOK
    <3>7. FinalizerGuard'
      BY <3>1 DEF FinalizerGuard, Building
    <3> QED
      BY <3>4, <3>5, <3>6, <3>7 DEF FinalizerInv
  <2>2. CASE ~differ
    BY <1>5, <1>6, <2>2 DEF Deferred
  <2> QED
    BY <2>1, <2>2
<1>7. CASE DeferredNotFound
  BY <1>5, <1>7 DEF DeferredNotFound
<1>8. CASE PatchMetadata
  <2>1. VersionFacts(r)' /\ Shown' = Shown
    BY <1>3, <1>8, PatchMetadataFacts
  <2>2. pc = "patch"
    BY <1>8 DEF PatchMetadata
  <2>3. ASSUME Goto("status", 1), UNCHANGED <<read, tenant, before>> PROVE FinalizerInv'
    <3>1. Shaped' /\ Ordered' /\ OneAtATime' /\ Kept'
      BY <1>3, <2>1, <2>3 DEF VersionFacts, Kept, KeptBut, Eye, Goto
    <3>2. PassOK' /\ ReadOK' /\ BeforeOK'
      BY <2>1, <2>2, <2>3 DEF Goto, FinalizerInv, PassOK, ReadOK, BeforeOK, Own
    <3>3. FinalizerGuard'
      BY <2>3 DEF Goto, FinalizerGuard, Building
    <3> QED
      BY <3>1, <3>2, <3>3 DEF FinalizerInv
  <2>4. ASSUME NEW failed, Return(failed) PROVE FinalizerInv'
    <3>1. pc # "idle" /\ pc' = "idle"
      BY <2>2, <2>4 DEF Return, IdleWorker
    <3> QED
      BY <1>3, <2>1, <3>1, PassEnds
  <2> QED
    BY <1>8, <2>3, <2>4 DEF PatchMetadata
<1>9. CASE PatchMetadataFails
  BY <1>5, <1>9 DEF PatchMetadataFails
<1>10. CASE PatchStatus
  <2> DEFINE t == StatusPatched(Stored, before, tenant)
  <2>1. t \in Tenant
    BY <1>1, StatusPatchedType
  <2>2. /\ t.uid = Stored.uid /\ t.exists = Stored.exists
        /\ t.deleting = Stored.deleting /\ t.finalizers = Stored.finalizers
    BY <1>1 DEF StatusPatched, Tenant
  <2>3. Store(t) /\ pc = "status" /\ pc' = "idle"
    BY <1>10 DEF PatchStatus, Return, IdleWorker
  <2> HIDE DEF t
  <2>4. Stored.exists => Stored.uid > 0
    BY <1>1, VersionType DEF FinalizerInv, Shaped
  <2>5. Own(Stored) => Stored.exists
    BY <1>1, VersionType DEF FinalizerInv, Shaped
  <2>6. Harmless(t)
    BY <1>1, <2>2, <2>4, <2>5 DEF Harmless, Older, Own, Tenant
  <2>7. VersionFacts(r)'
    BY <1>1, <1>4, <2>1, <2>3, <2>6, HarmlessStore
  <2>8. Shown' = Shown
    BY <1>1, <2>1, <2>3, StoreEffect
  <2> QED
    BY <1>3, <2>3, <2>7, <2>8, PassEnds
<1>11. CASE PatchStatusFails
  BY <1>5, <1>11 DEF PatchStatusFails
<1> QED
  BY <1>6, <1>7, <1>8, <1>9, <1>10, <1>11 DEF Patch

LEMMA ManagerInv ==
    ASSUME TypeOK, FinalizerInv, Manager
    PROVE  FinalizerInv'
<1>1. /\ TenantTypeOK /\ Shown \in Tenant /\ Stored \in Tenant
      /\ read \in Tenant /\ before \in Tenant
      /\ Stored = versions[Len(versions)] /\ Len(versions) \in Versions
      /\ Shown = versions[1] /\ 1 \in Versions
      /\ \A i \in Versions : versions[i] \in Tenant
  BY VersionType DEF TypeOK, WorkerTypeOK
<1>2. CASE FireTimer \/ Resync
  BY <1>2
     DEF FireTimer, Resync, tenantVars, workerVars, FinalizerInv, Shaped, Ordered,
         OneAtATime, Kept, KeptBut, Eye, Versions, Stored, Shown, PassOK, ReadOK, BeforeOK,
         FinalizerGuard, Building
<1>3. CASE Deliver
  <2>1. /\ UNCHANGED <<pc, read, tenant, before>>
        /\ Len(versions) > 1 /\ versions' = Tail(versions)
    BY <1>3 DEF Deliver, workerVars
  <2>2. /\ Stored' = Stored /\ Shown' = versions[2] /\ 2 \in Versions
        /\ \A i \in Versions' : i + 1 \in Versions /\ versions'[i] = versions[i + 1]
    BY <1>1, <2>1 DEF TenantTypeOK, Versions, Stored, Shown
  <2>3. Older(Shown, Shown') /\ Shown' \in Tenant
    BY <1>1, <2>2 DEF FinalizerInv, Ordered
  <2>4. Shaped' /\ OneAtATime'
    BY <2>2 DEF FinalizerInv, Shaped, OneAtATime, Own
  <2>5. Ordered'
    BY <2>2 DEF FinalizerInv, Ordered, Versions
  <2>6. Kept'
    <3> SUFFICES ASSUME NEW i \in Versions', Own(versions'[i])
                 PROVE  \/ Stored.uid = versions'[i].uid /\ Own(Stored)
                        \/ Eye'.uid = versions'[i].uid /\ Eye'.exists /\ Eye'.deleting
      BY <2>2 DEF Kept, KeptBut, Own
    <3>1. \/ Stored.uid = versions'[i].uid /\ Own(Stored)
          \/ Eye.uid = versions'[i].uid /\ Eye.exists /\ Eye.deleting
      BY <2>2 DEF FinalizerInv, Kept, KeptBut
    <3>2. CASE pc = "idle"
      <4>1. Older(Shown', versions'[i]) /\ versions'[i].exists /\ versions'[i] \in Tenant
        BY <1>1, <2>2 DEF FinalizerInv, Ordered, Shaped, Versions
      <4> QED
        BY <1>1, <2>1, <2>3, <3>1, <3>2, <4>1, DeletionStays DEF Eye
    <3>3. CASE pc # "idle"
      BY <2>1, <3>1, <3>3 DEF Eye
    <3> QED
      BY <3>2, <3>3
  <2>7. PassOK'
    BY <1>1, <2>1, <2>3, OlderTransitive DEF FinalizerInv, PassOK, Own
  <2>8. ReadOK'
    BY <2>1, <2>2 DEF FinalizerInv, ReadOK, Own
  <2>9. BeforeOK'
    BY <1>1, <2>1, <2>3, OlderTransitive DEF FinalizerInv, BeforeOK
  <2>10. FinalizerGuard'
    BY <2>1, <2>2 DEF FinalizerInv, FinalizerGuard, Building
  <2> QED
    BY <2>4, <2>5, <2>6, <2>7, <2>8, <2>9, <2>10 DEF FinalizerInv
<1>4. CASE Crash
  <2>1. pc' = "idle"
    BY <1>4 DEF Crash, IdleWorker
  <2>2. PICK first \in Versions : versions' = SubSeq(versions, first, Len(versions))
    BY <1>4 DEF Crash, Versions
  <2>3. /\ Stored' = Stored /\ Shown' = versions[first]
        /\ \A i \in Versions' : /\ i + first - 1 \in Versions /\ first <= i + first - 1
                                /\ versions'[i] = versions[i + first - 1]
    <3>1. first \in 1..Len(versions) /\ Len(versions) \in Nat
      BY <1>1, <2>2 DEF TenantTypeOK, Versions
    <3>2. /\ Len(versions') = Len(versions) - first + 1
          /\ \A i \in 1..(Len(versions) - first + 1) : versions'[i] = versions[i + first - 1]
      BY <1>1, <2>2, <3>1 DEF TenantTypeOK
    <3> QED
      BY <3>1, <3>2 DEF Versions, Stored, Shown
  <2>4. Shaped' /\ OneAtATime'
    BY <2>3 DEF FinalizerInv, Shaped, OneAtATime, Own
  <2>5. Ordered'
    <3> SUFFICES ASSUME NEW i \in Versions', NEW j \in Versions', i <= j
                 PROVE  Older(versions'[i], versions'[j])
      BY DEF Ordered
    <3>1. i + first - 1 <= j + first - 1
      BY <2>2 DEF Versions
    <3> QED
      BY <2>3, <3>1 DEF FinalizerInv, Ordered
  <2>6. Kept'
    <3> SUFFICES ASSUME NEW i \in Versions', Own(versions'[i])
                 PROVE  \/ Stored.uid = versions'[i].uid /\ Own(Stored)
                        \/ /\ Shown'.uid = versions'[i].uid
                           /\ Shown'.exists /\ Shown'.deleting
      BY <2>1, <2>3 DEF Kept, KeptBut, Own, Eye
    <3>1. \/ Stored.uid = versions'[i].uid /\ Own(Stored)
          \/ Eye.uid = versions'[i].uid /\ Eye.exists /\ Eye.deleting
      BY <2>3 DEF FinalizerInv, Kept, KeptBut
    <3>2. /\ versions'[i].exists /\ versions'[i] \in Tenant /\ Shown' \in Tenant
          /\ Older(Shown', versions'[i])
      BY <1>1, <2>2, <2>3 DEF FinalizerInv, Ordered, Shaped, Own
    <3>3. Older(Shown, Shown')
      BY <1>1, <2>2, <2>3 DEF FinalizerInv, Ordered, Versions
    <3>4. Older(Eye, Shown') /\ Eye \in Tenant
      BY <1>1, <3>2, <3>3, OlderTransitive DEF Eye, FinalizerInv, PassOK
    <3>5. CASE Eye.uid = versions'[i].uid /\ Eye.exists /\ Eye.deleting
      <4>1. /\ Shown'.uid = versions'[i].uid
            /\ Shown'.exists /\ Shown'.deleting
        BY <3>2, <3>4, <3>5, DeletionStays
      <4> QED
        BY <4>1
    <3> QED
      BY <3>1, <3>5
  <2> QED
    BY <2>1, <2>4, <2>5, <2>6
       DEF FinalizerInv, PassOK, ReadOK, BeforeOK, FinalizerGuard, Building
<1> QED
  BY <1>2, <1>3, <1>4 DEF Manager

\* A write by somebody else, which the worker may not have seen yet.
LEMMA OthersInv ==
    ASSUME TypeOK, FinalizerInv, NEW t \in Tenant, StoreByOthers(t), Harmless(t),
           UNCHANGED workerVars
    PROVE  FinalizerInv'
<1>1. /\ TenantTypeOK /\ Store(t) /\ read \in Tenant
      /\ Shown \in Tenant /\ Stored \in Tenant
      /\ UNCHANGED <<pc, read, tenant, before>>
  BY VersionType DEF TypeOK, WorkerTypeOK, StoreByOthers, workerVars
<1>2. Stored' = t /\ Shown' = Shown
  BY <1>1, StoreEffect
<1>3. PICK eye \in Tenant : eye = Eye
  BY <1>1 DEF Eye
<1>4. VersionFacts(eye)'
  BY <1>1, <1>3, HarmlessStore DEF FinalizerInv, VersionFacts, Kept
<1>5. Eye' = eye
  BY <1>1, <1>2, <1>3 DEF Eye
<1>6. Kept'
  BY <1>4, <1>5 DEF VersionFacts, Kept, KeptBut
<1>7. PassOK' /\ BeforeOK'
  BY <1>1, <1>2 DEF FinalizerInv, PassOK, BeforeOK, Own
<1>8. ReadOK'
  <2>1. PICK r \in Tenant : r = read
    BY <1>1
  <2>2. pc \notin {"idle", "status"} => Latest(r)'
    BY <1>1, <2>1, HarmlessLatest DEF FinalizerInv, ReadOK, Latest
  <2> QED
    BY <1>1, <2>1, <2>2 DEF ReadOK, Latest, Own
<1>9. FinalizerGuard'
  BY <1>1, <1>2 DEF FinalizerInv, FinalizerGuard, Building, Harmless, Own
<1> QED
  BY <1>4, <1>6, <1>7, <1>8, <1>9 DEF VersionFacts, FinalizerInv

\* What users and other controllers write is harmless.
LEMMA ClientsHarmless ==
    ASSUME TypeOK, FinalizerInv, Clients
    PROVE  \E t \in Tenant : StoreByOthers(t) /\ Harmless(t)
<1>1. /\ Stored \in Tenant
      /\ Own(Stored) => Stored.exists
      /\ Stored.exists => Stored.uid > 0
  BY VersionType DEF TypeOK, FinalizerInv, Shaped
<1> DEFINE Goal == \E t \in Tenant : StoreByOthers(t) /\ Harmless(t)
<1>2. CASE CreateTenant
  <2> DEFINE t == Created(Stored.uid + 1)
  <2>1. Stored.uid + 1 \in 0..MaxUid /\ ~Stored.exists
    BY <1>1, <1>2, MaxUidAssumption DEF CreateTenant, Tenant
  <2>2. t \in Tenant
    BY <2>1, CreatedType
  <2>3. t.uid = Stored.uid + 1 /\ t.finalizers = {}
    BY DEF Created, Gone
  <2>4. StoreByOthers(t)
    BY <1>2 DEF CreateTenant
  <2> HIDE DEF t
  <2>5. Harmless(t)
    BY <1>1, <2>1, <2>3 DEF Harmless, Older, Own, Tenant
  <2> QED
    BY <2>2, <2>4, <2>5
<1>3. CASE DeleteTenant
  <2> DEFINE t == IF Stored.finalizers = {}
                  THEN Gone(Stored.uid)
                  ELSE [Stored EXCEPT !.deleting = TRUE]
  <2>1. Gone(Stored.uid) \in Tenant /\ [Stored EXCEPT !.deleting = TRUE] \in Tenant
    BY <1>1, GoneType DEF Tenant
  <2>2. /\ t.uid = Stored.uid /\ t.finalizers = Stored.finalizers
        /\ t.exists => t.deleting
        /\ Own(Stored) => t.exists
    BY <1>1 DEF Gone, Own, Tenant
  <2>3. StoreByOthers(t) /\ t \in Tenant /\ Stored.exists /\ ~Stored.deleting
    BY <1>3, <2>1 DEF DeleteTenant
  <2> HIDE DEF t
  <2>4. Harmless(t)
    BY <1>1, <2>2, <2>3 DEF Harmless, Older, Own, Tenant
  <2> QED
    BY <2>3, <2>4
<1>4. ASSUME NEW f \in OtherFinalizers, AddOtherFinalizer(f) PROVE Goal
  <2> DEFINE t == [Stored EXCEPT !.finalizers = @ \cup {f}]
  <2>1. f # TenantFinalizer
    BY FinalizerAssumption
  <2>2. t \in Tenant
    BY <1>1 DEF Tenant, Finalizers
  <2>3. /\ t.uid = Stored.uid /\ t.exists = Stored.exists
        /\ Own(t) = Own(Stored)
    BY <1>1, <2>1 DEF Own, Tenant
  <2>4. StoreByOthers(t) /\ Stored.exists /\ ~Stored.deleting
    BY <1>4 DEF AddOtherFinalizer
  <2> HIDE DEF t
  <2>5. Harmless(t)
    BY <1>1, <2>3, <2>4 DEF Harmless, Older, Tenant
  <2> QED
    BY <2>2, <2>4, <2>5
<1>5. ASSUME NEW f \in OtherFinalizers, DropOtherFinalizer(f) PROVE Goal
  <2> DEFINE fs == Stored.finalizers \ {f}
             t == WithFinalizers(Stored, fs)
  <2>1. f # TenantFinalizer
    BY FinalizerAssumption
  <2>2. t \in Tenant
    BY <1>1, WithFinalizersType DEF Tenant
  <2>3. /\ t.uid = Stored.uid
        /\ t.exists => t.deleting /\ t.finalizers \subseteq Stored.finalizers
        /\ Own(t) = Own(Stored)
        /\ Own(Stored) => t.exists
    <3>1. Stored.deleting /\ (TenantFinalizer \in fs <=> Own(Stored))
      BY <1>5, <2>1 DEF DropOtherFinalizer, Own
    <3>2. CASE fs = {}
      <4>1. t = Gone(Stored.uid) /\ ~Own(Stored)
        BY <3>1, <3>2 DEF WithFinalizers
      <4> HIDE DEF t
      <4> QED
        <5>1. t.uid = Stored.uid /\ ~t.exists /\ t.finalizers = {}
          BY <4>1 DEF Gone
        <5> QED
          BY <4>1, <5>1 DEF Own
    <3>3. CASE fs # {}
      <4>1. t = [Stored EXCEPT !.finalizers = fs]
        BY <3>3 DEF WithFinalizers
      <4> HIDE DEF t
      <4> QED
        BY <1>1, <3>1, <4>1 DEF Own, Tenant
    <3> QED
      BY <3>2, <3>3
  <2>4. StoreByOthers(t) /\ Stored.exists
    BY <1>5 DEF DropOtherFinalizer
  <2> HIDE DEF t, fs
  <2>5. Harmless(t)
    BY <1>1, <2>3, <2>4 DEF Harmless, Older, Tenant
  <2> QED
    BY <2>2, <2>4, <2>5
<1> QED
  BY <1>2, <1>3, <1>4, <1>5 DEF Clients, OtherFinalizersDone

LEMMA ClientsInv ==
    ASSUME TypeOK, FinalizerInv, Clients
    PROVE  FinalizerInv'
<1>1. UNCHANGED workerVars
  BY DEF Clients, CreateTenant, DeleteTenant, AddOtherFinalizer, OtherFinalizersDone,
         DropOtherFinalizer
<1> QED
  BY <1>1, ClientsHarmless, OthersInv

\* The host cluster, and steps that change nothing.
LEMMA ElsewhereInv ==
    ASSUME FinalizerInv, UNCHANGED <<tenantVars, workerVars>>
    PROVE  FinalizerInv'
BY DEF tenantVars, workerVars, FinalizerInv, Shaped, Ordered, OneAtATime, Kept, KeptBut,
       Eye, Versions, Stored, Shown, PassOK, ReadOK, BeforeOK, FinalizerGuard, Building

LEMMA FinalizerStep ==
    ASSUME Undisturbed, TypeOK, TypeOK', FinalizerInv, [Next]_vars
    PROVE  FinalizerInv'
<1>1. CASE ReconcileNotFound \/ ReconcileAddFinalizer \/ ReconcileDelete \/ ReconcileNormal
  BY <1>1, ReconcileInv
<1>2. CASE Build
  BY <1>2, BuildInv
<1>3. CASE Patch
  BY <1>3, PatchInv
<1>4. CASE Manager
  BY <1>4, ManagerInv
<1>5. CASE Clients
  BY <1>5, ClientsInv
<1>6. CASE Host
  BY <1>6, ElsewhereInv DEF Host, HostStep, PodFailure, PodRecovery
<1>7. CASE UNCHANGED vars
  BY <1>7, ElsewhereInv DEF vars
<1> QED
  BY <1>1, <1>2, <1>3, <1>4, <1>5, <1>6, <1>7
     DEF Next, Worker, Build, Patch, Manager, Clients, Host

-----------------------------------------------------------------------------
\* FinalizerInv is inductive: every writer of the tenant (Reconcile with its
\* deferred patches, users, other controllers) and every restart keeps it.
THEOREM FinalizerInvariantHolds ==
    ASSUME Undisturbed
    PROVE  Spec => []FinalizerInv
<1>1. TypeOK /\ TypeOK' /\ FinalizerInv /\ [Next]_vars => FinalizerInv'
  BY FinalizerStep
<1> QED
  BY InitInv, TypeCorrect, <1>1, PTL DEF Spec

\* However stale the read that a pass of Reconcile starts from, whatever is lost
\* and whenever the manager restarts: while reconcileNormal creates objects for
\* an incarnation of the tenant, that incarnation is stored with the
\* controller's finalizer.
THEOREM FinalizerGuarded ==
    ASSUME Undisturbed
    PROVE  Spec => []FinalizerGuard
<1>1. FinalizerInv => FinalizerGuard
  BY DEF FinalizerInv
<1> QED
  BY FinalizerInvariantHolds, <1>1, PTL

-----------------------------------------------------------------------------
(* The tenant is announced as terminating before its finalizer goes. *)

OneIncarnation == MaxUid <= 1

Announced(t) == t.phase = "Terminating"

\* What some version announces is being deleted, the worker has seen that it is,
\* and no later version says otherwise.
VersionsAnnounced(eye) ==
    \A i \in Versions : Announced(versions[i]) =>
        /\ versions[i].exists /\ versions[i].deleting
        /\ eye.exists /\ eye.deleting
        /\ \A j \in Versions : i <= j /\ versions[j].exists => Announced(versions[j])

Everywhere == \A i \in Versions : versions[i].exists => Announced(versions[i])

\* The worker's pass announces what is being deleted, and takes the finalizer away
\* only when it has read the announcement.
PassAnnounced ==
    pc # "idle" =>
        /\ read.uid > 0
        /\ tenant.deleting = read.deleting
        /\ Announced(read) => read.deleting /\ Everywhere
        /\ Own(tenant) \/ Announced(read)
        /\ Announced(tenant) => tenant.deleting
        /\ pc \in {"patch", "status"} /\ tenant.deleting => Announced(tenant)

AnnouncedInv == VersionsAnnounced(Eye) /\ PassAnnounced

\* A write that announces only what is being deleted, and takes back nothing.
LEMMA AnnouncedStore ==
    ASSUME TenantTypeOK, NEW eye \in Tenant, VersionsAnnounced(eye),
           NEW t \in Tenant, Store(t),
           Announced(t) => t.exists /\ t.deleting /\ eye.exists /\ eye.deleting,
           t.exists /\ (\E i \in Versions : Announced(versions[i])) => Announced(t)
    PROVE  VersionsAnnounced(eye)'
<1> SUFFICES ASSUME NEW i \in Versions', Announced(versions'[i])
             PROVE  /\ versions'[i].exists /\ versions'[i].deleting
                    /\ eye.exists /\ eye.deleting
                    /\ \A j \in Versions' : i <= j /\ versions'[j].exists => Announced(versions'[j])
  BY DEF VersionsAnnounced, Announced
<1>1. /\ \A j \in Versions : versions'[j] = versions[j]
      /\ \A j \in Versions' : j \notin Versions =>
            versions'[j] = t /\ j = Len(versions') /\ \A k \in Versions : k < j
      /\ Versions \subseteq Nat /\ Versions' \subseteq Nat
  BY StoreEffect DEF Versions
<1>2. CASE i \in Versions
  <2>1. ASSUME NEW j \in Versions', i <= j, versions'[j].exists
        PROVE  Announced(versions'[j])
    <3>1. CASE j \in Versions
      BY <1>1, <1>2, <2>1, <3>1 DEF VersionsAnnounced
    <3>2. CASE j \notin Versions
      BY <1>1, <1>2, <2>1, <3>2
    <3> QED
      BY <3>1, <3>2
  <2> QED
    BY <1>1, <1>2, <2>1 DEF VersionsAnnounced
<1>3. CASE i \notin Versions
  <2>1. versions'[i] = t /\ \A k \in Versions : k < i
    BY <1>1, <1>3
  <2>2. \A j \in Versions' : i <= j => versions'[j] = t
    BY <1>1, <1>3, <2>1
  <2> QED
    BY <2>1, <2>2
<1> QED
  BY <1>2, <1>3

\* The same write, and what has been announced everywhere.
LEMMA EverywhereStore ==
    ASSUME TenantTypeOK, NEW t \in Tenant, Store(t), Everywhere, t.exists => Announced(t)
    PROVE  Everywhere'
<1>1. \A i \in Versions' : versions'[i] = t \/ (i \in Versions /\ versions'[i] = versions[i])
  BY StoreEffect
<1> QED
  BY <1>1 DEF Everywhere, Announced

\* With one incarnation, what a worker that had seen the deletion will read next
\* shows it as well.
LEMMA EyeMoves ==
    ASSUME OneIncarnation, TenantTypeOK', Shaped', Ordered',
           NEW eye \in Tenant, eye.exists => eye.uid > 0, Older(eye, Shown'),
           VersionsAnnounced(eye)'
    PROVE  VersionsAnnounced(Shown)'
<1> SUFFICES ASSUME NEW i \in Versions', Announced(versions'[i])
             PROVE  Shown'.exists /\ Shown'.deleting
  BY DEF VersionsAnnounced, Announced
<1>1. /\ versions'[i] \in Tenant /\ Shown' \in Tenant /\ Shown' = versions'[1]
      /\ 1 \in Versions' /\ 1 <= i
  BY DEF TenantTypeOK, Versions, Shown
<1>2. eye.exists /\ eye.deleting /\ versions'[i].exists
  BY DEF VersionsAnnounced, Announced
<1>3. Older(Shown', versions'[i]) /\ versions'[i].uid > 0
  BY <1>1, <1>2 DEF Ordered, Shaped
<1>4. eye.uid = versions'[i].uid
  BY <1>1, <1>2, <1>3, MaxUidAssumption DEF OneIncarnation, Tenant
<1> QED
  BY <1>1, <1>2, <1>3, <1>4, DeletionStays

\* The end of a pass, and a restart.
LEMMA PassAnnouncedEnds ==
    ASSUME OneIncarnation, TenantTypeOK', FinalizerInv', pc' = "idle",
           NEW eye \in Tenant, eye.exists => eye.uid > 0, Older(eye, Shown'),
           VersionsAnnounced(eye)'
    PROVE  AnnouncedInv'
<1>1. VersionsAnnounced(Shown)'
  BY EyeMoves DEF FinalizerInv
<1>2. Eye' = Shown'
  BY DEF Eye
<1>3. VersionsAnnounced(Eye)'
  BY <1>1, <1>2 DEF VersionsAnnounced
<1> QED
  BY <1>3 DEF AnnouncedInv, PassAnnounced

LEMMA AnnouncedInit == Init => AnnouncedInv
<1> SUFFICES ASSUME Init
             PROVE  AnnouncedInv
  OBVIOUS
<1>1. Versions = {1} /\ versions[1] = Gone(0) /\ pc = "idle"
  BY DEF Init, Versions
<1>2. Gone(0).phase = ""
  BY DEF Gone
<1>3. \A i \in Versions : ~Announced(versions[i])
  BY <1>1, <1>2 DEF Announced
<1> QED
  BY <1>1, <1>3 DEF AnnouncedInv, VersionsAnnounced, PassAnnounced

\* The branches of Reconcile on the first read.
LEMMA ReconcileAnnounced ==
    ASSUME TypeOK, FinalizerInv, AnnouncedInv,
           \/ ReconcileNotFound \/ ReconcileAddFinalizer
           \/ ReconcileDelete \/ ReconcileNormal
    PROVE  AnnouncedInv'
<1>1. /\ Shown \in Tenant /\ Shown = versions[1] /\ 1 \in Versions
      /\ \A i \in Versions : 1 <= i
  BY VersionType DEF TypeOK, Versions
<1>2. pc = "idle" /\ UNCHANGED versions
  BY DEF ReconcileNotFound, ReconcileAddFinalizer, ReconcileDelete, ReconcileNormal,
         StartPass, Begin, tenantVars
<1>3. CASE ReconcileNotFound
  BY <1>2, <1>3 DEF ReconcileNotFound, workerVars, AnnouncedInv, VersionsAnnounced,
                    PassAnnounced, Versions, Eye, Shown
<1>4. CASE ReconcileAddFinalizer \/ ReconcileDelete \/ ReconcileNormal
  <2>1. /\ Shown.exists /\ read' = Shown /\ pc' \in {"defer", "get"}
        /\ tenant'.deleting = Shown.deleting /\ tenant'.phase = Shown.phase
        /\ Own(tenant)' \/ Announced(Shown)
    BY <1>1, <1>4
       DEF ReconcileAddFinalizer, ReconcileDelete, ReconcileNormal, StartPass, Leave, Goto,
           Tenant, Own, Announced
  <2>2. Eye = Shown /\ Eye' = Shown
    BY <1>2, <2>1 DEF Eye
  <2>3. VersionsAnnounced(Eye)'
    BY <1>2, <2>2 DEF AnnouncedInv, VersionsAnnounced, Versions
  <2>4. Shown.uid > 0
    BY <1>1, <2>1 DEF FinalizerInv, Shaped
  <2>5. Announced(Shown) => Shown.deleting /\ Everywhere
    BY <1>1 DEF AnnouncedInv, VersionsAnnounced, Everywhere
  <2>6. Everywhere' <=> Everywhere
    BY <1>2 DEF Everywhere, Versions
  <2> QED
    BY <2>1, <2>3, <2>4, <2>5, <2>6 DEF AnnouncedInv, PassAnnounced, Announced
<1> QED
  BY <1>3, <1>4

\* reconcileNormal.
LEMMA BuildAnnounced ==
    ASSUME TypeOK, AnnouncedInv, Build
    PROVE  AnnouncedInv'
<1>1. /\ Building /\ UNCHANGED <<versions, read>>
      /\ pc' \in {"get", "sign", "create", "check", "defer"}
      /\ tenant'.finalizers = tenant.finalizers
      /\ tenant'.deleting = tenant.deleting /\ tenant'.phase = tenant.phase
  BY BuildKeeps
<1>2. pc # "idle" /\ Eye' = Eye
  BY <1>1 DEF Building, Eye
<1>3. VersionsAnnounced(Eye)' /\ (Everywhere' <=> Everywhere)
  BY <1>1, <1>2 DEF AnnouncedInv, VersionsAnnounced, Versions, Everywhere
<1> QED
  BY <1>1, <1>2, <1>3 DEF AnnouncedInv, PassAnnounced, Announced, Own

\* The deferred function announces every deletion that the pass has read, and
\* nothing else.
LEMMA PhaseAnnounces ==
    ASSUME NEW t \in Tenant, Announced(t) => t.deleting
    PROVE  /\ ReconcilePhase(t).deleting = t.deleting
           /\ ReconcilePhase(t).finalizers = t.finalizers
           /\ Announced(ReconcilePhase(t)) <=> t.deleting
<1>1. PhaseOf(t) = "Terminating" <=> t.deleting
  BY DEF PhaseOf, Announced, Tenant
<1> QED
  BY <1>1 DEF ReconcilePhase, Announced, Tenant

\* A patch of the tenant, by a pass that has read r.
LEMMA PatchAnnouncesWhatIsRead ==
    ASSUME OneIncarnation, TypeOK, TypeOK', FinalizerInv, FinalizerInv', AnnouncedInv,
           pc \in {"patch", "status"}, NEW r \in Tenant, r = read,
           NEW t \in Tenant, Store(t),
           Announced(t) => t.exists /\ t.deleting /\ r.deleting,
           t.exists /\ (\/ Announced(r)
                        \/ \E i \in Versions : Announced(versions[i])) => Announced(t),
           \/ pc' = "idle"
           \/ pc' = "status" /\ UNCHANGED <<read, tenant>>
    PROVE  AnnouncedInv'
<1>1. /\ r.exists /\ r.uid > 0 /\ Older(r, Shown) /\ Eye = r
      /\ Announced(r) => Everywhere
  BY DEF FinalizerInv, PassOK, AnnouncedInv, PassAnnounced, Eye
<1>2. TenantTypeOK /\ TenantTypeOK' /\ VersionsAnnounced(r)
  BY <1>1 DEF TypeOK, AnnouncedInv
<1>3. VersionsAnnounced(r)'
  BY <1>1, <1>2, AnnouncedStore
<1>4. CASE pc' = "idle"
  <2>1. Shown' = Shown
    BY <1>2, StoreEffect
  <2> QED
    BY <1>1, <1>2, <1>3, <1>4, <2>1, PassAnnouncedEnds
<1>5. CASE pc' = "status" /\ UNCHANGED <<read, tenant>>
  <2>1. Eye' = r
    BY <1>5 DEF Eye
  <2>2. VersionsAnnounced(Eye)'
    BY <1>3, <2>1 DEF VersionsAnnounced
  <2>3. ASSUME Announced(r)
        PROVE  Everywhere'
    <3>1. Everywhere /\ r.deleting
      BY <1>1, <2>3 DEF AnnouncedInv, PassAnnounced, Eye
    <3> QED
      BY <1>2, <2>3, <3>1, EverywhereStore
  <2> QED
    BY <1>5, <2>2, <2>3 DEF AnnouncedInv, PassAnnounced, Announced, Own
<1> QED
  BY <1>4, <1>5

LEMMA PatchAnnounced ==
    ASSUME OneIncarnation, TypeOK, TypeOK', FinalizerInv, FinalizerInv', AnnouncedInv, Patch
    PROVE  AnnouncedInv'
<1>1. /\ TenantTypeOK /\ TenantTypeOK' /\ read \in Tenant /\ tenant \in Tenant
      /\ before \in Tenant /\ Shown \in Tenant /\ Stored \in Tenant
      /\ Len(versions) \in Versions /\ Stored = versions[Len(versions)]
      /\ \A i \in Versions : i <= Len(versions)
  BY VersionType DEF TypeOK, WorkerTypeOK, Versions
<1>2. pc \in {"defer", "patch", "status"} /\ Eye = read
  BY DEF Patch, Deferred, DeferredNotFound, PatchMetadata, PatchMetadataFails,
         PatchStatus, PatchStatusFails, Eye
<1>3. PICK r \in Tenant : r = read
  BY <1>1
<1>4. /\ r.exists /\ r.uid > 0 /\ Older(r, Shown) /\ VersionsAnnounced(r)
      /\ tenant.deleting = r.deleting /\ (Announced(r) => r.deleting /\ Everywhere)
      /\ (Announced(tenant) => tenant.deleting)
  BY <1>2, <1>3 DEF FinalizerInv, PassOK, AnnouncedInv, PassAnnounced
<1>5. Announced(Stored) => Stored.exists /\ Stored.deleting /\ r.deleting
  BY <1>1, <1>4 DEF VersionsAnnounced
<1>6. Stored.exists /\ (Announced(r) \/ \E i \in Versions : Announced(versions[i]))
         => Announced(Stored)
  BY <1>1, <1>4 DEF VersionsAnnounced, Everywhere
<1>7. ASSUME UNCHANGED versions, IdleWorker PROVE AnnouncedInv'
  <2>1. VersionsAnnounced(r)' /\ Shown' = Shown
    BY <1>4, <1>7 DEF VersionsAnnounced, Versions, Shown
  <2>2. pc' = "idle"
    BY <1>7 DEF IdleWorker
  <2> QED
    BY <1>1, <1>4, <2>1, <2>2, PassAnnouncedEnds
<1>8. CASE Deferred \/ DeferredNotFound \/ PatchMetadataFails \/ PatchStatusFails
  <2>1. UNCHANGED versions
    BY <1>8 DEF Deferred, DeferredNotFound, PatchMetadataFails, PatchStatusFails
  <2>2. CASE ~IdleWorker
    <3>1. /\ tenant' = ReconcilePhase(tenant) /\ pc' \in {"patch", "status"} /\ read' = read
      BY <1>8, <2>2 DEF Deferred, DeferredNotFound, PatchMetadataFails, PatchStatusFails,
                        Return, Goto
    <3>2. /\ tenant'.deleting = tenant.deleting /\ tenant'.finalizers = tenant.finalizers
          /\ Announced(tenant') <=> tenant.deleting
      BY <1>1, <1>4, <3>1, PhaseAnnounces
    <3>3. Eye' = read
      BY <3>1 DEF Eye
    <3>4. VersionsAnnounced(Eye)' /\ (Everywhere' <=> Everywhere)
      BY <1>3, <1>4, <2>1, <3>3 DEF VersionsAnnounced, Everywhere, Versions
    <3>5. Own(tenant)' \/ Announced(read)
      BY <1>2, <3>2 DEF AnnouncedInv, PassAnnounced, Own
    <3>6. PassAnnounced'
      BY <1>3, <1>4, <3>1, <3>2, <3>4, <3>5 DEF PassAnnounced, Announced
    <3> QED
      BY <3>4, <3>6 DEF AnnouncedInv
  <2> QED
    BY <1>7, <2>1, <2>2
<1>9. CASE PatchMetadata
  <2> DEFINE t == WithFinalizers(Stored, tenant.finalizers)
  <2>1. t \in Tenant
    BY <1>1, WithFinalizersType DEF Tenant
  <2>2. /\ Announced(t) => t.exists /\ t.deleting /\ r.deleting
        /\ t.exists => Stored.exists /\ (Announced(Stored) => Announced(t))
    <3>1. CASE Stored.deleting /\ tenant.finalizers = {}
      <4>1. t = Gone(Stored.uid)
        BY <3>1 DEF WithFinalizers
      <4> HIDE DEF t
      <4>2. ~t.exists
        BY <4>1 DEF Gone
      <4>3. t.phase = ""
        BY <4>1 DEF Gone
      <4> QED
        BY <4>2, <4>3 DEF Announced
    <3>2. CASE ~(Stored.deleting /\ tenant.finalizers = {})
      <4>1. t = [Stored EXCEPT !.finalizers = tenant.finalizers]
        BY <3>2 DEF WithFinalizers
      <4>2. t.exists = Stored.exists /\ t.deleting = Stored.deleting /\ t.phase = Stored.phase
        BY <1>1, <4>1 DEF Tenant
      <4> HIDE DEF t
      <4> QED
        BY <1>5, <4>2 DEF Announced
    <3> QED
      BY <3>1, <3>2
  <2>3. Store(t) /\ pc = "patch"
    BY <1>9 DEF PatchMetadata
  <2>4. pc' = "idle" \/ (pc' = "status" /\ UNCHANGED <<read, tenant>>)
    BY <1>9 DEF PatchMetadata, Return, IdleWorker, Goto
  <2> HIDE DEF t
  <2> QED
    BY <1>3, <1>6, <2>1, <2>2, <2>3, <2>4, PatchAnnouncesWhatIsRead
<1>10. CASE PatchStatus
  <2> DEFINE t == StatusPatched(Stored, before, tenant)
  <2>1. t \in Tenant
    BY <1>1, StatusPatchedType
  <2>2. /\ t.exists = Stored.exists /\ t.deleting = Stored.deleting
        /\ t.phase = Stored.phase \/ t.phase = tenant.phase
    BY <1>1 DEF StatusPatched, Tenant
  <2>3. Store(t) /\ pc = "status" /\ pc' = "idle" /\ Stored.exists
    BY <1>10 DEF PatchStatus, StatusPatchRefused, Return, IdleWorker
  <2>4. r.deleting => Stored.deleting
    <3>1. Older(Shown, Stored)
      BY <1>1, VersionType DEF FinalizerInv, Ordered
    <3>2. r.uid = Stored.uid
      <4>1. Stored.uid > 0
        BY <1>1, <2>3 DEF FinalizerInv, Shaped
      <4> QED
        BY <1>1, <1>4, <4>1, MaxUidAssumption DEF OneIncarnation, Tenant
    <3>3. Older(r, Stored)
      BY <1>1, <1>4, <3>1, OlderTransitive
    <3> QED
      BY <2>3, <3>2, <3>3 DEF Older
  <2>5. r.deleting => Announced(tenant)
    BY <1>4, <2>3 DEF AnnouncedInv, PassAnnounced
  <2>6. Announced(t) => t.exists /\ t.deleting /\ r.deleting
    BY <1>4, <1>5, <2>2, <2>3, <2>4 DEF Announced
  <2>7. (\E i \in Versions : Announced(versions[i])) \/ Announced(r) => r.deleting
    BY <1>4 DEF VersionsAnnounced
  <2>8. t.exists /\ (Announced(r) \/ \E i \in Versions : Announced(versions[i]))
           => Announced(t)
    BY <1>6, <2>2, <2>3, <2>5, <2>7 DEF Announced
  <2> HIDE DEF t
  <2> QED
    BY <1>3, <2>1, <2>3, <2>6, <2>8, PatchAnnouncesWhatIsRead
<1> QED
  BY <1>8, <1>9, <1>10 DEF Patch

\* What the informer forgets needs no more to be announced.
LEMMA ManagerAnnounced ==
    ASSUME OneIncarnation, TypeOK, TypeOK', FinalizerInv, FinalizerInv', AnnouncedInv, Manager
    PROVE  AnnouncedInv'
<1>1. /\ TenantTypeOK /\ TenantTypeOK' /\ Shown \in Tenant /\ read \in Tenant
      /\ Shown = versions[1] /\ 1 \in Versions /\ \A i \in Versions : versions[i] \in Tenant
  BY VersionType DEF TypeOK, WorkerTypeOK
<1>2. PICK eye \in Tenant : eye = Eye
  BY <1>1 DEF Eye
<1>3. eye.exists => eye.uid > 0
  BY <1>1, <1>2 DEF Eye, FinalizerInv, Shaped, AnnouncedInv, PassAnnounced
<1>4. CASE FireTimer \/ Resync
  BY <1>4 DEF FireTimer, Resync, tenantVars, workerVars, AnnouncedInv, VersionsAnnounced,
              PassAnnounced, Everywhere, Versions, Eye, Shown
<1>5. ASSUME NEW d \in Nat, NEW k \in Versions, k = d + 1, Shown' = versions[k],
             \A i \in Versions' : i + d \in Versions /\ versions'[i] = versions[i + d]
      PROVE  /\ VersionsAnnounced(eye)' /\ (Everywhere => Everywhere') /\ Older(eye, Shown')
  <2>1. Versions \subseteq Nat /\ Versions' \subseteq Nat
    BY DEF Versions
  <2>2. VersionsAnnounced(eye)'
    <3> SUFFICES ASSUME NEW i \in Versions', Announced(versions'[i])
                 PROVE  /\ versions'[i].exists /\ versions'[i].deleting
                        /\ eye.exists /\ eye.deleting
                        /\ \A j \in Versions' : i <= j /\ versions'[j].exists
                              => Announced(versions'[j])
      BY DEF VersionsAnnounced, Announced
    <3>1. i + d \in Versions /\ versions'[i] = versions[i + d]
      BY <1>5
    <3>2. ASSUME NEW j \in Versions', i <= j, versions'[j].exists
          PROVE  Announced(versions'[j])
      <4>1. j + d \in Versions /\ versions'[j] = versions[j + d] /\ i + d <= j + d
        BY <1>5, <2>1, <3>2
      <4> QED
        BY <1>2, <3>1, <3>2, <4>1 DEF AnnouncedInv, VersionsAnnounced
    <3> QED
      BY <1>2, <3>1, <3>2 DEF AnnouncedInv, VersionsAnnounced
  <2>3. Everywhere => Everywhere'
    BY <1>5 DEF Everywhere, Announced
  <2>4. Older(Shown, Shown')
    BY <1>1, <1>5 DEF FinalizerInv, Ordered, Versions
  <2>5. Older(eye, Shown')
    BY <1>1, <1>2, <1>5, <2>4, OlderTransitive DEF Eye, FinalizerInv, PassOK
  <2> QED
    BY <2>2, <2>3, <2>5
<1>6. CASE Deliver
  <2>1. /\ UNCHANGED <<pc, read, tenant>> /\ Len(versions) > 1 /\ versions' = Tail(versions)
    BY <1>6 DEF Deliver, workerVars
  <2>2. /\ Shown' = versions[2] /\ 2 \in Versions
        /\ \A i \in Versions' : i + 1 \in Versions /\ versions'[i] = versions[i + 1]
    BY <1>1, <2>1 DEF TenantTypeOK, Versions, Shown
  <2>3. VersionsAnnounced(eye)' /\ (Everywhere => Everywhere') /\ Older(eye, Shown')
    BY <1>5, <2>2
  <2>4. CASE pc = "idle"
    BY <1>1, <1>3, <2>1, <2>3, <2>4, PassAnnouncedEnds
  <2>5. CASE pc # "idle"
    <3>1. Eye' = eye
      BY <1>2, <2>1, <2>5 DEF Eye
    <3>2. VersionsAnnounced(Eye)'
      BY <2>3, <3>1 DEF VersionsAnnounced
    <3> QED
      BY <2>1, <2>3, <3>2 DEF AnnouncedInv, PassAnnounced, Announced, Own
  <2> QED
    BY <2>4, <2>5
<1>7. CASE Crash
  <2>1. pc' = "idle"
    BY <1>7 DEF Crash, IdleWorker
  <2>2. PICK first \in Versions : versions' = SubSeq(versions, first, Len(versions))
    BY <1>7 DEF Crash, Versions
  <2>3. first \in 1..Len(versions) /\ Len(versions) \in Nat
    BY <1>1, <2>2 DEF TenantTypeOK, Versions
  <2>4. PICK d \in Nat : first = d + 1
    <3>1. first - 1 \in Nat /\ first = (first - 1) + 1
      BY <2>3
    <3> QED
      BY <3>1
  <2>5. /\ Shown' = versions[first]
        /\ \A i \in Versions' : i + d \in Versions /\ versions'[i] = versions[i + d]
    <3>1. /\ Len(versions') = Len(versions) - first + 1
          /\ \A i \in 1..(Len(versions) - first + 1) : versions'[i] = versions[i + first - 1]
      BY <1>1, <2>2, <2>3 DEF TenantTypeOK
    <3> QED
      BY <2>3, <2>4, <3>1 DEF Versions, Shown
  <2>6. VersionsAnnounced(eye)' /\ Older(eye, Shown')
    BY <1>5, <2>4, <2>5
  <2> QED
    BY <1>1, <1>3, <2>1, <2>6, PassAnnouncedEnds
<1> QED
  BY <1>4, <1>6, <1>7 DEF Manager

\* A write of the tenant by somebody else, which says no more and no less than
\* what was stored, or comes before anything is announced.
LEMMA OthersAnnounced ==
    ASSUME TypeOK, AnnouncedInv, NEW t \in Tenant, Store(t), UNCHANGED workerVars,
           Announced(t) => t.exists /\ t.deleting /\ Announced(Stored),
           \/ Stored.exists /\ (t.exists /\ Announced(Stored) => Announced(t))
           \/ pc = "idle" /\ \A i \in Versions : ~Announced(versions[i])
    PROVE  AnnouncedInv'
<1>1. /\ TenantTypeOK /\ Eye \in Tenant /\ Stored \in Tenant
      /\ Len(versions) \in Versions /\ Stored = versions[Len(versions)]
      /\ \A i \in Versions : i <= Len(versions)
  BY VersionType DEF TypeOK, WorkerTypeOK, Eye, Versions
<1>2. PICK eye \in Tenant : eye = Eye
  BY <1>1
<1>3. VersionsAnnounced(eye)
  BY <1>2 DEF AnnouncedInv
<1>4. Announced(t) => t.exists /\ t.deleting /\ eye.exists /\ eye.deleting
  BY <1>1, <1>3 DEF VersionsAnnounced
<1>5. t.exists /\ (\E i \in Versions : Announced(versions[i])) => Announced(t)
  BY <1>1, <1>3 DEF VersionsAnnounced
<1>6. VersionsAnnounced(eye)'
  BY <1>1, <1>3, <1>4, <1>5, AnnouncedStore
<1>7. Eye' = eye
  BY <1>1, <1>2, StoreEffect DEF Eye, workerVars
<1>8. VersionsAnnounced(Eye)'
  BY <1>6, <1>7 DEF VersionsAnnounced
<1>9. pc # "idle" /\ Everywhere => Everywhere'
  <2> SUFFICES ASSUME pc # "idle", Everywhere PROVE Everywhere'
    OBVIOUS
  <2>1. t.exists => Announced(t)
    BY <1>1 DEF Everywhere
  <2> QED
    BY <1>1, <2>1, EverywhereStore
<1> QED
  BY <1>8, <1>9 DEF AnnouncedInv, PassAnnounced, workerVars, Announced, Own

LEMMA ClientsAnnounced ==
    ASSUME OneIncarnation, TypeOK, FinalizerInv, AnnouncedInv, Clients
    PROVE  AnnouncedInv'
<1>1. /\ TenantTypeOK /\ Stored \in Tenant /\ Shown \in Tenant /\ read \in Tenant
      /\ Len(versions) \in Versions /\ Stored = versions[Len(versions)]
      /\ Shown = versions[1] /\ 1 \in Versions
      /\ \A i \in Versions : versions[i] \in Tenant /\ 1 <= i /\ i <= Len(versions)
  BY VersionType DEF TypeOK, WorkerTypeOK, Versions
<1>2. UNCHANGED workerVars
  BY DEF Clients, CreateTenant, DeleteTenant, AddOtherFinalizer, OtherFinalizersDone,
         DropOtherFinalizer
<1>3. Announced(Stored) => Stored.exists /\ Stored.deleting
  BY <1>1 DEF AnnouncedInv, VersionsAnnounced
<1>4. CASE CreateTenant
  <2> DEFINE t == Created(Stored.uid + 1)
  <2>1. Stored.uid + 1 \in 0..MaxUid /\ ~Stored.exists
    BY <1>1, <1>4, MaxUidAssumption DEF CreateTenant, Tenant
  <2>2. Stored.uid = 0
    BY <1>1, <2>1, MaxUidAssumption DEF OneIncarnation, Tenant
  <2>3. \A i \in Versions : ~Announced(versions[i])
    <3> SUFFICES ASSUME NEW i \in Versions, Announced(versions[i]) PROVE FALSE
      OBVIOUS
    <3>1. versions[i].exists /\ versions[i].uid > 0 /\ versions[i].uid \in Nat
      BY <1>1, MaxUidAssumption DEF AnnouncedInv, VersionsAnnounced, FinalizerInv, Shaped, Tenant
    <3>2. Older(versions[i], Stored)
      BY <1>1 DEF FinalizerInv, Ordered
    <3> QED
      BY <2>2, <3>1, <3>2 DEF Older
  <2>4. pc = "idle"
    <3> SUFFICES ASSUME pc # "idle" PROVE FALSE
      OBVIOUS
    <3>1. read.uid > 0 /\ Older(read, Shown) /\ Older(Shown, Stored)
      BY <1>1 DEF AnnouncedInv, PassAnnounced, FinalizerInv, PassOK, Ordered
    <3> QED
      BY <1>1, <2>2, <3>1, MaxUidAssumption DEF Older, Tenant
  <2>5. t \in Tenant
    BY <2>1, CreatedType
  <2>6. Store(t)
    BY <1>4 DEF CreateTenant, StoreByOthers
  <2>7. t.phase = ""
    BY DEF Created, Gone
  <2> HIDE DEF t
  <2>8. ~Announced(t)
    BY <2>7 DEF Announced
  <2> QED
    BY <1>1, <2>3, <2>4, <2>5, <2>6, <1>2, <2>8, OthersAnnounced
<1>5. CASE DeleteTenant
  <2> DEFINE t == IF Stored.finalizers = {}
                  THEN Gone(Stored.uid)
                  ELSE [Stored EXCEPT !.deleting = TRUE]
  <2>1. Gone(Stored.uid) \in Tenant /\ [Stored EXCEPT !.deleting = TRUE] \in Tenant
    BY <1>1, GoneType DEF Tenant
  <2>2. /\ ~Gone(Stored.uid).exists
        /\ Gone(Stored.uid).phase = ""
    BY DEF Gone
  <2>3. /\ [Stored EXCEPT !.deleting = TRUE].deleting
        /\ [Stored EXCEPT !.deleting = TRUE].phase = Stored.phase
        /\ [Stored EXCEPT !.deleting = TRUE].exists = Stored.exists
    BY <1>1 DEF Tenant
  <2>4. /\ t \in Tenant
        /\ \/ ~t.exists /\ t.phase = ""
           \/ t.exists = Stored.exists /\ t.phase = Stored.phase /\ t.deleting
    BY <2>1, <2>2, <2>3
  <2>5. Store(t) /\ Stored.exists
    BY <1>5 DEF DeleteTenant, StoreByOthers
  <2> HIDE DEF t
  <2> QED
    BY <1>1, <1>3, <2>4, <2>5, <1>2, OthersAnnounced DEF Announced
<1>6. ASSUME NEW f \in OtherFinalizers, AddOtherFinalizer(f) PROVE AnnouncedInv'
  <2> DEFINE t == [Stored EXCEPT !.finalizers = @ \cup {f}]
  <2>1. t \in Tenant
    BY <1>1 DEF Tenant, Finalizers
  <2>2. t.exists = Stored.exists /\ t.phase = Stored.phase /\ t.deleting = Stored.deleting
    BY <1>1 DEF Tenant
  <2>3. Store(t) /\ Stored.exists
    BY <1>6 DEF AddOtherFinalizer, StoreByOthers
  <2> HIDE DEF t
  <2> QED
    BY <1>1, <1>3, <2>1, <2>2, <2>3, <1>2, OthersAnnounced DEF Announced
<1>7. ASSUME NEW f \in OtherFinalizers, DropOtherFinalizer(f) PROVE AnnouncedInv'
  <2> DEFINE fs == Stored.finalizers \ {f}
             t == WithFinalizers(Stored, fs)
  <2>1. t \in Tenant
    BY <1>1, WithFinalizersType DEF Tenant
  <2>2. \/ ~t.exists /\ t.phase = ""
        \/ t.exists = Stored.exists /\ t.phase = Stored.phase /\ t.deleting = Stored.deleting
    <3>1. CASE Stored.deleting /\ fs = {}
      <4>1. t = Gone(Stored.uid)
        BY <3>1 DEF WithFinalizers
      <4> HIDE DEF t
      <4>2. ~t.exists
        BY <4>1 DEF Gone
      <4>3. t.phase = ""
        BY <4>1 DEF Gone
      <4> QED
        BY <4>2, <4>3
    <3>2. CASE ~(Stored.deleting /\ fs = {})
      <4>1. t = [Stored EXCEPT !.finalizers = fs]
        BY <3>2 DEF WithFinalizers
      <4> HIDE DEF t
      <4> QED
        BY <1>1, <4>1 DEF Tenant
    <3> QED
      BY <3>1, <3>2
  <2>3. Store(t) /\ Stored.exists
    BY <1>7 DEF DropOtherFinalizer, StoreByOthers
  <2> HIDE DEF t, fs
  <2> QED
    BY <1>1, <1>3, <2>1, <2>2, <2>3, <1>2, OthersAnnounced DEF Announced
<1> QED
  BY <1>4, <1>5, <1>6, <1>7 DEF Clients, OtherFinalizersDone

LEMMA ElsewhereAnnounced ==
    ASSUME AnnouncedInv, UNCHANGED <<tenantVars, workerVars>>
    PROVE  AnnouncedInv'
BY DEF tenantVars, workerVars, AnnouncedInv, VersionsAnnounced, PassAnnounced, Everywhere,
       Versions, Eye, Shown, Announced, Own

LEMMA OneIncarnationUndisturbed == OneIncarnation => Undisturbed
BY DEF OneIncarnation, Undisturbed

LEMMA AnnouncedInvHolds ==
    ASSUME OneIncarnation
    PROVE  Spec => []AnnouncedInv
<1>1. (TypeOK /\ TypeOK') /\ (FinalizerInv /\ FinalizerInv') /\ AnnouncedInv /\ [Next]_vars
         => AnnouncedInv'
  <2> SUFFICES ASSUME TypeOK, TypeOK', FinalizerInv, FinalizerInv', AnnouncedInv, [Next]_vars
               PROVE  AnnouncedInv'
    OBVIOUS
  <2>1. CASE ReconcileNotFound \/ ReconcileAddFinalizer \/ ReconcileDelete \/ ReconcileNormal
    BY <2>1, ReconcileAnnounced
  <2>2. CASE Build
    BY <2>2, BuildAnnounced
  <2>3. CASE Patch
    BY <2>3, PatchAnnounced
  <2>4. CASE Manager
    BY <2>4, ManagerAnnounced
  <2>5. CASE Clients
    BY <2>5, ClientsAnnounced
  <2>6. CASE Host
    BY <2>6, ElsewhereAnnounced DEF Host, HostStep, PodFailure, PodRecovery
  <2>7. CASE UNCHANGED vars
    BY <2>7, ElsewhereAnnounced DEF vars
  <2> QED
    BY <2>1, <2>2, <2>3, <2>4, <2>5, <2>6, <2>7
       DEF Next, Worker, Build, Patch, Manager, Clients, Host
<1>2. Spec => []FinalizerInv
  BY FinalizerInvariantHolds, OneIncarnationUndisturbed
<1> QED
  BY AnnouncedInit, TypeCorrect, <1>1, <1>2, PTL DEF Spec

\* Nobody but the metadata patch takes the finalizer from the tenant, and only
\* for a pass that no longer holds it.
LEMMA OnlyThePatchRemoves ==
    ASSUME TypeOK, FinalizerInv, [Next]_vars, Own(Stored), ~Own(Stored')
    PROVE  PatchMetadata /\ ~Own(tenant)
<1>1. TenantTypeOK /\ Stored \in Tenant /\ before \in Tenant /\ tenant \in Tenant
  BY VersionType DEF TypeOK, WorkerTypeOK
<1>2. Stored' # Stored /\ versions' # versions
  BY DEF Own, Stored
<1>3. ~Clients
  <2> SUFFICES ASSUME Clients PROVE FALSE
    OBVIOUS
  <2>1. PICK t \in Tenant : StoreByOthers(t) /\ Harmless(t)
    BY ClientsHarmless
  <2> QED
    BY <1>1, <2>1, StoreEffect DEF StoreByOthers, Harmless
<1>4. ~Manager
  <2>1. ~Deliver
    BY <1>1, <1>2 DEF TenantTypeOK, Deliver, Stored
  <2>2. ~(FireTimer \/ Resync)
    BY <1>2 DEF FireTimer, Resync, tenantVars
  <2>3. ~Crash
    <3> SUFFICES ASSUME Crash PROVE FALSE
      OBVIOUS
    <3>1. PICK first \in 1..Len(versions) : versions' = SubSeq(versions, first, Len(versions))
      BY DEF Crash
    <3> QED
      BY <1>1, <1>2, <3>1 DEF TenantTypeOK, Stored
  <2> QED
    BY <2>1, <2>2, <2>3 DEF Manager
<1>5. ~PatchStatus
  <2> DEFINE t == StatusPatched(Stored, before, tenant)
  <2> SUFFICES ASSUME PatchStatus PROVE FALSE
    OBVIOUS
  <2>1. t \in Tenant /\ t.finalizers = Stored.finalizers /\ Store(t)
    BY <1>1, StatusPatchedType DEF StatusPatched, Tenant, PatchStatus
  <2> HIDE DEF t
  <2> QED
    BY <1>1, <2>1, StoreEffect DEF Own
<1>6. PatchMetadata
  <2>1. ~(ReconcileNotFound \/ ReconcileAddFinalizer \/ ReconcileDelete \/ ReconcileNormal)
    BY <1>2 DEF ReconcileNotFound, ReconcileAddFinalizer, ReconcileDelete, ReconcileNormal,
                StartPass, Begin, tenantVars
  <2>2. ~Build
    BY <1>2, BuildKeeps
  <2>3. ~(Deferred \/ DeferredNotFound \/ PatchMetadataFails \/ PatchStatusFails)
    BY <1>2 DEF Deferred, DeferredNotFound, PatchMetadataFails, PatchStatusFails
  <2>4. ~(Host \/ UNCHANGED vars)
    BY <1>2 DEF Host, HostStep, PodFailure, PodRecovery, vars, tenantVars
  <2> QED
    BY <1>3, <1>4, <1>5, <2>1, <2>2, <2>3, <2>4
       DEF Next, Worker, Build, Patch, Manager, Clients, Host
<1>7. ~Own(tenant)
  <2> DEFINE t == WithFinalizers(Stored, tenant.finalizers)
  <2>1. t \in Tenant /\ Store(t)
    BY <1>1, <1>6, WithFinalizersType DEF PatchMetadata, Tenant
  <2>2. Own(tenant) => Own(t)
    BY <1>1 DEF WithFinalizers, Own, Tenant
  <2> HIDE DEF t
  <2> QED
    BY <1>1, <2>1, <2>2, StoreEffect
<1> QED
  BY <1>6, <1>7

\* "wait for phase to be terminating": reconcileDelete takes the finalizer away
\* only from a tenant that is stored as Terminating and is being deleted, however
\* old the read it acts on.  For one incarnation of the name: a stale pass can
\* write the phase of one incarnation over the next.
THEOREM AnnouncedBeforeFinalizerGoes ==
    ASSUME OneIncarnation
    PROVE  Spec => AnnouncedBeforeRemoved
<1>1. (TypeOK /\ FinalizerInv) /\ AnnouncedInv /\ [Next]_vars
         => [/\ TenantFinalizer \in Stored.finalizers
             /\ TenantFinalizer \notin Stored.finalizers'
             => Stored.deleting /\ Stored.phase = "Terminating"]_vars
  <2> SUFFICES ASSUME TypeOK, FinalizerInv, AnnouncedInv, [Next]_vars,
                      Own(Stored), ~Own(Stored')
               PROVE  Stored.deleting /\ Announced(Stored)
    BY DEF Own, Announced
  <2>1. PatchMetadata /\ ~Own(tenant)
    BY OnlyThePatchRemoves
  <2>2. pc = "patch"
    BY <2>1 DEF PatchMetadata
  <2>3. Announced(read) /\ Everywhere
    BY <2>1, <2>2 DEF AnnouncedInv, PassAnnounced
  <2>4. Len(versions) \in Versions /\ Stored = versions[Len(versions)] /\ Stored.exists
    BY <2>1, VersionType DEF TypeOK, FinalizerInv, Shaped
  <2> QED
    BY <2>3, <2>4 DEF Everywhere, AnnouncedInv, VersionsAnnounced
<1>2. Spec => []FinalizerInv
  BY FinalizerInvariantHolds, OneIncarnationUndisturbed
<1> QED
  BY TypeCorrect, AnnouncedInvHolds, <1>1, <1>2, PTL DEF Spec, AnnouncedBeforeRemoved

===============================================================================
