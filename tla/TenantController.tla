--------------------------- MODULE TenantController ---------------------------
(***************************************************************************)
(* The tenant controller (pkg/controllers/tenant_controller.go and         *)
(* tenant_controller_phase.go, with CreateIfNotExists and PatchIfExists of *)
(* pkg/controllerutil) for one tenant name, against the API server of the  *)
(* host cluster.                                                           *)
(*                                                                         *)
(* An action ends where the next read or write of shared state begins:     *)
(* the cached reads of a tenant, each Get, Create and Patch are the points *)
(* at which other actors interleave.  A pass of Reconcile runs             *)
(*    idle -> [get -> (sign) -> create]* -> check* -> defer -> patch       *)
(*         -> status -> idle                                               *)
(* and an error anywhere goes to the deferred function, or to idle.        *)
(***************************************************************************)
EXTENDS HostCluster

CONSTANTS
    MaxLag,       \* bound: writes of the tenant that the informer may trail behind, plus 1
    MaxFaults,    \* bound: API requests that fail or whose answer is lost
    MaxCrashes,   \* bound: restarts of the manager
    MaxFailures,  \* bound: pods that fail after having been ready
    MaxMeddling,  \* bound: finalizers that other controllers add
    MaxDeletions  \* bound: incarnations of the tenant that users delete

ASSUME BoundsAssumption ==
    /\ MaxLag \in Nat \ {0, 1}
    /\ MaxFaults \in Nat /\ MaxCrashes \in Nat
    /\ MaxFailures \in Nat /\ MaxMeddling \in Nat /\ MaxDeletions \in Nat

VARIABLES
    \* the API server and the informer
    versions,   \* the tenant as the informer shows it, ..., as it is stored
    rv,         \* resourceVersion in the status patch: "none", or the one of
                \* the metadata patch ("same"; "moved": written since)
    \* the work queue
    queued,     \* the tenant's key is in the queue
    timer,      \* a delayed add of the key is pending (back-off or RequeueAfter)
    \* the worker
    pc,
    step,       \* the child or the deployment it is at
    read,       \* the first read of the pass (kept for the properties)
    tenant,     \* `tenant' of Reconcile
    before,     \* the second read of the pass, in PatchIfExists
    signer,     \* the CA that parseCASecret found
    reterr,     \* the pass ends in an error
    requeue,    \* the pass ends with RequeueAfter
    \* bounds
    spent       \* how often each bounded event has happened

tenantVars == <<versions, rv>>
queueVars  == <<queued, timer>>
workerVars == <<pc, step, read, tenant, before, signer, reterr, requeue>>
vars == <<hostVars, tenantVars, queueVars, workerVars, spent>>

Shown  == versions[1]
Stored == versions[Len(versions)]

PCs == {"idle", "get", "sign", "create", "check", "defer", "patch", "status"}

\* The order of the checks at the end of reconcileNormal.
Checks == <<"kube-apiserver", "kube-controller-manager">>

TenantTypeOK ==
    /\ versions \in Seq(Tenant)
    /\ Len(versions) \in 1..MaxLag
    /\ rv \in {"none", "same", "moved"}

QueueTypeOK == queued \in BOOLEAN /\ timer \in BOOLEAN

WorkerTypeOK ==
    /\ pc \in PCs
    /\ step \in 1..Len(Order)
    /\ pc = "check" => step \in 1..Len(Checks)
    /\ read \in Tenant /\ tenant \in Tenant /\ before \in Tenant
    /\ signer \in CAs \cup {0}
    /\ reterr \in BOOLEAN /\ requeue \in BOOLEAN

SpentTypeOK ==
    spent \in [faults: 0..MaxFaults, crashes: 0..MaxCrashes,
               failures: 0..MaxFailures, meddling: 0..MaxMeddling]

\* Every variable keeps its type; the parts are the actors' own.
TypeOK == HostTypeOK /\ TenantTypeOK /\ QueueTypeOK /\ WorkerTypeOK /\ SpentTypeOK

IdleWorker ==
    /\ pc' = "idle" /\ step' = 1
    /\ read' = Gone(0) /\ tenant' = Gone(0) /\ before' = Gone(0)
    /\ signer' = 0 /\ reterr' = FALSE /\ requeue' = FALSE

Init ==
    /\ HostInit
    /\ versions = <<Gone(0)>> /\ rv = "none"
    /\ queued = FALSE /\ timer = FALSE
    /\ pc = "idle" /\ step = 1
    /\ read = Gone(0) /\ tenant = Gone(0) /\ before = Gone(0)
    /\ signer = 0 /\ reterr = FALSE /\ requeue = FALSE
    /\ spent = [faults |-> 0, crashes |-> 0, failures |-> 0, meddling |-> 0]

-----------------------------------------------------------------------------
(* Helpers *)

\* A write of the tenant: a new version, unless it changes nothing.
Store(t) ==
    IF t = Stored
    THEN UNCHANGED versions
    ELSE Len(versions) < MaxLag /\ versions' = Append(versions, t)

\* The same for another client's write, seen by a pending status patch.
StoreByOthers(t) ==
    /\ Store(t)
    /\ rv' = IF rv = "same" /\ t # Stored THEN "moved" ELSE rv

Fault ==
    /\ spent.faults < MaxFaults
    /\ spent' = [spent EXCEPT !.faults = @ + 1]

\* The pass ends: a failed one is added again after a back-off.
Return(failed) ==
    /\ IdleWorker
    /\ timer' = (timer \/ reterr \/ failed \/ requeue)
    /\ rv' = "none"
    /\ UNCHANGED queued

Goto(label, n) == pc' = label /\ step' = n

\* The pass goes on within reconcileNormal and keeps what it holds.
Proceed(label, n) ==
    /\ Goto(label, n)
    /\ UNCHANGED <<tenant, signer, reterr, requeue>>

\* reconcileNormal returns; the deferred function is next.
Leave(t, failed, after) ==
    /\ Goto("defer", 1)
    /\ tenant' = t
    /\ signer' = 0
    /\ reterr' = failed
    /\ requeue' = after

\* An error in the namespace step is returned as it is; in a provisioning
\* phase it also marks the tenant.
FailStep ==
    \E now \in Times :
        Leave(IF step = 1 THEN tenant ELSE Mark(tenant, "Provisioned", "False", now),
              TRUE, FALSE)

\* Mutant of Ensured: provisioned before the last object is ensured.
EnsuredTooEarly ==
    IF step = 1 /\ ~NeedsProvisioning(tenant)
    THEN Proceed("check", 1)
    ELSE IF step < Len(Order) - 1
    THEN /\ Goto("get", step + 1)
         /\ signer' = 0
         /\ UNCHANGED <<tenant, reterr, requeue>>
    ELSE \E now \in Times :
            /\ Goto("check", 1)
            /\ tenant' = Mark(tenant, "Provisioned", "True", now)
            /\ signer' = 0
            /\ UNCHANGED <<reterr, requeue>>

\* Mutant of Ensured: what has been provisioned is not noted.
EnsuredUnmarked ==
    IF step = Len(Order) \/ (step = 1 /\ ~NeedsProvisioning(tenant))
    THEN Proceed("check", 1)
    ELSE /\ Goto("get", step + 1)
         /\ signer' = 0
         /\ UNCHANGED <<tenant, reterr, requeue>>

\* The child at hand is ensured: the next one, or the checks.
Ensured ==
    IF step = 1 /\ ~NeedsProvisioning(tenant)
    THEN Proceed("check", 1)
    ELSE IF step < Len(Order)
    THEN /\ Goto("get", step + 1)
         /\ signer' = 0
         /\ UNCHANGED <<tenant, reterr, requeue>>
    ELSE \E now \in Times :
            /\ Goto("check", 1)
            /\ tenant' = Mark(tenant, "Provisioned", "True", now)
            /\ signer' = 0
            /\ UNCHANGED <<reterr, requeue>>

-----------------------------------------------------------------------------
(* Reconcile: the first read and the branches on it *)

Begin ==
    /\ pc = "idle"
    /\ queued
    /\ queued' = FALSE
    /\ UNCHANGED <<hostVars, tenantVars, timer, spent>>

ReconcileNotFound ==
    /\ Begin
    /\ ~Shown.exists
    /\ UNCHANGED workerVars

StartPass ==
    /\ Begin
    /\ Shown.exists
    /\ read' = Shown
    /\ UNCHANGED <<before>>

\* Only the finalizer; the rest waits for the event of this write.
ReconcileAddFinalizer ==
    /\ StartPass
    /\ TenantFinalizer \notin Shown.finalizers
    /\ Leave([Shown EXCEPT !.finalizers = @ \cup {TenantFinalizer}], FALSE, FALSE)

\* Mutant of ReconcileDelete: it does not wait for the phase.
ReconcileDeleteAtOnce ==
    /\ StartPass
    /\ TenantFinalizer \in Shown.finalizers
    /\ Shown.deleting
    /\ Leave([Shown EXCEPT !.finalizers = @ \ {TenantFinalizer}], FALSE, FALSE)

ReconcileDelete ==
    /\ StartPass
    /\ TenantFinalizer \in Shown.finalizers
    /\ Shown.deleting
    /\ Leave(IF Shown.phase = "Terminating"
             THEN [Shown EXCEPT !.finalizers = @ \ {TenantFinalizer}]
             ELSE Shown, FALSE, FALSE)

\* Mutant of ReconcileNormal: the finalizer is not awaited.
ReconcileNormalUnguarded ==
    /\ StartPass
    /\ ~Shown.deleting
    /\ Goto("get", 1)
    /\ tenant' = Shown
    /\ UNCHANGED <<signer, reterr, requeue>>

\* Another one: a provisioned tenant's namespace is taken for granted.
ReconcileNormalPastNamespace ==
    /\ StartPass
    /\ TenantFinalizer \in Shown.finalizers
    /\ ~Shown.deleting
    /\ Goto(IF NeedsProvisioning(Shown) THEN "get" ELSE "check", 1)
    /\ tenant' = Shown
    /\ UNCHANGED <<signer, reterr, requeue>>

ReconcileNormal ==
    /\ StartPass
    /\ TenantFinalizer \in Shown.finalizers
    /\ ~Shown.deleting
    /\ Goto("get", 1)
    /\ tenant' = Shown
    /\ UNCHANGED <<signer, reterr, requeue>>

-----------------------------------------------------------------------------
(* CreateIfNotExists, for the child Order[step] *)

Child == Order[step]

GetFound ==
    /\ pc = "get"
    /\ Visible(Child)
    /\ Ensured
    /\ UNCHANGED <<hostVars, tenantVars, queueVars, read, before, spent>>

\* The mutate function of a kubeconfig reads the CA; the others read nothing.
GetNotFound ==
    /\ pc = "get"
    /\ ~Visible(Child)
    /\ Proceed(IF Child \in Kubeconfigs THEN "sign" ELSE "create", step)
    /\ UNCHANGED <<hostVars, tenantVars, queueVars, read, before, spent>>

GetFails ==
    /\ pc = "get"
    /\ Child \notin CachedChildren
    /\ Fault
    /\ FailStep
    /\ UNCHANGED <<hostVars, tenantVars, queueVars, read, before>>

ParseCASecret ==
    /\ pc = "sign"
    /\ Exists("server-cert")
    /\ Goto("create", step)
    /\ signer' = ca["server-cert"]
    /\ UNCHANGED <<hostVars, tenantVars, queueVars, read, tenant, before, reterr,
                   requeue, spent>>

ParseCASecretFails ==
    /\ pc = "sign"
    /\ \/ ~Exists("server-cert") /\ UNCHANGED spent
       \/ Fault
    /\ FailStep
    /\ UNCHANGED <<hostVars, tenantVars, queueVars, read, before>>

\* reconcileSecret generates a CA; a kubeconfig is signed by the one it read.
FreshCA == CHOOSE c \in CAs : c \notin {ca[s] : s \in Secrets} \cup {signer}

\* Mutant of SigningCA: every secret gets a CA of its own.
SigningCAOfItsOwn == FreshCA

SigningCA == IF Child = "server-cert" THEN FreshCA ELSE signer

\* Every object carries an owner reference to the tenant that was read; the
\* mutant forgets the namespace's.
OwnerReferenceForgotten ==
    IF Child = "namespace" THEN Unowned ELSE tenant.uid

OwnerReference == tenant.uid

\* The object is created; in the second disjunct the answer is lost.
Create ==
    /\ pc = "create"
    /\ CanCreate(Child)
    /\ CreateObject(Child, OwnerReference, SigningCA)
    /\ \/ Ensured /\ UNCHANGED spent
       \/ FailStep /\ Fault
    /\ UNCHANGED <<tenantVars, queueVars, read, before>>

\* The request is refused, or it never reaches the API server.
CreateFails ==
    /\ pc = "create"
    /\ \/ ~CanCreate(Child) /\ UNCHANGED spent
       \/ Fault
    /\ FailStep
    /\ UNCHANGED <<hostVars, tenantVars, queueVars, read, before>>

-----------------------------------------------------------------------------
(* checkDeploy, for the deployment Checks[step] *)

Checked == Checks[step]

AllReplicasReady(d) == Replicas(d) = ReadyReplicas(d)

CheckDeploy ==
    /\ pc = "check"
    /\ Exists(Checked)
    /\ \/ /\ ~AllReplicasReady(Checked)
          /\ Leave(tenant, FALSE, TRUE)
       \/ /\ AllReplicasReady(Checked)
          /\ step < Len(Checks)
          /\ Proceed("check", step + 1)
       \/ /\ AllReplicasReady(Checked)
          /\ step = Len(Checks)
          /\ \E now \in Times : Leave(Mark(tenant, "Ready", "True", now), FALSE, FALSE)
    /\ UNCHANGED <<hostVars, tenantVars, queueVars, read, before, spent>>

CheckDeployFails ==
    /\ pc = "check"
    /\ \/ ~Exists(Checked) /\ UNCHANGED spent
       \/ Fault
    /\ Leave(tenant, TRUE, FALSE)
    /\ UNCHANGED <<hostVars, tenantVars, queueVars, read, before>>

-----------------------------------------------------------------------------
(* The deferred function: reconcilePhase and PatchIfExists *)

\* The second read; the callback overwrites its finalizers and status with
\* those of the first one.
Deferred ==
    /\ pc = "defer"
    /\ Shown.exists
    /\ LET mem == ReconcilePhase(tenant)
       IN  IF MetadataDiffers(Shown, mem) \/ StatusDiffers(Shown, mem)
           THEN /\ Goto(IF MetadataDiffers(Shown, mem) THEN "patch" ELSE "status", 1)
                /\ tenant' = mem
                /\ before' = Shown
                /\ UNCHANGED <<rv, queueVars, read, signer, reterr, requeue>>
           ELSE Return(FALSE)
    /\ UNCHANGED <<hostVars, versions, spent>>

DeferredNotFound ==
    /\ pc = "defer"
    /\ ~Shown.exists
    /\ Return(FALSE)
    /\ UNCHANGED <<hostVars, versions, spent>>

\* No finalizer may be added to an object that is being deleted.
MetadataPatchRefused ==
    \/ ~Stored.exists
    \/ Stored.deleting /\ ~(tenant.finalizers \subseteq Stored.finalizers)

\* The answer carries a resourceVersion, which the status patch then has.
PatchMetadata ==
    /\ pc = "patch"
    /\ ~MetadataPatchRefused
    /\ Store(WithFinalizers(Stored, tenant.finalizers))
    /\ \/ /\ StatusDiffers(before, tenant)
          /\ Goto("status", 1)
          /\ rv' = "same"
          /\ UNCHANGED <<queueVars, read, tenant, before, signer, reterr, requeue, spent>>
       \/ /\ ~StatusDiffers(before, tenant)
          /\ Return(FALSE)
          /\ UNCHANGED spent
       \/ /\ Fault
          /\ Return(TRUE)
    /\ UNCHANGED hostVars

PatchMetadataFails ==
    /\ pc = "patch"
    /\ \/ MetadataPatchRefused /\ UNCHANGED spent
       \/ Fault
    /\ Return(TRUE)
    /\ UNCHANGED <<hostVars, versions>>

\* Without a metadata patch before it this one is unconditional, and it goes
\* to whatever object has the name.
StatusPatchRefused == ~Stored.exists \/ rv = "moved"

PatchStatus ==
    /\ pc = "status"
    /\ ~StatusPatchRefused
    /\ Store(StatusPatched(Stored, before, tenant))
    /\ \/ Return(FALSE) /\ UNCHANGED spent
       \/ Return(TRUE) /\ Fault
    /\ UNCHANGED hostVars

PatchStatusFails ==
    /\ pc = "status"
    /\ \/ StatusPatchRefused /\ UNCHANGED spent
       \/ Fault
    /\ Return(TRUE)
    /\ UNCHANGED <<hostVars, versions>>

Worker ==
    \/ ReconcileNotFound \/ ReconcileAddFinalizer \/ ReconcileDelete \/ ReconcileNormal
    \/ GetFound \/ GetNotFound \/ GetFails
    \/ ParseCASecret \/ ParseCASecretFails
    \/ Create \/ CreateFails
    \/ CheckDeploy \/ CheckDeployFails
    \/ Deferred \/ DeferredNotFound
    \/ PatchMetadata \/ PatchMetadataFails
    \/ PatchStatus \/ PatchStatusFails

-----------------------------------------------------------------------------
(* The manager: informer, queue, restart *)

\* A watch event updates the informer's cache and adds the key.
Deliver ==
    /\ Len(versions) > 1
    /\ versions' = Tail(versions)
    /\ queued' = TRUE
    /\ UNCHANGED <<hostVars, rv, timer, workerVars, spent>>

FireTimer ==
    /\ timer
    /\ timer' = FALSE
    /\ queued' = TRUE
    /\ UNCHANGED <<hostVars, tenantVars, workerVars, spent>>

\* The informer adds what it holds again every ten hours.
Resync ==
    /\ Shown.exists
    /\ ~queued
    /\ queued' = TRUE
    /\ UNCHANGED <<hostVars, tenantVars, timer, workerVars, spent>>

\* The process dies.  Its successor starts from a list, which the API server
\* answers from its watch cache (resourceVersion "0"): no older than what the
\* informer had shown, not necessarily what is stored.
Crash ==
    /\ spent.crashes < MaxCrashes
    /\ spent' = [spent EXCEPT !.crashes = @ + 1]
    /\ IdleWorker
    /\ \E first \in 1..Len(versions) :
          /\ versions' = SubSeq(versions, first, Len(versions))
          /\ queued' = versions[first].exists
    /\ rv' = "none"
    /\ timer' = FALSE
    /\ RelistChildren

-----------------------------------------------------------------------------
(* Users and other controllers *)

CreateTenant ==
    /\ ~Stored.exists
    /\ Stored.uid < MaxUid
    /\ StoreByOthers(Created(Stored.uid + 1))
    /\ UNCHANGED <<hostVars, queueVars, workerVars, spent>>

DeleteTenant ==
    /\ Stored.exists
    /\ ~Stored.deleting
    /\ Stored.uid <= MaxDeletions
    /\ StoreByOthers(IF Stored.finalizers = {}
                     THEN Gone(Stored.uid)
                     ELSE [Stored EXCEPT !.deleting = TRUE])
    /\ UNCHANGED <<hostVars, queueVars, workerVars, spent>>

AddOtherFinalizer(f) ==
    /\ Stored.exists
    /\ ~Stored.deleting
    /\ f \notin Stored.finalizers
    /\ spent.meddling < MaxMeddling
    /\ spent' = [spent EXCEPT !.meddling = @ + 1]
    /\ StoreByOthers([Stored EXCEPT !.finalizers = @ \cup {f}])
    /\ UNCHANGED <<hostVars, queueVars, workerVars>>

\* Another controller has cleaned up after a tenant that is being deleted.
DropOtherFinalizer(f) ==
    /\ Stored.exists
    /\ Stored.deleting
    /\ f \in Stored.finalizers
    /\ StoreByOthers(WithFinalizers(Stored, Stored.finalizers \ {f}))
    /\ UNCHANGED <<hostVars, queueVars, workerVars, spent>>

-----------------------------------------------------------------------------
LiveUids == IF Stored.exists THEN {Stored.uid} ELSE {}

HostStep ==
    /\ \/ \E o \in Children : \/ CollectGarbage(o, LiveUids)
                              \/ DrainNamespace(o)
                              \/ SyncCache(o)
       \/ FinishNamespace
       \/ \E d \in Deployments : StartPod(d) \/ PodReady(d)
    /\ UNCHANGED <<tenantVars, queueVars, workerVars, spent>>

PodFailure(d) ==
    /\ spent.failures < MaxFailures
    /\ spent' = [spent EXCEPT !.failures = @ + 1]
    /\ PodFails(d)
    /\ UNCHANGED <<tenantVars, queueVars, workerVars>>

PodRecovery(d) ==
    /\ PodRecovers(d)
    /\ UNCHANGED <<tenantVars, queueVars, workerVars, spent>>

OtherFinalizersDone == \E f \in OtherFinalizers : DropOtherFinalizer(f)

Next ==
    \/ Worker
    \/ Deliver \/ FireTimer \/ Resync \/ Crash
    \/ CreateTenant \/ DeleteTenant
    \/ \E f \in OtherFinalizers : AddOtherFinalizer(f)
    \/ OtherFinalizersDone
    \/ HostStep
    \/ \E d \in Deployments : PodFailure(d) \/ PodRecovery(d)

Spec == Init /\ [][Next]_vars

\* What the program and the cluster do for sure: a worker runs while there is
\* work, events and timers arrive, the host cluster's controllers run, and the
\* other controllers let go of a tenant that is being deleted.  Users,
\* failures, restarts and resyncs are not bound to happen.
Fairness ==
    /\ WF_vars(Worker)
    /\ WF_vars(Deliver)
    /\ WF_vars(FireTimer)
    /\ WF_vars(HostStep)
    /\ WF_vars(OtherFinalizersDone)

FairSpec == Spec /\ Fairness

-----------------------------------------------------------------------------
(* Properties *)

Building == pc \in {"get", "sign", "create", "check"}

\* While reconcileNormal creates objects for an incarnation of the tenant, that
\* incarnation is stored and holds the controller's finalizer, however stale
\* the read that the pass started from: "Add finalizer first if not exist to
\* avoid the race condition between init and delete".  A child is never created
\* for an owner that is gone or that may go before the controller has noticed.
FinalizerGuard ==
    Building => /\ Stored.exists
                /\ Stored.uid = tenant.uid
                /\ TenantFinalizer \in Stored.finalizers

\* The Provisioned condition that users see is only ever True while every object
\* of the control plane exists and belongs to this incarnation, through lost
\* answers, restarts between a create and the status patch, and stale reads.
ProvisionedMeansBuilt ==
    Stored.exists /\ IsTrue(Stored, "Provisioned")
        => \A o \in Children : owner[o] = Stored.uid

\* A kubeconfig and the server certificate that stand side by side come from
\* one CA: a retried reconcileSecret or reconcileKubeConfig never leaves a
\* client certificate that the tenant's API server does not trust.
KubeconfigsTrusted ==
    \A k \in Kubeconfigs :
        Exists(k) /\ Exists("server-cert") => ca[k] = ca["server-cert"]

\* Conditions are patched as a whole list, from a first read that may be older
\* than the object that is patched; all the same, no mixture of passes shows a
\* tenant as Ready that was never provisioned.
ReadyMeansProvisioned ==
    IsTrue(Stored, "Ready") => IsTrue(Stored, "Provisioned")

\* "wait for phase to be terminating": the finalizer goes only from a tenant
\* whose stored phase already says Terminating, and only while it is deleted.
AnnouncedBeforeRemoved ==
    [][ /\ TenantFinalizer \in Stored.finalizers
        /\ TenantFinalizer \notin Stored.finalizers'
        => Stored.deleting /\ Stored.phase = "Terminating" ]_vars

\* Nobody waits for what does not come: when the queue is empty, no timer is
\* pending and the informer is up to date, a tenant that exists is Ready and
\* says so.  The first steps of a tenant's life and of its deletion return with
\* nothing scheduled, and count on the event of their own patch.
Quiescent == pc = "idle" /\ ~queued /\ ~timer /\ Len(versions) = 1

NothingForgotten ==
    Quiescent /\ Stored.exists => /\ TenantFinalizer \in Stored.finalizers
                                  /\ ~Stored.deleting
                                  /\ IsTrue(Stored, "Ready")
                                  /\ Stored.phase = "Ready"
===============================================================================
