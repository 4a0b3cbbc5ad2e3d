# Verification of the multi-tenants manager

The manager (`src/cmd/manager`, `src/pkg/controllers`) watches the cluster-scoped
`Tenant` resource on a host cluster and builds, for each tenant, a Kubernetes control
plane in the namespace `tenant-<name>`: a secret with certificates, two kubeconfigs,
a kube-apiserver deployment with a service, and a kube-controller-manager deployment.
Deleting the tenant removes the controller's finalizer, and the host cluster's garbage
collector removes the rest by owner references.

This directory holds TLA+ modules that model the program, TLC configurations that
check them on small instances, and proofs that TLAPS checks.

## Inventory of the system

| Part | State it keeps | Operations | Interacts with |
| --- | --- | --- | --- |
| Tenant reconciler (`tenant_controller.go`, `tenant_controller_phase.go`) | nothing between passes; within a pass the first read of the tenant, changed in memory | `Reconcile`, `reconcileNormal`, `reconcileDelete`, four provisioning phases, `checkDeploy`, the deferred status patch | reads tenants, namespaces and services from a cache, secrets and deployments from the API server; creates objects; patches the tenant |
| Client helpers (`controllerutil.go`) | none | `CreateIfNotExists`, `PatchIfExists` (two requests), `UpdateIfExists` (unused) | API server |
| Conditions (`pkg/conditions`) | the condition list of a tenant | `Set`, `MarkTrue/False/Unknown`, `Delete`, getters | in-memory tenant |
| Tenant API (`pkg/apis/tenancy/v1alpha1`) | finalizers, deletion timestamp, `status.phase`, `status.conditions` | accessors | stored by the API server |
| Work queue and informer (controller-runtime) | queue, delayed adds, cache | deliver events, back-off, resync every 10 h | one worker per key |
| Manager (`cmd/manager/app`) | options; the etcd secret read once | start, leader election, restart | everything above |
| Certificates and kubeconfig (`pkg/secret`, `pkg/kubeconfig`) | none | new CA, signed pairs, PEM, kubeconfig | called in the mutate functions |
| Host cluster (external) | tenant and child objects | garbage collector, namespace and deployment controllers, kubelet | |
| Users and other controllers (external) | | create, delete, add and drop finalizers | the stored tenant |

What is hard about it:

* **Stale reads.** A pass decides on a cached tenant and, in its deferred function,
  reads the cache a second time and overwrites what it finds with what it had.
* **Two patches, by name.** Finalizers and status are patched in two requests. A status
  patch that follows a metadata patch carries the resourceVersion of the answer and can
  conflict; one that stands alone is unconditional and reaches any incarnation.
* **Wake-ups.** Adding the finalizer and announcing `Terminating` return with nothing
  scheduled and count on the watch event of the pass's own patch.
* **Failures.** Any request can fail, or be applied with its answer lost; a restart can
  come between any two requests. Nothing but the tenant's status remembers progress.
* **Deletion without deleting.** The controller never deletes anything; owner references
  and the order of finalizer and creations have to make that safe.
* **Re-creation.** The namespace and the objects have names, not uids.

* **Two managers.** The lease changes hands while a request of the former leader may
  still be on its way. The command line's durations decide whether two can lead, and a
  lost lease is released before the workers of its leader have ended.
* **Shared state between tenants.** Workers of one manager share the queue and the etcd
  certificates; names of tenants and namespaces overlap (`a` and `tenant-a`).

What makes each part correct:

* reconciler: objects are created only for a tenant that is stored and holds the
  finalizer; `Provisioned` only shows a complete control plane; a tenant that stays
  becomes Ready; one that is deleted goes, announced first; nothing is left behind;
* client helpers: a retry after a lost answer keeps one generation of key material; a
  patch changes only what the pass changed;
* conditions and phase: the list behaves as a map, sorted, and what is marked again keeps
  its time; Ready is never shown without Provisioned;
* queue: nobody waits for an event that does not come; no two workers are at one tenant;
* manager: one leader where the durations leave a gap, work handed over and not shared in
  a rolling update, and a leader in the end;
* certificates and kubeconfigs: what is mounted is complete and fits together; a tenant's
  kubeconfigs open its own control plane and no other.

## Modules

* `TenantStatus`: the tenant record and the pure functions on it. `Mark` is
  `conditions.Set`, `PhaseOf`/`ReconcilePhase` is `reconcilePhase`, `MetadataDiffers`,
  `StatusDiffers` and `StatusPatched` are the merge patches of `PatchIfExists`
  (a list is replaced whole, phase and conditions only if they differ between the second
  read and the object that the callback overwrote). A record with `exists = FALSE`
  keeps the last uid, so uids grow.
* `HostCluster`: the child objects with owner uid and CA, namespace termination, garbage
  collection, pods, and the lagging cache for namespace and service. This is what `src/`
  relies on; the only choice of the repository in it is which kinds are read from the
  cache (`ClientDisableCacheFor`).
* `TenantController`: the reconciler, the work queue, the informer, restarts, users and
  other controllers.
* `FinalizerInvariant`: the inductive invariant behind `FinalizerGuard`.
* `TenantLifecycle`: the abstract specification. A tenant is new, held, going, released
  or absent; objects are built for an incarnation that is held or going, and collected
  when their incarnation, or that of their namespace, is gone. No queue, no cache, no
  passes, no patches.
* `LifecycleRefinement`: the mapping (`StageOf` reads the stage off the stored tenant) and
  `LifecycleKept`, the statement that TenantController implements TenantLifecycle.
* `Disturbances`: TenantController with a former leader's last request that arrives late,
  and with objects deleted by hand. Extends LifecycleRefinement.
* `Conditions`, `ConditionMap`: the list of conditions of `pkg/conditions` as it is
  searched, changed in place, appended to and sorted; the map that it implements, whose
  `Marked` is TenantStatus's `Mark`. This is what makes the map in TenantController sound.
* `Credentials`: several tenants, several workers of one manager, the work queue, the
  secrets, kubeconfigs and deployments by content: which key is certified under which
  name and signed by which.
* `Manager`: the process from its command line to its end, and several of them electing a
  leader with the durations of the options.
* `MCTenantController`, `MCDisturbances`, `MCCredentials`, `MCConditions`, `MCManager`:
  liveness properties, bounds on actions, small instances, and the statements of comments
  and documents that the code does not keep.
* `TenantControllerProofs`, `FinalizerProofs`, `StatusProofs`, `LifecycleProofs`,
  `DisturbancesProofs`, `ConditionsProofs`, `CredentialsProofs`, `ManagerProofs`: theorems.

### State and actions of TenantController

`versions` is the tenant's history from what the informer shows (`Shown`, its head) to
what is stored (`Stored`, its last element); a write appends, `Deliver` drops the head
and adds the key to the queue. `tenant` and `before` are the variables `tenant` of
`Reconcile` and the second read in `PatchIfExists`. `read` is the first read as it was;
the code does not keep it, and no guard uses it. `signer` is the CA in memory between
`parseCASecret` and the create, `rv` the resourceVersion in the status patch.

An action ends where the next access to shared state begins:

| Code | Actions |
| --- | --- |
| first `Get` and the branches on it, tenant_controller.go:61-111 | `ReconcileNotFound`, `ReconcileAddFinalizer`, `ReconcileDelete`, `ReconcileNormal` |
| `CreateIfNotExists` for the child `Order[step]` | `GetFound`, `GetNotFound`, `GetFails`; `ParseCASecret`, `ParseCASecretFails` (kubeconfigs); `Create`, `CreateFails` |
| `Provisioned` and the next child, tenant_controller.go:137-157 | `Ensured` and `FailStep`, parts of the actions above |
| `checkDeploy` | `CheckDeploy`, `CheckDeployFails` |
| deferred function, second `Get` | `Deferred`, `DeferredNotFound` |
| metadata patch, status patch | `PatchMetadata`, `PatchMetadataFails`, `PatchStatus`, `PatchStatusFails` |

A failing request is the second way out of these actions (`Fault`): it is refused by the
API server, never arrives, or is applied and its answer is lost. `Return` ends a pass:
an error or RequeueAfter leaves a delayed add (`timer`).

Abstractions: one tenant name (passes for different names share only the queue, the
manager's memory and the host cluster's DNS: `Credentials`); owner references of the
tenant itself, reason, message and wording are left out (they are a function of type and
status); a secret's content is the CA it holds or was signed by; a deployment's pod is
one of none, starting, ready, failed, from which `status.replicas` and
`status.readyReplicas` follow. A condition list is a map from type to status and time
stamp (`Conditions`).

A restart (`Crash`) may begin from lists that are older than what is stored: the reflector
lists with resourceVersion 0, which the API server answers from its watch cache. This
goes for the tenant and for each cached child. The models assume that no such list is
older than what the predecessor's informer had shown; that is an assumption about the
host cluster, where another API server's watch cache could be further behind.

### State and actions of the other modules

`Disturbances` adds `late`, the request that a former leader's worker was waiting for:
what it held when it sent it. `HandOver` is a `Crash` that leaves it under way;
`LateCreate`, `LateMetadata`, `LateStatus` are the bodies of `CreateIfNotExists` and
`PatchIfExists` with the old memory on the new state, `LateRefused` the answers of the
API server that nobody reads. `rv` of the request becomes `moved` when the tenant is
written meanwhile. `DeleteByHand` removes an object, or starts to terminate the namespace.
One late request is the bound: a manager that has released a lost lease can make more
of them until its process has ended.

`Credentials`: a worker's `step` walks through the phases of `reconcileNormal`:
`ReconcileSecret` (reconcileSecret with its ten certificates and keys and the copy of the
etcd secret), `ParseCASecret` and `ReconcileKubeConfig` (parseCASecret, then
reconcileKubeConfig with `NewWithSecret`), `Deploy`. A pass that cannot decode or sign
ends in `Fails`, and the key backs off. So it does after a request that fails
(`RequestFails`) or is served without the answer coming back (the last case of `Advance`),
also the status patch. `Add`, `Take`, `Done` are client-go's queue. `EditCA` replaces a
tenant's `ca.crt` and `ca.key`, together or one of them: by another authority, by the pair
`apiserver.crt` and `apiserver.key` of the same secret, by something unreadable, by nothing.
`StartManager` reads the etcd secret into `manager`, which is what later secrets get.
Names are sequences of the parts between hyphens, so that the namespace of `a` is the name
of `tenant-a`. A host `kube-apiserver.<ns>.svc` is the service and its namespace.
Namespace, services and reads through the cache are TenantController's.

`Manager`: `Launch` is `Validate`, `ReadEtcdSecret` the split of `--etcd-secret` and the
read, `StartManager` the election's own checks of the durations. `proc` is what a process
is at, `election` what its elector is at, which outlives the workers in an orderly stop
and is outlived by them when the lease is lost. Of client-go's elector:

* `Acquire` and `Observe` are a candidate's attempts; it waits `LeaseDuration` from when it
  has seen the lease change.
* `Renew`, `RenewRefused` and `RenewFails` are a leader's attempts, one every `RetryPeriod`.
  The first after a success begins a round, `RetryPeriod` later, and the round has
  `RenewDeadline`: a leader that cannot renew goes on for both after its last answer.
* An answer may come late (`Answered`, within `MaxAnswer`) or never. The lease is then
  written without its writer knowing, and its next write is refused until it has read
  the lease again (`fresh`).
* `Lose` ends a round that has had no success. `Release` follows, because of
  `LeaderElectionReleaseOnCancel`, whenever the elector leaves its loop; only then does
  the process end (`ProcessEnds`). The workers run on in between.

`Signal` begins a stop: workers end (`WorkersEnd`), or the grace period of 30 seconds does
(`GraceOver`); then the election is cancelled (`CancelElection`), the lease released, and
the process ends. Time is a `Tick` on the clocks of those who wait; a tick never passes
what is due. So all clocks run at one rate, and no process is paused past a deadline.

## Runs

Deadlock is no error where a run ends: after the last incarnation is gone and collected,
after all tenants are provisioned, after a command line has been refused.

| Run | Module | Question | Result |
| --- | --- | --- | --- |
| `restarts` | MCTenantController | types, `FinalizerGuard` and the invariant behind it, `ProvisionedMeansBuilt`, `KubeconfigsTrusted`, `NothingForgotten`, `AnnouncedBeforeRemoved`: one failed or unanswered request, one restart anywhere (onto a stale list), an informer up to two writes behind, another controller's finalizer | holds |
| `kept` | MCDisturbances | a tenant nobody deletes becomes Ready and stays so, with a failed request, and a leader that changes with its last request under way; a namespace deleted by hand is there again | holds |
| `deleted` | MCTenantController | deletion completes, nothing is left behind, the steps that the abstract lifecycle waits for come; condition times differ | holds |
| `lifecycle` | MCTenantController | with two incarnations, every step is one of `TenantLifecycle`; `HostOK`; nothing is built before adoption | holds |
| `handover` | MCDisturbances | the safety properties while a late create or patch of the former leader arrives anywhere in the life of the tenant, and a pod fails | holds |
| `tenants` | MCCredentials | two tenants, two workers, a restart, a failed or unanswered request, rotated etcd certificates: `OneWorkerPerTenant`, `PodsCanStart`, `OwnControlPlaneOnly` | holds |
| `edited` | MCCredentials | an administrator replaces or breaks a tenant's CA: `SignedByWhatItTrusts`, each kubeconfig contains the certificate whose key has signed it; the other tenant is provisioned | holds |
| `conditions` | MCConditions | the list behaves as the map, and is sorted | holds |
| `managers` | MCManager | two managers, twelve command lines, requests for the lease that fail or are answered late or never, deaths, signals, a grace period that is too short. `OneLeader`: one elected manager, if the durations leave a gap or nothing fails. `HandedOver`: one at work, if nothing fails and workers end in time. `SomebodyWorks`: a leader in the end | holds |
| `claim_ready` | MCTenantController | Ready means that pods run | fails |
| `claim_recreated` | MCTenantController | provisioning builds this incarnation's objects | fails |
| `claim_endpoint` | MCCredentials | the kubeconfig names the tenant's own service | fails |

What the failing ones show:

* `claim_ready`: a deployment that was just created has status 0/0, which
  `Replicas != ReadyReplicas` takes for ready. The pass that creates both deployments
  reports Ready.
* `claim_recreated`: delete a tenant and create it again before the garbage collector
  has run. `CreateIfNotExists` finds the predecessor's objects; the new tenant is marked
  Provisioned; the objects go; Provisioned keeps the controller from creating them.
* `claim_endpoint`: the service is created in `tenant-<name>` (`ClusterNamespaceInHost`);
  kubeconfigs and the server certificate name `kube-apiserver.<name>.svc`. With the
  tenants `a` and `tenant-a`, the kubeconfigs of `tenant-a` lead to the service of `a`
  (whose CA they do not trust: `OwnControlPlaneOnly`).

### Observations

Met while modelling, and not kept as runs. The first seven were seen as counterexamples
of TLC, from the models as they are.

* A status patch goes by name, so that a pass that read a deleted incarnation gives the
  next one its phase: `Stored.phase = "Terminating" => Stored.deleting` fails in
  `lifecycle`. The same way a new tenant can get `Provisioned` and `Ready` with nothing
  built, which is why `ProvisionedMeansBuilt` is stated for one incarnation.
* A finalizer that another controller adds between the two reads of a pass is not in the
  list that the pass patches, and is removed from a tenant that is not being deleted.
* No Deployment is watched and no code sets Ready to False: a pod that stays down leaves
  Ready True through all resyncs.
* A late metadata patch of a former leader that releases a deleted incarnation also takes
  the finalizer from the next one: `FinalizerGuard` fails in `handover` with `MaxUid = 2`.
  A late status patch may put an old phase over Terminating between the announcement and
  the removal, so `AnnouncedBeforeRemoved` is checked in `restarts` and not in `handover`.
* Once Provisioned, only the namespace is ensured again. A service, secret or deployment
  that is deleted by hand stays away, and a namespace that comes back comes back empty.
* The workers of two managers can run at once (`Cardinality(AtWork) <= 1` fails in
  `managers` without one of its premises). A manager that cannot renew releases the lease
  before its process ends, if only the release gets through; when the grace period of a
  stop is over, the lease is released whether workers have ended or not; and durations
  such as 15, 13 and 3 seconds, which `Validate` and the elector accept, let a candidate
  take the lease over from a leader that is still in its round. `OneLeader` without `Gap`
  fails by the last of these.
* `parseCASecret` and `NewCertAndKey` do not ask whether the certificate in `ca.crt` is an
  authority's: with the pair of `apiserver.crt` in its place, kubeconfigs are signed that
  no verifier accepts (`SignedByWhatItTrusts` with `Verifies` for `SignedBy` fails in
  `edited`).
* docs/tenant.md:41,44 gives the certificates `ca` and `front-proxy-ca` the common names
  `kcp` and `front-proxy-ca`; `newSelfSignedCACert` overwrites both with `ca`.
* The markers in `pkg/controllers/doc.go` (and so `role.yaml`) grant events, leases
  (get, create) and tenants; the manager also gets the etcd secret at start, updates
  leases, and reads and creates namespaces, services, secrets and deployments.
* A rotated etcd secret reaches no tenant that exists, and none that the running process
  creates later.

### Bounds, and why they are enough

* `MaxUid`: one incarnation where the property speaks of one life, two where re-creation
  matters; a third meets no state of a pass that the second does not.
* `MaxLag`: the stored tenant and one or two older versions. A pass makes two writes, so
  three versions let a pass start before both writes of its predecessor.
* `MaxFaults` (but for Manager), `MaxCrashes`: one; it can hit any request of any pass.
* `MaxMeddling`, `MaxFailures`, `MaxManual`: one; the code has no counter that a second
  would move.
* `MaxDeletions`: the incarnations users may delete; 0 where the premise is that nobody
  does.
* `Times`: two readings (`deleted`) let a repeated condition have a new time stamp or the
  same one.
* `Unstarted`, `OneStarted`: no pod, or those of one deployment only, are started, in runs
  whose properties are about other things than pods; the Ready check treats the two
  deployments alike. `Tidy` makes the garbage collector take the last built object first,
  which leaves every object's fate in reach and drops the orders. `Calm` keeps the
  deletion by hand of `kept` apart from its restart and its failed request.
  `KeptWhenFailed`: in `handover`, nobody deletes the tenant once a pod has failed.
* `Names`, `Workers`: two of each; `{"a", "tenant-a"}` are the names that can be taken for
  one another. `edited` has one worker, which is the hard case for its liveness property:
  a tenant that fails for ever must not keep it.
* `OptionSets`: durations that leave a gap like the default ones (6, 3 and 1 ticks for 15,
  10 and 3 seconds) and accepted ones that do not, each duration at, above and below what
  the elector accepts, the forms of `--etcd-secret`, no election, no etcd servers.
* `MaxAnswer`: one tick, a late answer. In `Manager`, `MaxFaults` is two: a
  request that is never answered takes up a whole round, and a second one fails the
  release or the other manager. `MaxStops` is two, one for each process, `MaxOvertimes` one.
* `MaxRotations`, `MaxRestarts`, `MaxEdits`: one or two, each anywhere.

### Fairness

`Fairness` in TenantController is weak fairness of the worker (controller-runtime runs it
while the queue holds the key), of `Deliver` (watch), of `FireTimer` (delayed adds), of
the host cluster's own controllers taken together, and of other controllers letting go of
a tenant that is being deleted. Users, failures, restarts and recovery of a failed pod
are not fair, nor are resyncs: `EventuallyReady` holds without them. `DFairness` adds that
a request under way arrives or is refused. `OneStartedSpec` and `CalmSpec` are the same
fairness over the bounded actions, so that a bound never takes away the only fair step.
`NamespaceRestored` has its own premise, that resyncs keep coming (controller-runtime's
default is every ten hours), since no event tells of the lost namespace.

In `Credentials` each worker takes keys and works (its own weak fairness, as goroutines
have), back-offs end, a manager that is down is started again and somebody creates the
etcd secret. In `Manager` each process goes on by itself, from `Launch` to `ProcessEnds`: it
is started again, tries for the lease, renews it, leaves its loop when a round is over;
after a signal the workers or the grace period end. Late answers arrive and time passes.
Signals, deaths and failing requests are not fair, and bounded.

## Proofs

`TypeCorrect` (TenantControllerProofs): `Spec => []TypeOK` for every value of the
constants that satisfies the named assumptions: `MaxUid`, the budgets and `MaxLag` are
naturals with room for one undelivered write, clock readings are positive, and the
controller's finalizer is nobody else's. `TypeOK` is inductive as it stands. The lemmas
say what the operators on tenants return, then that each building block of an action
(`Store`, `Fault`, `Return`, `Leave`, `FailStep`, `Ensured`, `CreateObject`, `Remove`)
keeps the types of what it changes; the cases follow the actors. The one step that is
more than typing is `FreshCAType`: three secrets and the worker's memory cannot use up
five CA identities, so the `CHOOSE` of a fresh one is never empty.

`FinalizerGuarded` (FinalizerProofs): `Spec => []FinalizerGuard`, for every lag of the
informer, every number of failures, lost answers and restarts, under the premise
`Undisturbed`: other controllers put no finalizers on tenants, or there is one
incarnation. `FinalizerGuard` is not inductive: the read that a pass starts from may be
older than the removal of the finalizer. `FinalizerInv` adds why that does no harm:

* `Ordered`: what the informer may still show only moves forward. Incarnations follow
  each other, deletion is final, and a tenant being deleted gets no new finalizers.
* `Kept`: a finalizer that some version shows is still stored on that incarnation, or
  the worker has seen its deletion. Only the worker removes it, and only after a read
  that says deleting; and what the worker reads never gets older, not even by a restart.
  So a pass that reads a tenant with the finalizer and without a deletion (the guard of
  `ReconcileNormal`) reads one whose finalizer is stored.
* `PassOK`, `ReadOK`, `BeforeOK`: what the worker's variables say of its two reads, up to
  the patch that depends on them.
* `OneAtATime`: no incarnation has the finalizer while an older one is still shown with
  it. The step to worry about is a pass over a deleted incarnation whose metadata patch
  writes the finalizer and reaches the next one. It can only write it if the second read
  differed from the first in the finalizers, while both have the controller's
  (`WritingBack`): without other controllers' finalizers there is no such difference,
  and with one incarnation there is no next one. This is the one use of `Undisturbed`.

The proof has a lemma for each kind of write (`HarmlessStore` for those that leave the
finalizer alone, `PatchMetadataFacts` for the one that does not), one for the end of a
pass (`PassEnds`), then one for each actor with a case for each action. It uses
`TypeCorrect`. Steps of `reconcileNormal` and of the host cluster change neither the
versions nor the tenant's finalizers, so the creations need no case of their own.

`AnnouncedBeforeFinalizerGoes` (FinalizerProofs), an action property, for one incarnation:
`Spec => AnnouncedBeforeRemoved`. That the patch writes to a tenant announced as
Terminating has to be concluded from a read that may be old. `AnnouncedInv` says that a
version that shows Terminating is being deleted, that the worker (`Eye`) has seen the
deletion, and that every later version of the incarnation shows it too; and that a pass
which drops the finalizer has read the announcement. A pass that began before the
deletion could write an older phase over Terminating; it cannot run any more, because
Terminating was written by the one worker, after it had read the deletion.

`LifecycleImplemented`, `HostAlwaysOK`, `NothingBuiltBeforeAdoption` (LifecycleProofs):
TenantController implements TenantLifecycle, for any number of incarnations and under
`Undisturbed`. `StepRefines` maps each action to a step of the tenant's life or to a
stutter; the invariants it needs are `FinalizerInv` (a create happens for an incarnation
that is held, a release for one that is going) and `HostOK` (whose objects may stand, and
whose namespace may be terminating). Cases follow the actors: a pass that writes objects
builds or finds, a patch of the finalizers adopts or releases, the collector collects.

`ReadyAlwaysProvisioned` (StatusProofs), without premises: `StatusInv` says that every
version of the tenant and the worker's copy have the two conditions in order, and that a
pass past its first phase marks what a pass may mark: a patch writes either the worker's
list or nothing of it, so no mixture arises.

`NothingEverForgotten` (StatusProofs), without premises: `NothingForgotten` speaks only of
idle states. `QueueInv` says of a pass that runs while nothing else is scheduled (`Calm`)
that it works on the stored tenant and ends with a timer, or with a patch that differs
from what is stored, which brings an event (`WriteIsSeen`), or with a tenant that is
settled.

`ProvisionedIsBuilt` and `KubeconfigsAlwaysTrusted` (LifecycleProofs), for one incarnation
(`OneIncarnation`; with two they fail, see above): `BuiltInv` says that what the cache
shows exists, that the objects before the worker's step exist, and that wherever
Provisioned is True, in the worker's copy or in any version, all objects stand;
`NothingCollected` is why they go on standing. `TrustInv` adds that a kubeconfig
presupposes `server-cert`, whose CA is the one in the worker's memory when it signs.

The theorems of DisturbancesProofs are about `DSpec`, where the last request of a former
leader arrives anywhere in its successor's pass. `LateStep` and `ByHandStep` say what the
new actions leave alone; the steps of TenantController reuse the step lemmas of the other
modules (`TypeStep`, `FinalizerStep`, `StatusStep`, `QueueStep`, `BuiltStep`).

* `DisturbancesTypeCorrect`, `ReadyAlwaysProvisionedDisturbed`, `NothingForgottenDisturbed`:
  no premise. A late patch is a list that a pass held, and is followed by its own event.
* `FinalizerGuardedFromTheFormerLeader`, for one incarnation. What a late patch could do
  is take the finalizer away under a pass that builds. `LateKnown`: if the patch under way
  lacks the finalizer, its sender had read the deletion, and what the successor reads is
  no older. `PassStarted`: a pass that builds began with a read that is not deleting.
* `ProvisionedIsBuiltDisturbed`, `TrustedWhileItExists`, for one incarnation and nothing
  deleted by hand. `LateOwned`, `LateBuilt` and `LateSigned` carry `HostOK`, `BuiltInv` and
  `TrustInv` over to the request under way. `TrustInv` is kept only while the tenant
  stands: after it is gone, a late create can put a new `server-cert` beside kubeconfigs
  that the collector has not taken yet.

CredentialsProofs, for any names, workers, failures, restarts and rotations:

* `CredentialsTypeCorrect`, `OneWorkerPerTenantHolds`, `AlwaysSignedByWhatItTrusts`,
  without premises. `QueueInv` relates queue, processing set and workers: a key that is being
  processed is one worker's, and goes to `dirty` when it is added again. `PastSteps` and
  `Mounted` say what exists when a worker has come to a step; keys are made in order, so
  that a new one is nobody's.
* `OwnControlPlaneAlways`, where nobody edits `server-cert` (`Unedited`: a kubeconfig that
  was there before an edit does not fit). `OwnCA`: the key of a tenant's CA is older than
  those to come and no other tenant's. `HeldFromSecret`: the CA that a worker has in
  memory is the stored one. `ConfsFromSecret`: the same of what a kubeconfig contains.
* `PodsCanAlwaysStart`, from the same invariant, where the etcd secret has the three files
  that the deployments mount (`EtcdSecretComplete`: the code copies what it finds there).

ConditionsProofs, for any types and any sequence of calls:

* `ConditionsTypeCorrect` and `ConditionsAlwaysSorted`, without premises. `sort.Slice` is
  modelled as a choice among the orders of a list in which nothing is less than what comes
  before it; `SliceSorted` says what follows if there is one. There is one: what `Set`
  sorts is a list in order, changed in place (`InOrderAlready`), or one with a condition
  of a new type at its end, whose place is the first that it precedes (`Insertion`).
  `LoopFacts` is about the loop of `Delete`, by induction over its steps.
* `ListIsTheMap`: `Spec => BehavesAsMap`, where a type and a status determine the reason
  (`OneReason`, as in this controller; the map has no reasons). `SetFacts` and
  `WithoutFacts` say what each type's condition is afterwards.

`LeastNatural` (a set of naturals that is not empty has a least element) and `Induction`
are stated for sets, which the provers can instantiate.

`ManagerTypeCorrect`, `AtMostOneLeader` and `AlwaysHandedOver` (ManagerProofs), for any
number of managers, failures, deaths and stops, any command line with whole numbers for
durations and any `MaxAnswer`. `OneLeader` is not inductive: that nobody else takes the
lease follows from how long a leader can have gone without writing it. `ElectionInv` has

* for each manager (`Own`): who is started has a command line that `Validate` accepts
  (`Validated`), who stands for election durations that the elector accepts (`Configured`);
  a leader has written the lease at most `MaxAnswer` and its pause ago, or, in a round, at
  most `MaxAnswer`, `RetryPeriod` and what the round has lasted (`Timely`, with `Placed` for
  requests under way); without failures there are no rounds (`Faultless`), and who works is
  elected (`Orderly`);
* where `Gap` holds or nothing has failed (`Safe`): who leads, or is about to learn that it
  does, has its name on the lease (`Holds`), so that there are no two; and no candidate has
  waited for longer than the leader has not written the lease (`NotOverdue`).

`Durations` and `InTime` bound the time since a leader's last write by less than the lease
duration; `NobodyElse` concludes that no candidate's wait has ended. `AlwaysHandedOver`
then needs `Orderly`: without failures and with workers that end in time, whoever works is
still elected. Both rest on the model's assumption on clocks: they run at one rate, and no
process sleeps through what is due. What no duration can give, a single one at work while
renewals fail, is not claimed: see the observations.

Premises. `Undisturbed` excludes what the second observation describes, `OneIncarnation`
what the first and the fourth and `claim_recreated` do, `ByHand = {}` what the fifth does:
with them the theorems would be false. `Unedited` and `EtcdSecretComplete` are about administrators,
whom the code does not check. All constants keep only the assumptions named in the modules.

Only model-checked: the liveness properties of `kept`, `deleted`, `edited` and `managers`
(out of the prover's reach), and what the `claim_` runs refute.

## Not modelled

* `UpdateIfExists` and `NewWithToken`: called nowhere.
* Validity periods (ten years, nothing renews certificates) and the randomness of keys;
  probes, resource requests and arguments of the containers other than the files they name.
* Data in etcd: a tenant that is created again gets its predecessor's prefix, which only
  its API server reads, no code of this repository.
* Manifests, RBAC, the CRD schema, generated deep copies, build tooling, log flags: no
  state at run time.
* Several tenants in `TenantController`: their passes touch disjoint objects; what they
  share is in `Credentials`.

## Plan

What could be proved next: `NothingBeforeAdoption`, `HostOK` and the refinement of
`TenantLifecycle` with late requests, for one incarnation; and lemmas for liveness, that a
pass moves on through its steps in a bounded number of them.
