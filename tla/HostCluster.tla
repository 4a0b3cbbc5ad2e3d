------------------------------ MODULE HostCluster ------------------------------
(***************************************************************************)
(* The host cluster's side of one tenant: the namespace "tenant-<name>"    *)
(* and the objects the controller creates in it, as the API server keeps   *)
(* them, with what the cluster does to them on its own: the garbage        *)
(* collector follows owner references, a terminating namespace is drained, *)
(* deployments start pods, pods become ready and fail, the informers of    *)
(* the manager's cached client follow.                                     *)
(*                                                                         *)
(* None of this is code of the repository; it is what src/ relies on.      *)
(***************************************************************************)
EXTENDS TenantStatus, Sequences

\* The objects in the order in which reconcileNormal ensures them.
Order == <<"namespace", "server-cert", "kubeconfig-admin",
           "kubeconfig-controller-manager", "kube-apiserver",
           "kube-apiserver-service", "kube-controller-manager">>

Children == {Order[i] : i \in 1..Len(Order)}

Secrets     == {"server-cert", "kubeconfig-admin", "kubeconfig-controller-manager"}
Kubeconfigs == Secrets \ {"server-cert"}
Deployments == {"kube-apiserver", "kube-controller-manager"}

\* The manager's client reads secrets and deployments from the API server
\* (ClientDisableCacheFor) and everything else from an informer's cache.
CachedChildren == {"namespace", "kube-apiserver-service"}

\* The secrets that a deployment's pod mounts.
Mounts(d) == IF d = "kube-apiserver"
             THEN {"server-cert"}
             ELSE {"server-cert", "kubeconfig-controller-manager"}

\* Values of owner for no object, and for an object without owner reference.
Absent  == 0
Unowned == -1

\* Identities of CA key pairs: one for each secret, one in memory, one fresh.
CAs == 1..5

VARIABLES
    owner,        \* uid in the object's owner reference; Absent: no such object
    ca,           \* the CA that a secret holds, or that signed its client certificate
    terminating,  \* the namespace has a deletion timestamp
    pods,         \* a deployment's pod; see Replicas and ReadyReplicas
    cached        \* the cached children that the informers show as existing

hostVars == <<owner, ca, terminating, pods, cached>>

HostTypeOK ==
    /\ owner \in [Children -> Unowned..MaxUid]
    /\ ca \in [Secrets -> CAs \cup {0}]
    /\ terminating \in BOOLEAN
    /\ pods \in [Deployments -> {"none", "starting", "ready", "failed"}]
    /\ cached \in SUBSET CachedChildren

HostInit ==
    /\ owner = [o \in Children |-> Absent]
    /\ ca = [s \in Secrets |-> 0]
    /\ terminating = FALSE
    /\ pods = [d \in Deployments |-> "none"]
    /\ cached = {}

Exists(o) == owner[o] # Absent

\* The status of a deployment (spec.replicas is 1): 0/0 until its controller
\* has seen it, then 1/0, and 1/1 once the pod has passed its probes.
Replicas(d)      == IF pods[d] = "none" THEN 0 ELSE 1
ReadyReplicas(d) == IF pods[d] = "ready" THEN 1 ELSE 0

\* What a Get through the manager's client answers.
Visible(o) == IF o \in CachedChildren THEN o \in cached ELSE Exists(o)

-----------------------------------------------------------------------------
(* Requests of the controller *)

\* Otherwise the create is refused: AlreadyExists; the namespace is not
\* found; or Forbidden because it is being terminated.
CanCreate(o) ==
    /\ ~Exists(o)
    /\ o # "namespace" => Exists("namespace") /\ ~terminating

CreateObject(o, uid, c) ==
    /\ owner' = [owner EXCEPT ![o] = uid]
    /\ ca' = IF o \in Secrets THEN [ca EXCEPT ![o] = c] ELSE ca
    /\ UNCHANGED <<terminating, pods, cached>>

-----------------------------------------------------------------------------
(* What the host cluster does on its own *)

Remove(o) ==
    /\ owner' = [owner EXCEPT ![o] = Absent]
    /\ ca' = IF o \in Secrets THEN [ca EXCEPT ![o] = 0] ELSE ca
    /\ pods' = IF o \in Deployments THEN [pods EXCEPT ![o] = "none"] ELSE pods

\* The garbage collector deletes an object whose owner is gone.
CollectGarbage(o, liveUids) ==
    /\ owner[o] \notin {Absent, Unowned} \cup liveUids
    /\ IF o = "namespace"
       THEN /\ ~terminating
            /\ terminating' = TRUE
            /\ UNCHANGED <<owner, ca, pods>>
       ELSE Remove(o) /\ UNCHANGED terminating
    /\ UNCHANGED cached

\* A terminating namespace: its objects are deleted, then it is.
DrainNamespace(o) ==
    /\ terminating
    /\ o # "namespace"
    /\ Exists(o)
    /\ Remove(o)
    /\ UNCHANGED <<terminating, cached>>

FinishNamespace ==
    /\ terminating
    /\ \A o \in Children \ {"namespace"} : ~Exists(o)
    /\ Remove("namespace")
    /\ terminating' = FALSE
    /\ UNCHANGED cached

SyncCache(o) ==
    /\ o \in CachedChildren
    /\ (o \in cached) # Exists(o)
    /\ cached' = IF Exists(o) THEN cached \cup {o} ELSE cached \ {o}
    /\ UNCHANGED <<owner, ca, terminating, pods>>

\* The deployment controller observes the deployment and creates its pod.
StartPod(d) ==
    /\ Exists(d)
    /\ pods[d] = "none"
    /\ pods' = [pods EXCEPT ![d] = "starting"]
    /\ UNCHANGED <<owner, ca, terminating, cached>>

\* The pod passes its probes; it only starts with its secrets mounted.
PodReady(d) ==
    /\ pods[d] = "starting"
    /\ \A s \in Mounts(d) : Exists(s)
    /\ pods' = [pods EXCEPT ![d] = "ready"]
    /\ UNCHANGED <<owner, ca, terminating, cached>>

PodFails(d) ==
    /\ pods[d] = "ready"
    /\ pods' = [pods EXCEPT ![d] = "failed"]
    /\ UNCHANGED <<owner, ca, terminating, cached>>

\* The kubelet restarts it, which helps or not.
PodRecovers(d) ==
    /\ pods[d] = "failed"
    /\ pods' = [pods EXCEPT ![d] = "ready"]
    /\ UNCHANGED <<owner, ca, terminating, cached>>

\* A restarted manager lists everything before it serves reads; like the tenants'
\* list, each one may be as old as what its predecessor's informer showed.
RelistChildren ==
    /\ \E current \in SUBSET CachedChildren :
          cached' = (cached \ current) \cup {o \in current : Exists(o)}
    /\ UNCHANGED <<owner, ca, terminating, pods>>
===============================================================================
