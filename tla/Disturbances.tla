----------------------------- MODULE Disturbances -----------------------------
(***************************************************************************)
(* What else may happen to a tenant's control plane: the manager loses or  *)
(* hands over its leadership while a request of its last pass is on its    *)
(* way (LeaderElectionReleaseOnCancel), so that the request reaches the    *)
(* API server when the successor is already at work; and somebody deletes  *)
(* an object of the control plane by hand.                                 *)
(*                                                                         *)
(* A bound: what remains of the process that is left is at most the one    *)
(* request that its worker was waiting for.  A manager whose lease is lost *)
(* or whose grace period is over releases it before its process ends (see  *)
(* Manager), and its worker may make more requests meanwhile.              *)
(***************************************************************************)
EXTENDS LifecycleRefinement

CONSTANTS
    ByHand,       \* objects that somebody deletes by hand
    MaxManual     \* bound: how many times

ASSUME ManualAssumption == ByHand \subseteq Children /\ MaxManual \in Nat

VARIABLES
    late,     \* the request under way: what its worker held when it was sent
    manual    \* how many objects were deleted by hand

dvars == <<vars, late, manual>>

NoRequest == [verb |-> "none", child |-> "namespace", mem |-> Gone(0),
              before |-> Gone(0), signer |-> 0, rv |-> "none"]

\* The API server has not seen it yet.
UnderWay == late.verb # "none"

Requests ==
    [verb : {"none", "create", "patch", "status"}, child : Children, mem : Tenant,
     before : Tenant, signer : CAs \cup {0}, rv : {"none", "same", "moved"}]

DisturbancesTypeOK == TypeOK /\ late \in Requests /\ manual \in 0..MaxManual

DInit == Init /\ late = NoRequest /\ manual = 0

-----------------------------------------------------------------------------
\* Mutant of Request: reads count as requests under way.
RequestOfAnyStep ==
    [verb |-> pc, child |-> Child, mem |-> tenant, before |-> before,
     signer |-> signer, rv |-> rv]

\* The request that the worker is about to make, or has made unanswered.
Request ==
    IF pc \in {"create", "patch", "status"}
    THEN [verb |-> pc, child |-> Child, mem |-> tenant, before |-> before,
          signer |-> signer, rv |-> rv]
    ELSE NoRequest

\* The successor takes over; the request may have been lost as well.
HandOver ==
    /\ ~UnderWay
    /\ Crash
    /\ late' \in {NoRequest, Request}
    /\ UNCHANGED manual

\* A write of the tenant overtakes the request.
Overtake ==
    /\ late' = IF late.rv = "same" /\ Stored' # Stored
               THEN [late EXCEPT !.rv = "moved"]
               ELSE late
    /\ UNCHANGED manual

\* Everything else goes on.
Ordinary == Next /\ spent'.crashes = spent.crashes /\ Overtake

Arrived ==
    /\ late' = NoRequest
    /\ UNCHANGED <<queueVars, workerVars, spent, manual>>

\* Mutant of LateCreate: the object that is there is replaced.
LateCreateReplaces ==
    /\ late.verb = "create"
    /\ late.child # "namespace" => Exists("namespace") /\ ~terminating
    /\ CreateObject(late.child, late.mem.uid,
                    IF late.child = "server-cert" THEN FreshCA ELSE late.signer)
    /\ UNCHANGED tenantVars
    /\ Arrived

LateCreate ==
    /\ late.verb = "create"
    /\ CanCreate(late.child)
    /\ CreateObject(late.child, late.mem.uid,
                    IF late.child = "server-cert" THEN FreshCA ELSE late.signer)
    /\ UNCHANGED tenantVars
    /\ Arrived

LateMetadata ==
    /\ late.verb = "patch"
    /\ Stored.exists
    /\ Stored.deleting => late.mem.finalizers \subseteq Stored.finalizers
    /\ StoreByOthers(WithFinalizers(Stored, late.mem.finalizers))
    /\ UNCHANGED hostVars
    /\ Arrived

LateStatus ==
    /\ late.verb = "status"
    /\ Stored.exists
    /\ late.rv # "moved"
    /\ StoreByOthers(StatusPatched(Stored, late.before, late.mem))
    /\ UNCHANGED hostVars
    /\ Arrived

LateRefused ==
    /\ \/ late.verb = "create" /\ ~CanCreate(late.child)
       \/ late.verb = "patch" /\ \/ ~Stored.exists
                                 \/ Stored.deleting /\ ~(late.mem.finalizers \subseteq Stored.finalizers)
       \/ late.verb = "status" /\ (~Stored.exists \/ late.rv = "moved")
    /\ UNCHANGED <<hostVars, tenantVars>>
    /\ Arrived

LateArrives == LateCreate \/ LateMetadata \/ LateStatus \/ LateRefused

\* A namespace goes with everything in it.
DeleteByHand(o) ==
    /\ manual < MaxManual
    /\ manual' = manual + 1
    /\ Exists(o)
    /\ IF o = "namespace"
       THEN terminating' = TRUE /\ UNCHANGED <<owner, ca, pods>>
       ELSE Remove(o) /\ UNCHANGED terminating
    /\ UNCHANGED <<cached, tenantVars, queueVars, workerVars, spent, late>>

DNext ==
    \/ Ordinary
    \/ HandOver
    \/ LateArrives
    \/ \E o \in ByHand : DeleteByHand(o)

DSpec == DInit /\ [][DNext]_dvars

\* As in TenantController; a request that is under way arrives.
DFairness ==
    /\ WF_dvars(Worker /\ Overtake)
    /\ WF_dvars(Deliver /\ Overtake)
    /\ WF_dvars(FireTimer /\ Overtake)
    /\ WF_dvars(HostStep /\ Overtake)
    /\ WF_dvars(OtherFinalizersDone /\ Overtake)
    /\ WF_dvars(LateArrives)

DFairSpec == DSpec /\ DFairness

-----------------------------------------------------------------------------
\* While the tenant exists, a kubeconfig and the server certificate that stand
\* side by side come from one CA, also when the former leader's create is the
\* one that gets through.  (After the tenant is gone a late create can put a new
\* server certificate beside old kubeconfigs; all of them are then collected.)
TrustedWhileAlive == Stored.exists => KubeconfigsTrusted
===============================================================================
