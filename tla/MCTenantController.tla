------------------------- MODULE MCTenantController -------------------------
(***************************************************************************)
(* What only model checking needs: the liveness properties of the tenant   *)
(* controller, and what comments and documents of the repository say that  *)
(* the controller does not do.                                             *)
(***************************************************************************)
EXTENDS LifecycleRefinement

Live == Stored.exists /\ ~Stored.deleting

\* A tenant that users leave alone ends up Ready, with its finalizer and with
\* every object of its control plane, whatever happened on the way: failed
\* requests, lost answers, a restart, a phase or a condition that a stale pass
\* overwrote.
Settled ==
    /\ TenantFinalizer \in Stored.finalizers
    /\ IsTrue(Stored, "Provisioned") /\ IsTrue(Stored, "Ready")
    /\ Stored.phase = "Ready"
    /\ \A o \in Children : owner[o] = Stored.uid

EventuallyReady == <>[]Live => <>[]Settled

\* A tenant whose deletion is requested goes: the two passes that it takes
\* (announce Terminating, then drop the finalizer) both come.
DeletionCompletes == Stored.exists /\ Stored.deleting ~> ~Stored.exists

\* After the last deletion nothing of the control plane stays behind, although
\* the controller deletes nothing itself: every object it created, by whichever
\* pass, has an owner reference that the garbage collector can follow.
NothingLeftBehind ==
    <>[](~Stored.exists) => <>[](\A o \in Children : ~Exists(o))

\* A bound: no pod is started (deployments stay at 0 of 0).
Unstarted == \A d \in Deployments : pods'[d] = "none"

UnstartedSpec == Init /\ [][Next /\ Unstarted]_vars

\* A bound: one of the two deployments stays at 0 of 0.
OneStarted == pods'["kube-controller-manager"] = "none"

\* FairSpec under that bound.
OneStartedSpec ==
    /\ Init /\ [][Next /\ OneStarted]_vars
    /\ WF_vars(Worker /\ OneStarted)
    /\ WF_vars(Deliver /\ OneStarted)
    /\ WF_vars(FireTimer /\ OneStarted)
    /\ WF_vars(HostStep /\ OneStarted)
    /\ WF_vars(OtherFinalizersDone /\ OneStarted)

\* Bounds for two incarnations: no pod is started, and of what a step may remove
\* from the host cluster the last built goes first.
Tidy ==
    /\ Unstarted
    /\ \A i \in 1..Len(Order) :
          Exists(Order[i]) /\ ~Exists(Order[i])'
              => \A j \in i+1..Len(Order) : owner[Order[j]] \in {Absent} \cup LiveUids

TidySpec == Init /\ [][Next /\ Tidy]_vars

-----------------------------------------------------------------------------
(* What the repository says and the code does not do.  Each is checked by a  *)
(* run that ends in a counterexample.                                        *)

\* "check if ready": the Ready condition says that the control plane's pods
\* run, as long as none of them has failed.
ReadyMeansRunning ==
    Stored.exists /\ IsTrue(Stored, "Ready") /\ spent.failures = 0
        => \A d \in Deployments : pods[d] = "ready"

\* "1. make sure that the namespace of the tenant exists, 2. provision it:
\* secret, kubeconfig, apiserver, controller-manager": a pass that has just
\* provisioned the tenant leaves every object in place as this incarnation's,
\* and none that the garbage collector is about to take.
ProvisioningBuilds ==
    pc = "check" /\ NeedsProvisioning(read)
        => \A o \in Children : owner[o] = tenant.uid

=============================================================================
