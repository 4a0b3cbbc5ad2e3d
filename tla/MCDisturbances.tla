---------------------------- MODULE MCDisturbances ----------------------------
(***************************************************************************)
(* What a tenant keeps when a request of the former leader arrives late,   *)
(* and when somebody deletes an object by hand.                            *)
(***************************************************************************)
EXTENDS Disturbances, MCTenantController

\* A bound: nobody deletes the tenant after a pod has failed.
KeptWhenFailed == spent'.failures > 0 => Live'

HandOverSpec == DInit /\ [][DNext /\ OneStarted /\ KeptWhenFailed]_dvars

\* A bound: an object is deleted by hand where nothing else goes wrong and no
\* pod has been started.
Calm ==
    /\ OneStarted
    /\ manual' > 0 => Unstarted /\ spent'.crashes = 0 /\ spent'.faults = 0

\* DFairSpec under that bound.
CalmSpec ==
    /\ DInit /\ [][DNext /\ Calm]_dvars
    /\ WF_dvars(Worker /\ Overtake /\ Calm)
    /\ WF_dvars(Deliver /\ Overtake /\ Calm)
    /\ WF_dvars(FireTimer /\ Overtake /\ Calm)
    /\ WF_dvars(HostStep /\ Overtake /\ Calm)
    /\ WF_dvars(LateArrives /\ Calm)

\* A tenant that nobody deletes becomes Ready and stays so, whatever requests
\* fail, answers are lost and late requests of a former leader do, as long as
\* its control plane is left alone.
ReadyIfLeftAlone == [](manual = 0) => EventuallyReady

\* "ensure namespace": every pass over a tenant that is not being deleted comes
\* by the namespace, so that one deleted by hand is there again in the end, once
\* it has been drained, whatever the informer still showed of it.  No event
\* tells of the deletion; the ten-hourly resync brings the pass.
NamespaceRestored ==
    []<><<Resync /\ Overtake>>_dvars
        => (<>[]Live => <>[](Exists("namespace") /\ ~terminating))
===============================================================================
