-------------------------- MODULE LifecycleRefinement --------------------------
(***************************************************************************)
(* The tenant controller implements TenantLifecycle: its stage is read off *)
(* the tenant as the API server stores it.                                 *)
(***************************************************************************)
EXTENDS FinalizerInvariant

StageOf(t) ==
    CASE ~t.exists                           -> "absent"
      [] t.exists /\ ~t.deleting /\ ~Own(t)  -> "new"
      [] t.exists /\ ~t.deleting /\ Own(t)   -> "held"
      [] t.exists /\ t.deleting /\ Own(t)    -> "going"
      [] t.exists /\ t.deleting /\ ~Own(t)   -> "released"

Lifecycle == INSTANCE TenantLifecycle
    WITH Objects <- Children, uid <- Stored.uid, stage <- StageOf(Stored), owner <- owner

\* Every step of the controller, of the API server and of the host cluster is a
\* step of a tenant's life or changes nothing of it: through stale reads, lost
\* answers and restarts the finalizer never goes before deletion was asked for,
\* and no object is built for an incarnation that does not hold it.
LifecycleKept == Lifecycle!Spec

\* Moreover the steps that a tenant's life waits for come: the controller
\* adopts it, lets it go, and everything built for it is collected.
LifecycleMovesOn == Lifecycle!FairSpec

\* No object carries the uid of an incarnation before that incarnation has the
\* controller's finalizer, whatever an earlier one of the same name left behind
\* and however late a pass that saw it ends.
NothingBeforeAdoption == Lifecycle!NothingBeforeAdoption

\* A namespace that is being terminated belongs to an incarnation that is gone,
\* and no object to one that is still to come.
HostOK ==
    /\ \A o \in Children : owner[o] = Absent \/ owner[o] \in 1..Stored.uid
    /\ terminating => /\ owner["namespace"] # Absent
                      /\ owner["namespace"] \notin LiveUids
===============================================================================
