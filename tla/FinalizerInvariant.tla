-------------------------- MODULE FinalizerInvariant --------------------------
(***************************************************************************)
(* Why FinalizerGuard holds: the inductive invariant behind it.            *)
(*                                                                         *)
(* A pass that starts from an old read may find, in it, a finalizer that   *)
(* is long gone.  What saves it is that only the worker removes the        *)
(* finalizer, only after having read the deletion, and that what it reads  *)
(* never gets older.                                                       *)
(***************************************************************************)
EXTENDS TenantController

Own(t) == TenantFinalizer \in t.finalizers

\* b is a later version of the tenant than a, or the same: incarnations come
\* one after the other, one that is gone stays gone, deletion is final, and a
\* tenant that is being deleted gets no new finalizers.
Older(a, b) ==
    /\ a.uid <= b.uid
    /\ a.uid = b.uid /\ b.exists =>
         /\ a.exists
         /\ a.deleting => b.deleting /\ b.finalizers \subseteq a.finalizers

Versions == 1..Len(versions)

\* The worker's view: what it has read, or what it would read.
Eye == IF pc = "idle" THEN Shown ELSE read

Shaped == \A i \in Versions : /\ Own(versions[i]) => versions[i].exists
                              /\ versions[i].exists => versions[i].uid > 0

Ordered == \A i, j \in Versions : i <= j => Older(versions[i], versions[j])

\* A finalizer that some version shows is still stored, unless the worker has
\* seen that incarnation's deletion.
KeptBut(eye) ==
    \A i \in Versions :
        Own(versions[i]) =>
            \/ Stored.uid = versions[i].uid /\ Own(Stored)
            \/ eye.uid = versions[i].uid /\ eye.exists /\ eye.deleting

Kept == KeptBut(Eye)

\* No incarnation has the finalizer while an older one is still shown with it.
OneAtATime ==
    \A i, j \in Versions :
        Own(versions[i]) /\ versions[i].uid < versions[j].uid => ~Own(versions[j])

\* What the worker holds of its pass.
PassOK ==
    pc # "idle" =>
        /\ read.exists
        /\ Older(read, Shown)
        /\ Own(tenant) \/ (Own(read) /\ read.deleting)

\* The same as OneAtATime for the first read, up to the metadata patch.
ReadOK ==
    pc \notin {"idle", "status"} /\ Own(read) =>
        \A i \in Versions : read.uid < versions[i].uid => ~Own(versions[i])

\* The second read, once there is one.
BeforeOK ==
    /\ pc \in {"patch", "status"} => Older(read, before) /\ Older(before, Shown)
    /\ pc = "patch" => MetadataDiffers(before, tenant)

\* Where it is known to hold: no other controller puts finalizers on tenants,
\* or there is one incarnation.  With both, the patch of a stale pass can reach
\* a later incarnation for the sake of another controller's finalizer.
Undisturbed == OtherFinalizers = {} \/ MaxUid <= 1

\* The inductive invariant of FinalizerGuard: what every writer of the tenant
\* (Reconcile, PatchIfExists, users) leaves true of the versions that the
\* informer may still show and of what the worker holds of its pass.
FinalizerInv ==
    /\ Shaped /\ Ordered /\ Kept /\ OneAtATime
    /\ PassOK /\ ReadOK /\ BeforeOK
    /\ FinalizerGuard

===============================================================================
