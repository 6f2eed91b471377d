------------------------- MODULE MachineRefinement -------------------------
(***************************************************************************)
(* MachineController implements MachineLifecycle: the stored object and    *)
(* the hosts' microVMs, read as the lifecycle reads them.                  *)
(***************************************************************************)
EXTENDS MachineInvariant

LifecycleObject(a) ==
    [exists |-> a.exists, deleting |-> a.deleting, protected |-> a.finalizer,
     ready |-> a.ready, uid |-> GetInstanceID(a)]

LifecycleVM(v) ==
    [owner |-> v.owner,
     phase |-> CASE v.state = "UNUSED" -> "unused"
                 [] v.state \in LiveStates -> "present"
                 [] v.state = "DELETING" -> "condemned"
                 [] OTHER -> "gone"]

Lifecycle == INSTANCE MachineLifecycle
    WITH object <- [m \in Machines |-> LifecycleObject(api[m])],
         vm <- [u \in UIDs |-> LifecycleVM(vms[u])],
         OperatorsAct <- "operator" \in Faults

\* Seen from outside, whatever the cache's age and whichever requests fail,
\* every step of the controller is a step of the lifecycle or none: no Patch
\* takes back a finalizer or a provider ID another reconcile stored, no microVM
\* is made for a machine without a finalizer, and reconcileDelete never asks a
\* host to delete the microVM of a machine that is not deleted.
ImplementsLifecycle == Lifecycle!Spec
=============================================================================
