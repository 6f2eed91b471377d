-------------------------- MODULE MachineLifecycle --------------------------
(***************************************************************************)
(* What the MicrovmMachine controller promises of a machine's object and   *)
(* of the microVMs made for it, without reconciles, caches, patches or     *)
(* calls that fail.  A machine is protected by its finalizer before any    *)
(* microVM is made for it, stays protected until it is deleted and gone,   *)
(* never loses the record of a microVM but for a record of a later one,    *)
(* and no microVM is condemned while its machine is wanted.                *)
(***************************************************************************)
CONSTANTS
    Machines, UIDs, NoMachine, NoUID,
    OperatorsAct    \* host operators may delete microVMs on their own

VARIABLES
    object,     \* object[m]: the machine as its users see it
    vm          \* vm[u]: whose microVM u is and how far it has come

lifecycleVars == <<object, vm>>

Fresh == [exists |-> TRUE, deleting |-> FALSE, protected |-> FALSE,
          ready |-> FALSE, uid |-> NoUID]
Gone == [Fresh EXCEPT !.exists = FALSE]

Init ==
    /\ object = [m \in Machines |-> Fresh]
    /\ vm = [u \in UIDs |-> [owner |-> NoMachine, phase |-> "unused"]]

Becomes(m, o) == object' = [object EXCEPT ![m] = o] /\ UNCHANGED vm

Protect(m) ==
    /\ object[m].exists /\ ~object[m].protected /\ ~object[m].deleting
    /\ Becomes(m, [object[m] EXCEPT !.protected = TRUE])

\* A microVM is made for a machine that cannot leave unseen.
Make(m, u) ==
    /\ object[m].exists /\ object[m].protected
    /\ vm[u].phase = "unused"
    /\ vm' = [vm EXCEPT ![u] = [owner |-> m, phase |-> "present"]]
    /\ UNCHANGED object

Record(m, u) ==
    /\ object[m].exists /\ object[m].protected
    /\ vm[u].owner = m
    /\ Becomes(m, [object[m] EXCEPT !.uid = u])

SetReady(m) ==
    /\ object[m].exists /\ object[m].protected /\ object[m].uid # NoUID
    /\ Becomes(m, [object[m] EXCEPT !.ready = TRUE])
SetNotReady(m) ==
    /\ object[m].exists
    /\ Becomes(m, [object[m] EXCEPT !.ready = FALSE])

\* A deletion waits for the protection to be released, if there is one.
RequestDelete(m) ==
    /\ object[m].exists /\ ~object[m].deleting
    /\ Becomes(m, IF object[m].protected
                  THEN [object[m] EXCEPT !.deleting = TRUE] ELSE Gone)
Release(m) ==
    /\ object[m].exists /\ object[m].protected /\ object[m].deleting
    /\ Becomes(m, Gone)

Advance(u, from, to) ==
    /\ vm[u].phase = from
    /\ vm' = [vm EXCEPT ![u].phase = to]
    /\ UNCHANGED object

\* A microVM is condemned on behalf of the machine it was made for, once that
\* is deleted, or by an operator.
Condemn(u) ==
    /\ \/ OperatorsAct
       \/ /\ vm[u].owner # NoMachine
          /\ object[vm[u].owner].deleting \/ ~object[vm[u].owner].exists
    /\ Advance(u, "present", "condemned")
Vanish(u) == Advance(u, "condemned", "gone")

Next ==
    \/ \E m \in Machines :
          \/ Protect(m) \/ SetReady(m) \/ SetNotReady(m)
          \/ RequestDelete(m) \/ Release(m)
          \/ \E u \in UIDs : Make(m, u) \/ Record(m, u)
    \/ \E u \in UIDs : Condemn(u) \/ Vanish(u)

Spec == Init /\ [][Next]_lifecycleVars
=============================================================================
