------------------------------- MODULE Capmvm -------------------------------
(***************************************************************************)
(* The manager: both controllers in one process, over one cluster.  What a *)
(* machine's reconcile reads of the objects above it, a variable of        *)
(* MachineController, is here what the MicrovmCluster controller and       *)
(* Cluster API have made of them; and the workload cluster that the        *)
(* MicrovmCluster controller probes runs on the machines' microVMs.  So    *)
(* the machines wait for the MicrovmCluster to be ready, and the           *)
(* MicrovmCluster waits for a machine.                                     *)
(***************************************************************************)
EXTENDS Placement, Integers

CONSTANTS
    Machines, Hosts, UIDs, MachineFD, NameHash, Labelled, EmptyUIDAnswer,
    NoID, NoUID, NoHost, NoMachine,     \* see MachineController
    Pools, NoPool, Updates,             \* see ClusterController
    Faults,     \* which failures may happen, in either controller
    MaxFaults   \* how many of them may happen in all (bound)

VARIABLES
    machines, machineCache, queue, machineScope, last, vms, bootstrap,
    mvmCluster, mvmClusterCache, queued, clusterScope, core, workload,
    listed,     \* every host any version of the pool has listed (history)
    budget

clusterVars == <<mvmCluster, mvmClusterCache, queued, clusterScope, core,
                 workload, listed>>
vars == <<machines, machineCache, queue, machineScope, last, vms, bootstrap,
          clusterVars, budget>>

\* What a machine's Reconcile reads of the Cluster and of the informer's copy
\* of the MicrovmCluster.  Pauses, unreadable objects and missing secrets are
\* left to the modules of the two controllers.
ReadCluster ==
    [gate |-> IF mvmClusterCache.exists THEN "ok" ELSE "noMvmCluster",
     infraReady |-> core.infraReady,
     fds |-> {h \in Hosts : core.fds[h] # "absent"},
     creds |-> TRUE]

M == INSTANCE MachineController
    WITH api <- machines, cache <- machineCache, scope <- machineScope,
         cluster <- ReadCluster, MaxConcurrentReconciles <- 1,
         Gates <- {"ok", "noMvmCluster"}

C == INSTANCE ClusterController
    WITH api <- mvmCluster, cache <- mvmClusterCache, scope <- clusterScope

ASSUME ManagerAssumption ==
    M!ConstantsAssumption /\ M!SentinelAssumption /\ C!PoolsAssumption

Endpoints(pool) ==
    IF pool = NoPool THEN {} ELSE {pool[i].endpoint : i \in DOMAIN pool}

\* The control plane endpoint is given when the MicrovmCluster is created;
\* ClusterController lets it come later.
Init ==
    /\ C!Init /\ mvmCluster.endpoint
    /\ M!Init
    /\ listed = Endpoints(mvmCluster.pool)

-----------------------------------------------------------------------------
(* Steps of the machine controller, its users and its hosts.  Cluster API   *)
(* hands out bootstrap data only when the infrastructure is ready.  The     *)
(* resyncs come while their worker is idle (bound); the modules of the two  *)
(* controllers have them come at any time.                                  *)

MachineReconcile(m) == UNCHANGED clusterVars /\ M!Reconcile(m)
MachineCacheSync(m) == UNCHANGED clusterVars /\ M!CacheSync(m)
MachineEnqueue(m) == M!Active = {} /\ UNCHANGED clusterVars /\ M!Enqueue(m)
MachineDeleted(m) == UNCHANGED clusterVars /\ M!UserDelete(m)
BootstrapStep(m) == core.infraReady /\ UNCHANGED clusterVars /\ M!BootstrapStep(m)
VMStarts(u) == UNCHANGED clusterVars /\ M!VMStarts(u)
VMRemoved(u) == UNCHANGED clusterVars /\ M!VMRemoved(u)

-----------------------------------------------------------------------------
(* Steps of the cluster controller and of Cluster API, and the machines     *)
(* that their events queue.                                                 *)

machineVars == <<machines, machineCache, machineScope, last, vms, bootstrap>>

Unseen(A) == A /\ UNCHANGED <<machineVars, queue, listed>>

\* MicroVMClusterToMicrovmMachine, for the object of one event.
MicroVMClusterToMicrovmMachine(obj) ==
    {m \in Machines : obj.exists /\ ~obj.deleting /\ core.gate # "noOwner"}

ClusterReconcile == Unseen(C!Reconcile)
ClusterEnqueue == clusterScope.pc = "Idle" /\ Unseen(C!Enqueue)

\* Nothing holds the MicrovmCluster back: it is gone at once.
ClusterDeleted == Unseen(C!UserDelete) /\ ~mvmCluster'.exists

EditPlacement ==
    /\ C!EditPlacement
    /\ listed' = listed \cup Endpoints(mvmCluster'.pool)
    /\ UNCHANGED <<machineVars, queue>>

\* The watch on MicrovmCluster maps the object before and after the event.
ClusterCacheSync ==
    /\ C!CacheSync
    /\ queue' = M!Watched(UNION {MicroVMClusterToMicrovmMachine(o) :
                                    o \in {mvmClusterCache, mvmCluster}})
    /\ UNCHANGED <<machineVars, listed>>

\* The owner reference is an event of the MicrovmCluster.
OpenGate ==
    /\ C!OpenGate
    /\ queue' = M!Watched(Machines)
    /\ UNCHANGED <<machineVars, listed>>

\* The watch on Cluster sees the infrastructure become ready.
CoreSync ==
    /\ C!CoreSync
    /\ queue' = IF core.infraReady THEN queue ELSE M!Watched(Machines)
    /\ UNCHANGED <<machineVars, listed>>

\* The workload cluster comes up on a microVM, and is lost without one.
Hosted == \E u \in UIDs : vms[u].state = "CREATED"
WorkloadChanges == Hosted /\ Unseen(C!WorkloadChanges)
WorkloadLost ==
    /\ ~Hosted /\ workload \notin {"noClient", "unreachable"}
    /\ workload' = "unreachable"
    /\ UNCHANGED <<machineVars, queue, listed, mvmCluster, mvmClusterCache,
                   queued, clusterScope, core, budget>>

-----------------------------------------------------------------------------
Next ==
    \/ \E m \in Machines : \/ MachineReconcile(m) \/ MachineCacheSync(m)
                           \/ MachineEnqueue(m) \/ MachineDeleted(m)
                           \/ BootstrapStep(m)
    \/ \E u \in UIDs : VMStarts(u) \/ VMRemoved(u)
    \/ ClusterReconcile \/ ClusterCacheSync \/ ClusterEnqueue
    \/ EditPlacement \/ ClusterDeleted
    \/ OpenGate \/ CoreSync \/ WorkloadChanges \/ WorkloadLost

Spec == Init /\ [][Next]_vars

\* Both workers, both resyncs, the informers, and Cluster API and the hosts
\* keep going.
Fairness ==
    /\ \A m \in Machines : WF_vars(MachineReconcile(m)) /\ WF_vars(MachineEnqueue(m))
    /\ WF_vars(ClusterReconcile) /\ WF_vars(ClusterEnqueue)
    /\ WF_vars(ClusterCacheSync \/ \E m \in Machines : MachineCacheSync(m))
    /\ WF_vars(\/ OpenGate \/ CoreSync \/ WorkloadChanges
               \/ \E m \in Machines : BootstrapStep(m)
               \/ \E u \in UIDs : VMStarts(u) \/ VMRemoved(u))

FairSpec == Spec /\ Fairness

-----------------------------------------------------------------------------
(* Properties.                                                             *)

\* A cluster that is ready for machines can place them, also while patches
\* fail, the pool is edited and the machines' events interleave.
ReadyIsPlaceable == C!ReadyIsPlaceable

\* A microVM is created only on a host that the user has listed in a pool, by
\* way of four copies of the pool: the MicrovmCluster's status, the Cluster's,
\* the machine's scope and its provider ID.
PlacedInPool ==
    /\ \A u \in UIDs : vms[u].state # "UNUSED" => vms[u].host \in listed
    /\ \A m \in Machines : machines[m].providerID # NoID =>
            machines[m].providerID.host \in listed

\* No machine sleeps through what it waits for: the events of MicrovmCluster
\* and Cluster, and the map functions they go through, queue it in time also
\* when they come in the middle of its reconcile.
MachinesWoken == M!NothingForgotten

Deleted == ~mvmCluster.exists \/ mvmCluster.deleting

\* Nobody waits for somebody who waits for him: the machines wait for the
\* MicrovmCluster to be ready, the MicrovmCluster for the API server that runs
\* on a machine, and yet unless something is deleted the machines become ready
\* and the load balancer is reported available.
ClusterComesUp ==
    <>(\/ Deleted \/ \E m \in Machines : ~machines[m].exists \/ machines[m].deleting
       \/ mvmCluster.lb = "True" /\ \A m \in Machines : machines[m].ready)

\* A deleted machine leaves, as long as its MicrovmCluster is there, if its
\* microVM is on record or the host has not found a microVM without a UID.
\* Nothing keeps the MicrovmCluster there for it: it has no finalizer, and
\* without it Reconcile returns before it looks at the deletion.
DeletionCompletes ==
    \A m \in Machines :
        (/\ machines[m].deleting
         /\ machines[m].providerID # NoID \/ EmptyUIDAnswer = "NotFound")
        ~> ~machines[m].exists \/ ~mvmClusterCache.exists
=============================================================================
