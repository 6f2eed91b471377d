---------------------------- MODULE CapmvmProofs ----------------------------
(***************************************************************************)
(* The composition keeps what each controller promises.                    *)
(***************************************************************************)
EXTENDS Capmvm, TLAPS

\* The theorems about each controller, over the variables of the manager.
MP == INSTANCE MachineWakeProofs
    WITH api <- machines, cache <- machineCache, scope <- machineScope,
         cluster <- ReadCluster, MaxConcurrentReconciles <- 1,
         Gates <- {"ok", "noMvmCluster"}
CP == INSTANCE ClusterProofs
    WITH api <- mvmCluster, cache <- mvmClusterCache, scope <- clusterScope

-----------------------------------------------------------------------------
(* M and MP, and C and CP, are instances of the same definitions.           *)

LEMMA SameCardinality == \A S : M!Cardinality(S) = MP!Cardinality(S)
  BY DEF M!Cardinality, MP!Cardinality

LEMMA SameReconcile ==
    ASSUME NEW m \in Machines, M!Reconcile(m)
    PROVE  MP!Reconcile(m)
  <1> USE DEF M!Goto, MP!Goto, M!Return, MP!Return, M!StartPatch, MP!StartPatch,
              M!IdleScope, MP!IdleScope, M!GoneObject, MP!GoneObject,
              M!NewObject, MP!NewObject, M!NoFault, MP!NoFault, M!Fault, MP!Fault
  <1>1. CASE M!ReconcileIgnored(m) \/ M!ReconcileFailed(m)
    BY <1>1, SameCardinality DEF M!ReconcileIgnored, MP!ReconcileIgnored, M!ReconcileFailed,
                MP!ReconcileFailed, M!Dequeue, MP!Dequeue, M!Active, MP!Active, MP!Reconcile
  <1>2. CASE M!ReconcileDelete(m) \/ M!ReconcileNormal(m)
    <2>1. M!GetFailureDomain(m, machineCache[m]) = MP!GetFailureDomain(m, machineCache[m])
      BY SameCardinality
         DEF M!GetFailureDomain, MP!GetFailureDomain, M!ChosenDomain, MP!ChosenDomain
    <2>2. M!Enter(m) <=> MP!Enter(m)
      BY SameCardinality
         DEF M!Enter, MP!Enter, M!Dequeue, MP!Dequeue, M!Active, MP!Active
    <2>3. M!NewMachineScope(machineCache[m]) = MP!NewMachineScope(machineCache[m])
      BY DEF M!NewMachineScope, MP!NewMachineScope
    <2>4. CASE M!ReconcileDelete(m)
      BY <2>1, <2>2, <2>3, <2>4 DEF M!ReconcileDelete, MP!ReconcileDelete,
         M!getMicrovmService, MP!getMicrovmService, MP!Reconcile
    <2>5. CASE M!ReconcileNormal(m)
      BY <2>1, <2>2, <2>3, <2>5 DEF M!ReconcileNormal, MP!ReconcileNormal,
         M!getMicrovmService, MP!getMicrovmService, MP!Reconcile
    <2>6. QED
      BY <1>2, <2>4, <2>5
  <1>3. CASE M!GetNormal(m) \/ M!GetDelete(m)
    BY <1>3 DEF M!GetNormal, MP!GetNormal, M!GetDelete, MP!GetDelete,
                M!GetErrors, MP!GetErrors, M!GetNotFound, MP!GetNotFound,
                M!GetFound, MP!GetFound, M!Present, MP!Present,
                M!GetInstanceID, MP!GetInstanceID, M!SetNotReady, MP!SetNotReady,
                M!KnownStates, MP!KnownStates, M!LiveStates, MP!LiveStates, MP!Reconcile
  <1>4. CASE M!Create(m) \/ M!Delete(m)
    BY <1>4 DEF M!Create, MP!Create, M!Delete, MP!Delete, M!VMCreated, MP!VMCreated,
                M!VMDeleting, MP!VMDeleting, M!GetLabels, MP!GetLabels,
                M!GetRawBootstrapData, MP!GetRawBootstrapData,
                M!Present, MP!Present, M!GetInstanceID, MP!GetInstanceID,
                M!SetNotReady, MP!SetNotReady, M!SetProviderID, MP!SetProviderID,
                M!KnownStates, MP!KnownStates, M!LiveStates, MP!LiveStates, MP!Reconcile
  <1>5. CASE M!PatchConditions(m) \/ M!PatchObject(m) \/ M!PatchStatus(m)
    <2> USE DEF M!PatchPCs, MP!PatchPCs, M!Accepted, MP!Accepted, M!Rejected, MP!Rejected,
                M!Stored, MP!Stored, M!Merge, MP!Merge
    <2>1. CASE M!PatchConditions(m)
      BY <2>1 DEF M!PatchConditions, MP!PatchConditions, M!ChangesConditions,
                  MP!ChangesConditions, M!Conflict, MP!Conflict, M!MergeConditions, MP!MergeConditions, MP!Reconcile
    <2>2. CASE M!PatchObject(m)
      BY <2>2 DEF M!PatchObject, MP!PatchObject, M!ChangesObject, MP!ChangesObject,
                  M!MergeObject, MP!MergeObject, MP!Reconcile
    <2>3. CASE M!PatchStatus(m)
      BY <2>3 DEF M!PatchStatus, MP!PatchStatus, M!ChangesStatus, MP!ChangesStatus,
                  M!MergeStatus, MP!MergeStatus, M!Resume, MP!Resume, M!Finish, MP!Finish,
                  M!AfterPatch, MP!AfterPatch, M!Continue, MP!Continue,
                  M!KnownVM, MP!KnownVM, M!SetProviderID, MP!SetProviderID,
                  M!ParsedObject, MP!ParsedObject, M!ParsedResult, MP!ParsedResult,
                  M!SetReady, MP!SetReady, M!SetNotReady, MP!SetNotReady, MP!Reconcile
    <2>4. QED
      BY <1>5, <2>1, <2>2, <2>3
  <1>6. QED
    BY <1>1, <1>2, <1>3, <1>4, <1>5 DEF M!Reconcile

LEMMA SameMachineStep ==
    ASSUME \/ \E m \in Machines : M!Reconcile(m) \/ M!CacheSync(m) \/ M!Enqueue(m)
                                  \/ M!UserDelete(m) \/ M!BootstrapStep(m)
           \/ \E u \in UIDs : M!VMStarts(u) \/ M!VMRemoved(u)
    PROVE  MP!Next
  <1>1. ASSUME NEW m \in Machines, M!Reconcile(m) \/ M!CacheSync(m) \/ M!Enqueue(m)
        PROVE  MP!Next
    <2>1. M!CacheSync(m) => MP!CacheSync(m)
      BY DEF M!CacheSync, MP!CacheSync
    <2>2. M!Enqueue(m) => MP!Enqueue(m)
      BY DEF M!Enqueue, MP!Enqueue
    <2>3. QED
      BY <1>1, <2>1, <2>2, SameReconcile DEF MP!Next
  <1>2. ASSUME NEW m \in Machines, M!UserDelete(m) \/ M!BootstrapStep(m)
        PROVE  MP!Next
    <2>1. M!UserDelete(m) => MP!UserDelete(m)
      BY DEF M!UserDelete, MP!UserDelete, M!Stored, MP!Stored, M!GoneObject, MP!GoneObject,
             M!NewObject, MP!NewObject
    <2>2. M!BootstrapStep(m) => MP!BootstrapStep(m)
      BY DEF M!BootstrapStep, MP!BootstrapStep, M!Watched, MP!Watched
    <2>3. QED
      BY <1>2, <2>1, <2>2 DEF MP!Next, MP!Environment
  <1>3. ASSUME NEW u \in UIDs, M!VMStarts(u) \/ M!VMRemoved(u)
        PROVE  MP!Next
    <2>1. MP!VMStarts(u) \/ MP!VMRemoved(u)
      BY <1>3 DEF M!VMStarts, MP!VMStarts, M!VMRemoved, MP!VMRemoved, M!VMMoves, MP!VMMoves,
                  M!NoFault, MP!NoFault
    <2>2. QED
      BY <2>1 DEF MP!Next, MP!Flintlock
  <1>4. QED
    BY <1>1, <1>2, <1>3

LEMMA SameClusterStep ==
    ASSUME \/ C!Reconcile \/ C!CacheSync \/ C!Enqueue \/ C!EditPlacement \/ C!UserDelete
           \/ C!OpenGate \/ C!CoreSync \/ C!WorkloadChanges
    PROVE  CP!Next
  <1> USE DEF C!IdleScope, CP!IdleScope, C!GoneObject, CP!GoneObject,
              C!NoDomains, CP!NoDomains, C!Fault, CP!Fault, C!IsSet, CP!IsSet
  <1>1. CASE C!Reconcile
    BY <1>1 DEF C!Reconcile, CP!Reconcile, C!ReconcileIgnored, CP!ReconcileIgnored,
           C!ReconcileFailed, CP!ReconcileFailed, C!ReconcileDelete, CP!ReconcileDelete,
           C!ReconcileNormal, CP!ReconcileNormal, C!Dequeue, CP!Dequeue,
           C!Enter, CP!Enter, C!Return, CP!Return, C!NoEndpoint, CP!NoEndpoint,
           C!MarkedReady, CP!MarkedReady, C!SetFailureDomains, CP!SetFailureDomains,
           C!FailureDomainsOf, CP!FailureDomainsOf, C!Probe, CP!Probe,
           C!LoadBalancer, CP!LoadBalancer, C!Available, CP!Available,
           C!PatchConditions, CP!PatchConditions, C!ChangesConditions,
           CP!ChangesConditions, C!PatchStatus, CP!PatchStatus,
           C!MergeStatus, CP!MergeStatus, C!Merge, CP!Merge, C!vars, CP!vars, CP!Next
  <1>2. CASE C!CacheSync \/ C!Enqueue \/ C!OpenGate \/ C!CoreSync \/ C!WorkloadChanges
    BY <1>2 DEF C!CacheSync, CP!CacheSync, C!Enqueue, CP!Enqueue, C!OpenGate, CP!OpenGate,
           C!CoreSync, CP!CoreSync, C!WorkloadChanges, CP!WorkloadChanges, CP!Next
  <1>3. CASE C!EditPlacement \/ C!UserDelete
    BY <1>3 DEF C!EditPlacement, CP!EditPlacement, C!UserDelete, CP!UserDelete,
           C!ClusterUpdateAdmitted, CP!ClusterUpdateAdmitted, CP!Next
  <1>4. QED
    BY <1>1, <1>2, <1>3

-----------------------------------------------------------------------------
(* A step of the manager is one of the machine controller, which leaves the *)
(* cluster alone, or one that leaves the machines alone.                    *)

MachineStep == UNCHANGED clusterVars /\ MP!Next

ClusterStep ==
    /\ UNCHANGED machineVars
    /\ queue \subseteq queue' /\ queue' \subseteq queue \cup Machines
    /\ core'.infraReady # core.infraReady => queue' = MP!Watched(Machines)
    /\ \/ CP!Next
       \/ WorkloadLost
       \/ UNCHANGED vars

LEMMA Steps == CP!TypeOK /\ [Next]_vars => MachineStep \/ ClusterStep
  <1> SUFFICES ASSUME CP!TypeOK, [Next]_vars PROVE MachineStep \/ ClusterStep
    OBVIOUS
  <1>1. CASE \E m \in Machines : \/ MachineReconcile(m) \/ MachineCacheSync(m)
                                 \/ MachineEnqueue(m) \/ MachineDeleted(m)
                                 \/ BootstrapStep(m)
    BY <1>1, SameMachineStep
       DEF MachineReconcile, MachineCacheSync, MachineEnqueue, MachineDeleted, BootstrapStep,
           MachineStep
  <1>2. CASE \E u \in UIDs : VMStarts(u) \/ VMRemoved(u)
    BY <1>2, SameMachineStep DEF VMStarts, VMRemoved, MachineStep
  <1>3. CASE \/ ClusterReconcile \/ ClusterCacheSync \/ ClusterEnqueue \/ EditPlacement
             \/ ClusterDeleted \/ OpenGate \/ CoreSync \/ WorkloadChanges
    <2>1. CP!Next /\ UNCHANGED machineVars
      BY <1>3, SameClusterStep
         DEF ClusterReconcile, ClusterCacheSync, ClusterEnqueue, EditPlacement,
             ClusterDeleted, OpenGate, CoreSync, WorkloadChanges, Unseen
    <2>2. queue \subseteq queue' /\ queue' \subseteq queue \cup Machines
      BY <1>3 DEF ClusterReconcile, ClusterCacheSync, ClusterEnqueue, EditPlacement,
                  ClusterDeleted, OpenGate, CoreSync, WorkloadChanges, Unseen,
                  MicroVMClusterToMicrovmMachine, M!Watched
    <2>3. CASE CoreSync
      BY <2>1, <2>2, <2>3 DEF CoreSync, C!CoreSync, CP!TypeOK, M!Watched, MP!Watched, ClusterStep
    <2>4. CASE ~CoreSync
      <3>1. core' = core \/ \E g : core' = [core EXCEPT !.gate = g]
        BY <1>3, <2>4
           DEF ClusterReconcile, ClusterCacheSync, ClusterEnqueue, EditPlacement,
               ClusterDeleted, OpenGate, WorkloadChanges, Unseen,
               C!CacheSync, C!Enqueue, C!EditPlacement, C!UserDelete, C!OpenGate,
               C!WorkloadChanges, C!Reconcile, C!ReconcileIgnored, C!ReconcileFailed,
               C!ReconcileDelete, C!ReconcileNormal, C!Enter, C!Probe, C!PatchConditions,
               C!PatchStatus, C!vars
      <3>2. core'.infraReady = core.infraReady
        BY <3>1 DEF CP!TypeOK
      <3>3. QED
        BY <2>1, <2>2, <3>2 DEF ClusterStep
    <2>5. QED
      BY <2>3, <2>4
  <1>4. CASE WorkloadLost
    BY <1>4 DEF WorkloadLost, ClusterStep
  <1>5. CASE UNCHANGED vars
    BY <1>5 DEF vars, clusterVars, machineVars, ClusterStep
  <1>6. QED
    BY <1>1, <1>2, <1>3, <1>4, <1>5 DEF Next

-----------------------------------------------------------------------------
(* Types.                                                                   *)

Types == MP!TypeInv /\ CP!TypeOK

LEMMA SameInit == Init => MP!Init /\ CP!Init
  <1> SUFFICES ASSUME Init PROVE MP!Init /\ CP!Init
    OBVIOUS
  <1>1. MP!Init
    BY DEF Init, M!Init, MP!Init, M!NewObject, MP!NewObject, M!IdleScope, MP!IdleScope,
           M!GoneObject, MP!GoneObject
  <1>2. CP!Init
    BY DEF Init, C!Init, CP!Init, C!NoDomains, CP!NoDomains, C!IdleScope, CP!IdleScope,
           C!GoneObject, CP!GoneObject, C!ClusterCreateAdmitted, CP!ClusterCreateAdmitted,
           C!Consulted, CP!Consulted, C!RuleResource, CP!RuleResource,
           C!PlacementValid, CP!PlacementValid, C!IsSet, CP!IsSet
  <1>3. QED
    BY <1>1, <1>2

LEMMA Assumptions ==
    MP!ConstantsAssumption /\ MP!SentinelAssumption /\ CP!PoolsAssumption
  BY ManagerAssumption
     DEF M!ConstantsAssumption, MP!ConstantsAssumption, M!SentinelAssumption,
         MP!SentinelAssumption, C!PoolsAssumption, CP!PoolsAssumption,
         M!ProviderIDs, MP!ProviderIDs, M!GateKinds, MP!GateKinds

LEMMA InitTypes == Init => Types
  BY Assumptions, SameInit, MP!InitTypeInv, CP!InitTypeOK DEF Types

LEMMA NextTypes == Types /\ [Next]_vars => Types'
  <1> SUFFICES ASSUME Types, [Next]_vars PROVE Types'
    OBVIOUS
  <1>1. CASE MachineStep
    <2>1. MP!TypeInv'
      BY <1>1, Assumptions, MP!NextTypeInv DEF Types, MachineStep
    <2>2. budget' \in Nat
      BY <2>1 DEF MP!TypeInv, MP!TypeOK
    <2>3. CP!TypeOK'
      BY <1>1, <2>2 DEF Types, MachineStep, CP!TypeOK, clusterVars
    <2>4. QED
      BY <2>1, <2>3 DEF Types
  <1>2. CASE ClusterStep
    <2>1. CP!TypeOK'
      <3>1. CASE CP!Next
        BY <3>1, Assumptions, CP!NextTypeOK DEF Types
      <3>2. CASE WorkloadLost \/ UNCHANGED vars
        BY <3>2 DEF Types, CP!TypeOK, WorkloadLost, vars, clusterVars
      <3>3. QED
        BY <1>2, <3>1, <3>2 DEF ClusterStep
    <2>2. /\ queue' \subseteq Machines /\ budget' \in Nat
          /\ ReadCluster' \in [gate : {"ok", "noMvmCluster"}, infraReady : BOOLEAN,
                               fds : SUBSET Hosts, creds : BOOLEAN]
      <3>1. queue' \subseteq Machines
        BY <1>2 DEF ClusterStep, Types, MP!TypeInv, MP!TypeOK
      <3>2. budget' \in Nat
        BY <2>1 DEF CP!TypeOK
      <3>3. QED
        BY <2>1, <3>1, <3>2 DEF CP!TypeOK, ReadCluster
    <2>3. MP!TypeInv'
      BY <1>2, <2>2 DEF ClusterStep, machineVars, Types, MP!TypeInv, MP!TypeOK,
                        MP!ScopeTyped, MP!TypedScope, MP!KnownVM
    <2>4. QED
      BY <2>1, <2>3 DEF Types
  <1>3. QED
    BY <1>1, <1>2, Steps DEF Types

-----------------------------------------------------------------------------
(* No machine sleeps through what it waits for.                             *)

\* A cluster step leaves each machine alone, and queues it if it ends its wait:
\* the MicrovmCluster does not come back, so no step opens the gate.
WokenInv ==
    /\ Types /\ MP!SafetyInv /\ MP!WakeInv
    /\ mvmCluster.exists => mvmClusterCache.exists

LEMMA ClusterGates ==
    ASSUME Types, mvmCluster.exists => mvmClusterCache.exists, ClusterStep
    PROVE  /\ mvmCluster'.exists => mvmClusterCache'.exists
           /\ mvmClusterCache'.exists => mvmClusterCache.exists
           /\ core.infraReady => core'.infraReady
  <1>1. CASE CP!Next
    <2>1. /\ mvmCluster'.exists => mvmCluster.exists
          /\ \/ mvmClusterCache' = mvmClusterCache
             \/ mvmClusterCache' = mvmCluster /\ mvmCluster' = mvmCluster
          /\ core.infraReady => core'.infraReady
      BY <1>1, Assumptions, CP!ObjectShape, CP!CopiesShape DEF Types
    <2>2. QED
      BY <2>1
  <1>2. CASE WorkloadLost \/ UNCHANGED vars
    BY <1>2 DEF WorkloadLost, vars, clusterVars
  <1>3. QED
    BY <1>1, <1>2 DEF ClusterStep

LEMMA ClusterStepWakes ==
    ASSUME WokenInv, Types', ClusterStep
    PROVE  MP!WakeInv'
  <1> SUFFICES ASSUME NEW m \in Machines PROVE MP!WakeOK(m)'
    BY DEF MP!WakeInv
  <1>1. MP!WakeOK(m) /\ MP!Apart(m)
    BY DEF WokenInv, MP!WakeInv, ClusterStep, machineVars, MP!Apart
  <1>2. MP!GatesKept(m)
    <2>1. /\ mvmClusterCache'.exists => mvmClusterCache.exists
          /\ core.infraReady => core'.infraReady
          /\ bootstrap' = bootstrap /\ machineCache' = machineCache
      BY ClusterGates DEF WokenInv, ClusterStep, machineVars
    <2>2. core'.infraReady = core.infraReady \/ m \in queue' \/ ~machineCache[m].exists
      BY DEF ClusterStep, MP!Watched
    <2>3. core.infraReady \in BOOLEAN /\ core'.infraReady \in BOOLEAN
      BY DEF WokenInv, Types, CP!TypeOK
    <2>4. QED
      BY <2>1, <2>2, <2>3 DEF MP!GatesKept, MP!Waits, ReadCluster
  <1>3. QED
    BY <1>1, <1>2, Assumptions, MP!ApartWakes

LEMMA NextWoken == WokenInv /\ [Next]_vars => WokenInv'
  <1> SUFFICES ASSUME WokenInv, [Next]_vars PROVE WokenInv'
    OBVIOUS
  <1>1. Types' /\ MP!IInv
    BY NextTypes DEF WokenInv, Types, MP!IInv
  <1>2. CASE MachineStep
    <2>1. MP!SafetyInv' /\ MP!WakeInv'
      BY <1>1, <1>2, Assumptions, MP!NextSafe, MP!NextWakes DEF WokenInv, MachineStep
    <2>2. (mvmCluster.exists => mvmClusterCache.exists)'
      BY <1>2 DEF WokenInv, MachineStep, clusterVars
    <2>3. QED
      BY <1>1, <2>1, <2>2 DEF WokenInv
  <1>3. CASE ClusterStep
    <2>1. MP!SafetyInv'
      BY <1>1, <1>3, Assumptions, MP!UnchangedVMs, MP!QuietStep DEF ClusterStep, machineVars
    <2>2. MP!WakeInv'
      BY <1>1, <1>3, ClusterStepWakes
    <2>3. (mvmCluster.exists => mvmClusterCache.exists)'
      BY <1>3, ClusterGates DEF WokenInv
    <2>4. QED
      BY <1>1, <2>1, <2>2, <2>3 DEF WokenInv
  <1>4. QED
    BY <1>2, <1>3, Steps DEF WokenInv, Types

\* In the manager, with whatever failures and edits, no machine sleeps through
\* what it waits for: every event of MicrovmCluster and Cluster that ends its
\* wait goes through a map function that queues it, also in the middle of its
\* reconcile.
THEOREM ManagerWakeTheorem == Spec => []MachinesWoken
  <1>1. Init => WokenInv
    <2> SUFFICES ASSUME Init PROVE WokenInv
      OBVIOUS
    <2>1. Types
      BY InitTypes
    <2>2. MP!SafetyInv /\ MP!WakeInv
      BY SameInit, Assumptions, MP!InitSafe, MP!InitWake
    <2>3. mvmCluster.exists => mvmClusterCache.exists
      BY DEF Init, C!Init
    <2>4. QED
      BY <2>1, <2>2, <2>3 DEF WokenInv
  <1>2. WokenInv => MachinesWoken
    BY DEF WokenInv, MachinesWoken, M!NothingForgotten, MP!WakeInv, MP!WakeOK, MP!Asleep,
           MP!Waits
  <1>3. QED
    BY <1>1, <1>2, NextWoken, PTL DEF Spec

-----------------------------------------------------------------------------
(* A cluster that is ready for machines can place them.                     *)

\* What a machine does, and the fate of the workload cluster, is of no
\* consequence for it.
LEMMA NextPlaceable ==
    ASSUME "stale" \notin Faults, NoPool \notin Updates, Types, CP!PlaceInv, [Next]_vars
    PROVE  CP!PlaceInv'
  <1>1. CASE CP!Next
    BY <1>1, Assumptions, CP!NextPlace DEF Types
  <1>2. CASE UNCHANGED <<mvmCluster, core, clusterScope>>
    BY <1>2 DEF CP!PlaceInv, CP!PlaceScope, CP!Placeable, CP!NoDomains, CP!IsSet
  <1>3. QED
    BY <1>1, <1>2, Steps
       DEF Types, MachineStep, ClusterStep, WorkloadLost, vars, clusterVars

\* In the manager, if every reconcile starts from the stored object and no
\* update takes the placement away, a MicrovmCluster that is ready, and the
\* Cluster that copies it, know an endpoint and at least one failure domain
\* whatever patches fail and whatever the machines do in between.
THEOREM ManagerPlaceableTheorem ==
    ASSUME "stale" \notin Faults, NoPool \notin Updates
    PROVE  Spec => []ReadyIsPlaceable
  <1>1. Init => Types /\ CP!PlaceInv
    BY InitTypes, SameInit, Assumptions, CP!InitPlace
  <1>2. Types /\ CP!PlaceInv /\ [Next]_vars => (Types /\ CP!PlaceInv)'
    BY NextTypes, NextPlaceable
  <1>3. CP!PlaceInv => ReadyIsPlaceable
    BY DEF ReadyIsPlaceable, C!ReadyIsPlaceable, CP!PlaceInv, CP!Placeable,
           C!NoDomains, CP!NoDomains
  <1>4. QED
    BY <1>1, <1>2, <1>3, PTL DEF Spec

-----------------------------------------------------------------------------
(* MicroVMs are created only on hosts that the user has listed.             *)

\* All the copies of the pool, and every host a machine has in sight, name
\* listed hosts only.
PlacedInv == Types /\ MP!HostsIn(listed) /\ CP!DomainHostsIn(listed)

\* A machine whose failure domain is set names a host of the first pool.
PinsListed ==
    \A m \in Machines : MachineFD[m] # NoHost => MachineFD[m] \in listed

\* The history grows with each edit of the pool.
LEMMA Listing ==
    ASSUME CP!TypeOK, [Next]_vars
    PROVE  /\ listed \subseteq listed'
           /\ \/ mvmCluster'.pool \in {mvmCluster.pool, NoPool}
              \/ Endpoints(mvmCluster'.pool) \subseteq listed'
  <1>1. CASE EditPlacement
    BY <1>1 DEF EditPlacement
  <1>2. CASE ~EditPlacement
    <2>1. UNCHANGED listed
      BY <1>2 DEF Next, MachineReconcile, MachineCacheSync, MachineEnqueue, MachineDeleted,
             BootstrapStep, VMStarts, VMRemoved, ClusterReconcile, ClusterCacheSync,
             ClusterEnqueue, ClusterDeleted, OpenGate, CoreSync, WorkloadChanges,
             WorkloadLost, Unseen, clusterVars, vars
    <2>2. mvmCluster'.pool \in {mvmCluster.pool, NoPool}
      <3>1. mvmCluster \in CP!Objects
        BY DEF CP!TypeOK
      <3>2. CASE ClusterReconcile
        BY <3>1, <3>2
           DEF CP!Objects, ClusterReconcile, Unseen, C!Reconcile, C!ReconcileIgnored,
               C!ReconcileFailed, C!ReconcileDelete, C!ReconcileNormal, C!Enter, C!Probe,
               C!PatchConditions, C!PatchStatus, C!MergeStatus, C!vars
      <3>3. CASE ClusterDeleted
        BY <3>1, <3>3 DEF CP!Objects, ClusterDeleted, Unseen, C!UserDelete, C!GoneObject
      <3>4. CASE ~ClusterReconcile /\ ~ClusterDeleted
        BY <1>2, <3>4
           DEF Next, MachineReconcile, MachineCacheSync, MachineEnqueue, MachineDeleted,
               BootstrapStep, VMStarts, VMRemoved, ClusterCacheSync, ClusterEnqueue,
               OpenGate, CoreSync, WorkloadChanges, WorkloadLost, Unseen, clusterVars, vars,
               C!CacheSync, C!Enqueue, C!OpenGate, C!CoreSync, C!WorkloadChanges
      <3>5. QED
        BY <3>2, <3>3, <3>4
    <2>3. QED
      BY <2>1, <2>2
  <1>3. QED
    BY <1>1, <1>2

LEMMA NextPlaced == PlacedInv /\ PinsListed /\ [Next]_vars => (PlacedInv /\ PinsListed)'
  <1> SUFFICES ASSUME PlacedInv, PinsListed, [Next]_vars PROVE (PlacedInv /\ PinsListed)'
    OBVIOUS
  <1>1. Types' /\ PinsListed'
    BY NextTypes, Listing DEF PlacedInv, PinsListed, Types
  <1>2. PICK L : L = listed'
    OBVIOUS
  <1>3. listed \subseteq L
    BY <1>2, Listing DEF PlacedInv, Types
  <1>4. MP!HostsIn(L) /\ CP!DomainHostsIn(L)
    <2>1. MP!HostsIn(L)
      BY <1>3 DEF PlacedInv, MP!HostsIn, MP!HostsOf, MP!HostsInScope, MP!IdIn
    <2>2. CP!DomainHostsIn(L)
      BY <1>3 DEF PlacedInv, CP!DomainHostsIn, CP!DomainsIn, CP!PoolIn
    <2>3. QED
      BY <2>1, <2>2
  <1>5. CASE MachineStep
    <2>1. MP!HostSources(L)
      BY <1>3, <1>4 DEF MP!HostSources, PinsListed, ReadCluster, CP!DomainHostsIn, CP!DomainsIn
    <2>2. MP!HostsIn(L)'
      BY <1>4, <1>5, <2>1, Assumptions, MP!NextHosts DEF PlacedInv, Types, MachineStep
    <2>3. CP!DomainHostsIn(L)'
      BY <1>4, <1>5 DEF MachineStep, clusterVars, CP!DomainHostsIn, CP!DomainsIn, CP!PoolIn
    <2>4. QED
      BY <1>1, <1>2, <2>2, <2>3 DEF PlacedInv
  <1>6. CASE ClusterStep
    <2>1. MP!HostsIn(L)'
      BY <1>4, <1>6 DEF ClusterStep, machineVars, MP!HostsIn, MP!HostsOf, MP!HostsInScope,
                        MP!IdIn
    <2>2. CASE CP!Next
      <3>1. CP!PoolIn(mvmCluster'.pool, L)
        BY <1>2, <1>4, Listing DEF PlacedInv, Types, CP!DomainHostsIn, CP!PoolIn, Endpoints
      <3>2. CP!DomainHostsIn(L)'
        BY <1>4, <2>2, <3>1, Assumptions, CP!NextDomainHosts DEF PlacedInv, Types
      <3>3. QED
        BY <1>1, <1>2, <2>1, <3>2 DEF PlacedInv
    <2>3. CASE WorkloadLost \/ UNCHANGED vars
      <3>1. CP!DomainHostsIn(L)'
        BY <1>4, <2>3 DEF WorkloadLost, vars, clusterVars, CP!DomainHostsIn, CP!DomainsIn,
                          CP!PoolIn
      <3>2. QED
        BY <1>1, <1>2, <2>1, <3>1 DEF PlacedInv
    <2>4. QED
      BY <1>6, <2>2, <2>3 DEF ClusterStep
  <1>7. QED
    BY <1>5, <1>6, Steps DEF PlacedInv, Types

\* In the manager, with whatever failures, stale reads and edits, a microVM is
\* created only on a host that some version of the pool has listed, and only
\* such a host is recorded in a provider ID, if the failure domains that users
\* set in a Machine are hosts of the pool the cluster is created with.
THEOREM PlacedTheorem ==
    ASSUME \A m \in Machines : MachineFD[m] # NoHost =>
                \A p \in Pools : MachineFD[m] \in Endpoints(p)
    PROVE  Spec => []PlacedInPool
  <1>1. Init => PlacedInv /\ PinsListed
    <2> SUFFICES ASSUME Init PROVE PlacedInv /\ PinsListed
      OBVIOUS
    <2>1. MP!Init /\ CP!Init /\ Types
      BY SameInit, InitTypes
    <2>2. mvmCluster.pool \in Pools /\ mvmCluster.fds = CP!NoDomains
      BY <2>1, ManagerAssumption
         DEF CP!Init, CP!ClusterCreateAdmitted, CP!Consulted, CP!RuleResource,
             CP!PlacementValid, CP!IsSet
    <2>3. PinsListed
      BY <2>2 DEF Init, PinsListed
    <2>4. MP!HostsIn(listed)
      BY <2>1 DEF MP!Init, MP!HostsIn, MP!HostsOf, MP!IdIn, MP!NewObject, MP!IdleScope
    <2>5. CP!DomainHostsIn(listed)
      BY <2>1, <2>2 DEF Init, CP!Init, CP!DomainHostsIn, CP!DomainsIn, CP!PoolIn, CP!NoDomains,
                        CP!IdleScope, Endpoints
    <2>6. QED
      BY <2>1, <2>3, <2>4, <2>5 DEF PlacedInv
  <1>2. PlacedInv => PlacedInPool
    BY DEF PlacedInv, PlacedInPool, MP!HostsIn, MP!HostsOf, MP!IdIn
  <1>3. QED
    BY <1>1, <1>2, NextPlaced, PTL DEF Spec
=============================================================================
