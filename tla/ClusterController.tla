------------------------- MODULE ClusterController -------------------------
(***************************************************************************)
(* The MicrovmCluster controller, for one MicrovmCluster: the stored       *)
(* object, the informer's copy, the reconcile with its probe of the        *)
(* workload cluster and its deferred Patch, the users who edit the         *)
(* placement, and the Cluster API controller that copies readiness and     *)
(* failure domains into the Cluster the machines read.                     *)
(*                                                                         *)
(* A definition D_Slip just before D is D with a plausible slip in it; the *)
(* specification never uses it.  It shows which slip a property catches.   *)
(***************************************************************************)
EXTENDS Placement, PatchHelper, Admission, Integers

CONSTANTS
    Hosts,      \* endpoints that may appear in a pool
    Pools,      \* static pools of a new object: sequences of [endpoint, cp]
    NoPool,     \* Spec.Placement without a static pool
    Updates,    \* placements a user may write into an existing object
    Faults,     \* which failures, edits and deletions may happen
    MaxFaults   \* how many of them may happen (bound)

VARIABLES
    api,        \* the MicrovmCluster stored by the API server
    cache,      \* the informer's copy of it
    queued,     \* the work queue holds its key
    scope,      \* the running reconcile, or IdleScope
    core,       \* the owning Cluster
    workload,   \* what a probe of the workload cluster meets
    budget      \* failures, edits and deletions still allowed

vars == <<api, cache, queued, scope, core, workload, budget>>

ASSUME PoolsAssumption ==
    /\ Hosts \subseteq Nat
    /\ \A p \in Pools \cup (Updates \ {NoPool}) :
          p \in Seq([endpoint : Hosts, cp : BOOLEAN]) /\ p # <<>>
    /\ NoPool \notin Pools
    /\ MaxFaults \in Nat

Domains == [Hosts -> DomainKinds]
NoDomains == [h \in Hosts |-> "absent"]

Objects == [exists : BOOLEAN, deleting : BOOLEAN, endpoint : BOOLEAN,
            pool : Pools \cup Updates \cup {NoPool}, ready : BOOLEAN,
            fds : Domains, lb : {"None", "True", "False"}]
GoneObject == [exists |-> FALSE, deleting |-> FALSE, endpoint |-> FALSE,
               pool |-> NoPool, ready |-> FALSE, fds |-> NoDomains, lb |-> "None"]

IdleScope == [pc |-> "Idle", obj |-> GoneObject, before |-> GoneObject,
              requeue |-> FALSE]

TypeOK ==
    /\ api \in Objects /\ cache \in Objects
    /\ queued \in BOOLEAN
    /\ scope \in [pc : {"Idle", "Probe", "PatchConditions", "PatchStatus"},
                  obj : Objects, before : Objects, requeue : BOOLEAN]
    /\ core \in [gate : {"ok", "noOwner", "paused", "error"}, endpoint : BOOLEAN,
                 infraReady : BOOLEAN, fds : Domains]
    /\ workload \in {"noClient", "unreachable", "noNodes", "up"}
    /\ budget \in Nat

-----------------------------------------------------------------------------
(* The API server and its users.                                           *)

\* Placement.IsSet: a static pool is the only option there is.
IsSet(pool) == pool # NoPool

Init ==
    /\ api \in [exists : {TRUE}, deleting : {FALSE}, endpoint : BOOLEAN,
                pool : Pools \cup {NoPool}, ready : {FALSE}, fds : {NoDomains},
                lb : {"None"}]
    /\ ClusterCreateAdmitted(IsSet(api.pool))
    /\ cache = api
    /\ queued = TRUE
    /\ scope = IdleScope
    /\ core = [gate |-> "noOwner", endpoint |-> FALSE, infraReady |-> FALSE,
               fds |-> NoDomains]
    /\ workload = "noClient"
    /\ budget = MaxFaults

Fault(f) == f \in Faults /\ budget > 0 /\ budget' = budget - 1

EditPlacement ==
    /\ Fault("placement") /\ api.exists
    /\ \E p \in Updates : /\ ClusterUpdateAdmitted(IsSet(p))
                          /\ api' = [api EXCEPT !.pool = p]
    /\ UNCHANGED <<cache, queued, scope, core, workload>>

SetEndpoint ==
    /\ \/ api.exists /\ api' = [api EXCEPT !.endpoint = TRUE] /\ UNCHANGED core
       \/ core' = [core EXCEPT !.endpoint = TRUE] /\ UNCHANGED api
    /\ UNCHANGED <<cache, queued, scope, workload, budget>>

\* The controller puts no finalizer on the object, so a deletion removes it at
\* once unless it is a foreground one, which lasts until the dependents go.
UserDelete ==
    /\ Fault("delete") /\ api.exists
    /\ \/ api' = GoneObject
       \/ api' = [api EXCEPT !.deleting = TRUE]
    /\ UNCHANGED <<cache, queued, scope, core, workload>>
DependentsGone ==
    /\ api.deleting
    /\ api' = GoneObject
    /\ UNCHANGED <<cache, queued, scope, core, workload, budget>>

-----------------------------------------------------------------------------
(* Reconcile.                                                              *)

Dequeue ==
    /\ queued /\ scope.pc = "Idle"
    /\ "stale" \in Faults \/ cache = api

\* Gone, not yet owned by a Cluster, or paused: nothing to do, no requeue.
ReconcileIgnored ==
    /\ Dequeue
    /\ ~cache.exists \/ core.gate \in {"noOwner", "paused"}
    /\ queued' = FALSE
    /\ UNCHANGED <<api, cache, scope, core, workload, budget>>

\* The owner cannot be read: the error queues the key again.
ReconcileFailed ==
    /\ Dequeue
    /\ cache.exists /\ core.gate = "error"
    /\ UNCHANGED vars

Enter ==
    /\ Dequeue
    /\ cache.exists /\ core.gate = "ok"
    /\ queued' = FALSE
    /\ UNCHANGED <<api, cache, core, workload, budget>>

Return(obj, requeue) ==
    [scope EXCEPT !.pc = "PatchConditions", !.obj = obj, !.requeue = requeue]

\* There is nothing to delete; only the deferred Patch runs.
ReconcileDelete ==
    /\ Enter
    /\ cache.deleting
    /\ scope' = [Return(cache, FALSE) EXCEPT !.before = cache]

NoEndpoint(obj) == ~core.endpoint /\ ~obj.endpoint

SetFailureDomains_KeepsOld(obj) ==
    [obj EXCEPT !.fds = [h \in Hosts |->
        Merge("absent", FailureDomainsOf(obj.pool, Hosts)[h], @[h])]]
SetFailureDomains(obj) == [obj EXCEPT !.fds = FailureDomainsOf(obj.pool, Hosts)]

\* isAPIServerAvailable: a client, a node list, at least one node in it.
Available == workload = "up"

MarkedReady_WhenAvailable(obj) == [obj EXCEPT !.ready = Available]
MarkedReady(obj) == [obj EXCEPT !.ready = TRUE]

\* Ready is set before the failure domains are, and an unset placement returns
\* an error without taking it back.
ReconcileNormal ==
    /\ Enter
    /\ ~cache.deleting
    /\ LET ready == MarkedReady(cache)
           start(s) == scope' = [s EXCEPT !.before = cache]
       IN  \/ NoEndpoint(cache) /\ start(Return(cache, TRUE))
           \/ ~NoEndpoint(cache) /\ ~IsSet(cache.pool) /\ start(Return(ready, TRUE))
           \/ /\ ~NoEndpoint(cache) /\ IsSet(cache.pool)
              /\ start([scope EXCEPT !.pc = "Probe", !.obj = SetFailureDomains(ready)])

LoadBalancer_Reason(obj, available) == IF available THEN "True" ELSE "NotAvailable"
LoadBalancer_OnceFalse(obj, available) ==
    IF available /\ obj.lb # "False" THEN "True" ELSE "False"
LoadBalancer(obj, available) == IF available THEN "True" ELSE "False"

Probe ==
    /\ scope.pc = "Probe"
    /\ scope' = Return([scope.obj EXCEPT !.lb = LoadBalancer(scope.obj, Available)],
                       ~Available)
    /\ UNCHANGED <<api, cache, queued, core, workload, budget>>

\* The deferred Patch sends the conditions, then the status.  Its error is
\* only logged, so it does not change the outcome of the reconcile.  The
\* request for the conditions names the version the informer has: while that
\* is behind the API server refuses it, and a stale informer may stay behind
\* until the helper gives up.
ChangesConditions == scope.obj.lb # scope.before.lb

PatchConditions ==
    /\ scope.pc = "PatchConditions"
    /\ scope' = [scope EXCEPT !.pc = "PatchStatus"]
    /\ \/ ~ChangesConditions /\ UNCHANGED <<api, budget>>
       \/ /\ ChangesConditions /\ api.exists /\ cache = api
          /\ api' = [api EXCEPT !.lb = scope.obj.lb]
          /\ UNCHANGED budget
       \/ /\ ChangesConditions
          /\ \/ ~api.exists
             \/ cache # api /\ "stale" \in Faults
          /\ UNCHANGED <<api, budget>>
       \/ ChangesConditions /\ Fault("patch") /\ UNCHANGED api
    /\ UNCHANGED <<cache, queued, core, workload>>

\* Status.FailureDomains is a map, which a merge patch updates key by key.
MergeStatus(b, o, a) ==
    [a EXCEPT !.ready = Merge(b.ready, o.ready, @),
              !.fds = [h \in Hosts |-> Merge(b.fds[h], o.fds[h], @[h])]]

PatchStatus ==
    /\ scope.pc = "PatchStatus"
    /\ scope' = IdleScope
    /\ queued' = (queued \/ scope.requeue)
    /\ \/ api.exists /\ api' = MergeStatus(scope.before, scope.obj, api) /\ UNCHANGED budget
       \/ ~api.exists /\ UNCHANGED <<api, budget>>
       \/ Fault("patch") /\ UNCHANGED api
    /\ UNCHANGED <<cache, core, workload>>

-----------------------------------------------------------------------------
(* Informer, process, and the rest of Cluster API.                         *)

CacheSync ==
    /\ cache # api
    /\ cache' = api /\ queued' = TRUE
    /\ UNCHANGED <<api, scope, core, workload, budget>>

\* The periodic resync, or an event that changes nothing the object waits for.
Enqueue ==
    /\ cache.exists /\ ~queued
    /\ queued' = TRUE
    /\ UNCHANGED <<api, cache, scope, core, workload, budget>>

Crash ==
    /\ Fault("crash")
    /\ scope' = IdleScope /\ cache' = api /\ queued' = TRUE
    /\ UNCHANGED <<api, core, workload>>

\* The cluster is paused or its owner unreadable.
CloseGate ==
    /\ Fault("owner") /\ core.gate = "ok"
    /\ \E g \in {"paused", "error"} : core' = [core EXCEPT !.gate = g]
    /\ UNCHANGED <<api, cache, queued, scope, workload>>
\* Both the owner reference and the end of a pause are events.
OpenGate ==
    /\ core.gate # "ok"
    /\ core' = [core EXCEPT !.gate = "ok"]
    /\ queued' = (queued \/ cache.exists)
    /\ UNCHANGED <<api, cache, scope, workload, budget>>

\* Cluster API copies a ready MicrovmCluster into Cluster.Spec and .Status.
CoreSync ==
    /\ api.exists /\ api.ready /\ core.gate # "noOwner"
    /\ core' = [core EXCEPT !.infraReady = TRUE, !.fds = api.fds,
                            !.endpoint = @ \/ api.endpoint]
    /\ UNCHANGED <<api, cache, queued, scope, workload, budget>>

\* The first control plane node comes up only once machines can be placed.
WorkloadChanges ==
    /\ \/ workload = "noClient" /\ core.infraReady /\ workload' = "unreachable"
       \/ workload = "unreachable" /\ workload' = "noNodes"
       \/ workload = "noNodes" /\ workload' = "up"
    /\ UNCHANGED <<api, cache, queued, scope, core, budget>>
WorkloadLost ==
    /\ Fault("workload") /\ workload = "up"
    /\ workload' = "unreachable"
    /\ UNCHANGED <<api, cache, queued, scope, core>>

Reconcile ==
    \/ ReconcileIgnored \/ ReconcileFailed \/ ReconcileDelete \/ ReconcileNormal
    \/ Probe \/ PatchConditions \/ PatchStatus

Next ==
    \/ EditPlacement \/ SetEndpoint \/ UserDelete \/ DependentsGone
    \/ Reconcile
    \/ CacheSync \/ Enqueue \/ Crash
    \/ CloseGate \/ OpenGate \/ CoreSync \/ WorkloadChanges \/ WorkloadLost

Spec == Init /\ [][Next]_vars

\* The worker, the informer, the resync and Cluster API keep going; the owner
\* reference is set and pauses end; the workload cluster comes up.
Fairness ==
    /\ WF_vars(Reconcile) /\ WF_vars(CacheSync) /\ WF_vars(Enqueue)
    /\ WF_vars(OpenGate) /\ WF_vars(CoreSync) /\ WF_vars(WorkloadChanges)
    /\ WF_vars(SetEndpoint)

FairSpec == Spec /\ Fairness

-----------------------------------------------------------------------------
(* Properties.                                                             *)

\* What "ready" promises the machines: a control plane endpoint is known and
\* there is at least one failure domain to place a machine in, both in the
\* MicrovmCluster and in the Cluster that copies it.
ReadyIsPlaceable ==
    /\ api.ready => /\ core.endpoint \/ api.endpoint
                    /\ api.fds # NoDomains
    /\ core.infraReady => core.endpoint /\ core.fds # NoDomains

\* Once edits stop, the failure domains of the MicrovmCluster, and Cluster API's
\* copy of them, are those of the pool as it stands, whatever stale copies the
\* reconciles in between started from.
DomainsConverge ==
    <>[](/\ api.exists /\ ~api.deleting /\ api.pool # NoPool
         => /\ api.fds = FailureDomainsOf(api.pool, Hosts)
            /\ core.fds = api.fds)

\* When the workload cluster has come up, the condition eventually says so:
\* a negative probe is repeated until it succeeds.
AvailabilityNoticed ==
    (workload = "up") ~> \/ api.lb = "True" \/ workload # "up"
                         \/ ~api.exists \/ api.deleting \/ api.pool = NoPool
=============================================================================
