------------------------- MODULE MachineController -------------------------
(***************************************************************************)
(* The MicrovmMachine controller: its reconcile loop, the API server's     *)
(* copy of each MicrovmMachine, the informer cache the controller reads,   *)
(* the work queue, and the Flintlock hosts whose microVMs it manages.      *)
(*                                                                         *)
(* A reconcile is a sequence of remote calls.  The local code from one     *)
(* remote call to the next is one action; scope[m].pc names the call that  *)
(* comes next.  A call to Patch is three API requests (conditions, then    *)
(* metadata and spec, then status), each a step of its own; the first one  *)
(* is locked to the version the informer has, the other two are not.       *)
(*                                                                         *)
(* Every failure is guarded by membership in Faults and by the budget, so  *)
(* one module states both the fault-free system and each faulty one.       *)
(*                                                                         *)
(* A definition D_Slip just before D is D with a plausible slip in it; the *)
(* specification never uses it.  It shows which slip a property catches.   *)
(***************************************************************************)
EXTENDS Placement, PatchHelper, Admission, Integers

CONSTANTS
    Machines,       \* the MicrovmMachine objects of one cluster
    Hosts,          \* Flintlock endpoints, in the order of sort.Strings
    UIDs,           \* microVM identities the hosts may hand out (bound)
    MachineFD,      \* Machine.Spec.FailureDomain of each machine, NoHost if unset
    NameHash,       \* crc32 of each machine's name
    Labelled,       \* machines whose Spec.VMSpec.Labels is not nil
    Gates,          \* what the objects above a machine may look like
    Faults,         \* which failures may happen
    MaxFaults,      \* how many of them may happen (bound)
    MaxConcurrentReconciles,
    EmptyUIDAnswer, \* what a host answers when asked for the empty UID
    NoID, NoUID, NoHost, NoMachine

VARIABLES
    api,        \* api[m]: the MicrovmMachine stored by the API server
    cache,      \* cache[m]: the informer's copy of it, possibly old
    queue,      \* the work queue's keys
    scope,      \* scope[m]: the running reconcile of m, or IdleScope
    last,       \* last[m]: how the last reconcile of m ended
    vms,        \* vms[u]: the microVM with UID u
    cluster,    \* what a reconcile reads of Cluster, MicrovmCluster, secrets
    bootstrap,  \* bootstrap[m]: progress of the machine's bootstrap secret
    budget      \* failures still allowed

vars == <<api, cache, queue, scope, last, vms, cluster, bootstrap, budget>>

-----------------------------------------------------------------------------
(* The data.                                                               *)

GateKinds == {"ok", "noOwner", "noCluster", "paused", "noMvmCluster", "error"}

ProviderIDs == [host : Hosts, uid : UIDs]

\* An object is edited when a user has changed Spec.VMSpec since its creation.
\* Status.VMState and the reason (or truth) of the MicrovmReady condition.
VMStates == {"None", "Running", "Pending", "Failed", "Unknown"}
Reasons == {"None", "True", "WaitingForClusterInfra", "WaitingForBootstrapData",
            "Pending", "ProvisionFailed", "UnknownState", "Deleting",
            "DeleteFailed"}

Objects == [exists : BOOLEAN, deleting : BOOLEAN, finalizer : BOOLEAN,
            edited : BOOLEAN,
            providerID : ProviderIDs \cup {NoID}, clusterLabel : BOOLEAN,
            ready : BOOLEAN, vmState : VMStates, cond : Reasons]

\* A microVM no host has created yet is UNUSED, one a host has forgotten is
\* REMOVED; OTHER is any state the controller's switch has no case for.  A
\* microVM is edited when it was built from an edited spec.
LiveStates == {"PENDING", "CREATED", "FAILED", "OTHER"}
KnownStates == LiveStates \cup {"DELETING"}
VMs == [state : KnownStates \cup {"UNUSED", "REMOVED"},
        owner : Machines \cup {NoMachine}, host : Hosts \cup {NoHost},
        edited : BOOLEAN]

PatchPCs == {"PatchFinalizer", "PatchProviderID", "PatchNotReady", "Deferred"}
Calls == {"Idle", "GetNormal", "Create", "GetDelete", "Delete"} \cup PatchPCs
Parts == {"conditions", "object", "status"}
Results == {"none", "gated", "noCluster", "waiting", "done", "swallowed", "requeue", "error"}

Scopes == [pc : Calls, obj : Objects, before : Objects,
           fd : Hosts \cup {NoHost}, uid : UIDs \cup {NoUID},
           state : KnownStates \cup {"nil"},
           part : Parts, patchErr : BOOLEAN, result : Results]

ASSUME ConstantsAssumption ==
    /\ Hosts \subseteq Nat
    /\ MachineFD \in [Machines -> Hosts \cup {NoHost}]
    /\ NameHash \in [Machines -> Nat]
    /\ Labelled \subseteq Machines
    /\ "ok" \in Gates /\ Gates \subseteq GateKinds
    /\ MaxFaults \in Nat
    /\ MaxConcurrentReconciles \in Nat \ {0}
    /\ EmptyUIDAnswer \in {"NotFound", "Error"}

ASSUME SentinelAssumption ==
    /\ NoID \notin ProviderIDs
    /\ NoUID \notin UIDs
    /\ NoHost \notin Hosts
    /\ NoMachine \notin Machines

NewObject == [exists |-> TRUE, deleting |-> FALSE, finalizer |-> FALSE,
              edited |-> FALSE, providerID |-> NoID, clusterLabel |-> FALSE,
              ready |-> FALSE, vmState |-> "None", cond |-> "None"]
GoneObject == [NewObject EXCEPT !.exists = FALSE]

IdleScope == [pc |-> "Idle", obj |-> GoneObject, before |-> GoneObject,
              fd |-> NoHost, uid |-> NoUID, state |-> "nil",
              part |-> "conditions", patchErr |-> FALSE, result |-> "none"]

TypeOK ==
    /\ api \in [Machines -> Objects]
    /\ cache \in [Machines -> Objects]
    /\ queue \subseteq Machines
    /\ scope \in [Machines -> Scopes]
    /\ last \in [Machines -> Results \cup {"patchLost"}]
    /\ vms \in [UIDs -> VMs]
    /\ cluster \in [gate : Gates, infraReady : BOOLEAN,
                    fds : SUBSET Hosts, creds : BOOLEAN]
    /\ bootstrap \in [Machines -> {"none", "named", "data"}]
    /\ budget \in Nat

Init ==
    /\ api = [m \in Machines |-> NewObject]
    /\ cache = api
    /\ queue = Machines
    /\ scope = [m \in Machines |-> IdleScope]
    /\ last = [m \in Machines |-> "none"]
    /\ vms = [u \in UIDs |-> [state |-> "UNUSED", owner |-> NoMachine,
                              host |-> NoHost, edited |-> FALSE]]
    /\ cluster \in [gate : Gates, infraReady : {FALSE}, fds : {{}},
                    creds : {TRUE}]
    /\ bootstrap = [m \in Machines |-> "none"]
    /\ budget = MaxFaults

-----------------------------------------------------------------------------
(* Helpers of the reconcile.                                               *)

\* One failure of kind f happens now.
Fault(f) == f \in Faults /\ budget > 0 /\ budget' = budget - 1
NoFault == UNCHANGED budget

Goto(m, s) == scope' = [scope EXCEPT ![m] = s]

\* The deferred Patch runs whatever way the handler returns.
Return(s, result) ==
    [s EXCEPT !.pc = "Deferred", !.part = "conditions", !.patchErr = FALSE,
              !.result = result]

StartPatch(s, pc) ==
    [s EXCEPT !.pc = pc, !.part = "conditions", !.patchErr = FALSE]

NewMachineScope(obj) == [IdleScope EXCEPT !.obj = obj, !.before = obj]

SetReady_ConditionOnly(obj) == [obj EXCEPT !.cond = "True"]
SetReady(obj) == [obj EXCEPT !.cond = "True", !.ready = TRUE]
SetNotReady_ConditionOnly(obj, reason) == [obj EXCEPT !.cond = reason]
SetNotReady(obj, reason) == [obj EXCEPT !.cond = reason, !.ready = FALSE]
SetProviderID_Swapped(obj, fd, uid) ==
    [obj EXCEPT !.providerID = [host |-> uid, uid |-> fd]]
SetProviderID_FirstHost(obj, fd, uid) ==
    [obj EXCEPT !.providerID = [host |-> CHOOSE h \in Hosts : \A g \in Hosts : h <= g,
                                uid |-> uid]]
SetProviderID(obj, fd, uid) ==
    [obj EXCEPT !.providerID = [host |-> fd, uid |-> uid]]

GetFailureDomain_IgnoresProviderID(m, obj) ==
    IF MachineFD[m] # NoHost THEN {MachineFD[m]}
    ELSE ChosenDomain(cluster.fds, NameHash[m])
\* The failure domain the scope resolves to: a singleton, or {} for the error.
GetFailureDomain(m, obj) ==
    IF MachineFD[m] # NoHost THEN {MachineFD[m]}
    ELSE IF obj.providerID # NoID THEN {obj.providerID.host}
    ELSE ChosenDomain(cluster.fds, NameHash[m])

ParsedObject_KeepsReady(obj, state) ==
    CASE state = "CREATED" -> SetReady([obj EXCEPT !.vmState = "Running"])
      [] state = "PENDING" ->
            SetNotReady([obj EXCEPT !.vmState = "Pending"], "Pending")
      [] OTHER -> [obj EXCEPT !.vmState = "Failed"]
\* parseMicroVMState: the object and the result for a state reported by a host.
ParsedObject(obj, state) ==
    CASE state = "CREATED" -> SetReady([obj EXCEPT !.vmState = "Running"])
      [] state = "PENDING" ->
            SetNotReady([obj EXCEPT !.vmState = "Pending"], "Pending")
      [] state = "FAILED" ->
            SetNotReady([obj EXCEPT !.vmState = "Failed"], "ProvisionFailed")
      [] state = "DELETING" -> obj
      [] OTHER -> SetNotReady([obj EXCEPT !.vmState = "Unknown"], "UnknownState")
ParsedResult_NoRequeue(state) ==
    IF state \in {"CREATED", "PENDING", "DELETING"} THEN "done" ELSE "error"
ParsedResult(state) ==
    CASE state = "CREATED" -> "done"
      [] state \in {"PENDING", "DELETING"} -> "requeue"
      [] OTHER -> "error"

-----------------------------------------------------------------------------
(* Reconcile up to its first remote call.                                  *)

Active == {m \in Machines : scope[m].pc # "Idle"}

\* The work queue hands m to a free worker, never to two at a time.
Dequeue(m) ==
    /\ m \in queue
    /\ scope[m].pc = "Idle"
    /\ Cardinality(Active) < MaxConcurrentReconciles
    /\ "stale" \in Faults \/ cache[m] = api[m]

\* The object is gone, has no owner or no cluster yet, or is paused: return
\* without a scope, without a requeue.  Any error in looking up the cluster is
\* taken for a missing cluster.
ReconcileIgnored(m) ==
    /\ Dequeue(m)
    /\ \/ ~cache[m].exists
       \/ cluster.gate \in {"noOwner", "noCluster", "paused", "noMvmCluster"}
    /\ queue' = queue \ {m}
    /\ last' = [last EXCEPT ![m] =
                    IF cluster.gate = "noCluster" THEN "noCluster" ELSE "gated"]
    /\ UNCHANGED <<api, cache, scope, vms, cluster, bootstrap, budget>>

\* Reading the owner, the cluster or the MicrovmCluster failed (or panicked,
\* which RecoverPanic turns into an error): requeue, no scope yet.
ReconcileFailed(m) ==
    /\ Dequeue(m)
    /\ cache[m].exists
    /\ cluster.gate = "error"
    /\ last' = [last EXCEPT ![m] = "error"]
    /\ UNCHANGED <<api, cache, queue, scope, vms, cluster, bootstrap, budget>>

Enter(m) ==
    /\ Dequeue(m)
    /\ cache[m].exists
    /\ cluster.gate = "ok"
    /\ queue' = queue \ {m}
    /\ UNCHANGED <<api, cache, last, vms, cluster, bootstrap, budget>>

\* Whether a client can be built: the secrets with the token and the TLS
\* configuration can be read.
getMicrovmService == cluster.creds

\* reconcileDelete up to the Get call.  A failure to build the client is
\* swallowed: the handler returns no error and asks for no requeue.
ReconcileDelete(m) ==
    /\ Enter(m)
    /\ cache[m].deleting
    /\ LET s == NewMachineScope(cache[m])
           fds == GetFailureDomain(m, cache[m])
       IN  \/ fds = {} /\ Goto(m, Return(s, "error"))
           \/ fds # {} /\ ~getMicrovmService /\ Goto(m, Return(s, "swallowed"))
           \/ /\ getMicrovmService
              /\ \E h \in fds :
                    Goto(m, [s EXCEPT !.pc = "GetDelete", !.fd = h])

\* reconcileNormal up to its first remote call: Get when there is a provider
\* ID, otherwise the Patch that adds the finalizer.
ReconcileNormal(m) ==
    /\ Enter(m)
    /\ ~cache[m].deleting
    /\ LET s == NewMachineScope(cache[m])
           wait(reason) == Return([s EXCEPT !.obj.cond = reason], "waiting")
           fds == GetFailureDomain(m, cache[m])
           passed == cluster.infraReady /\ bootstrap[m] # "none"
       IN  \/ ~cluster.infraReady /\ Goto(m, wait("WaitingForClusterInfra"))
           \/ /\ cluster.infraReady /\ bootstrap[m] = "none"
              /\ Goto(m, wait("WaitingForBootstrapData"))
           \/ /\ passed /\ (fds = {} \/ ~getMicrovmService)
              /\ Goto(m, Return(s, "error"))
           \/ /\ passed /\ getMicrovmService
              /\ cache[m].providerID # NoID
              /\ \E h \in fds :
                    Goto(m, [s EXCEPT !.pc = "GetNormal", !.fd = h])
           \/ /\ passed /\ getMicrovmService
              /\ cache[m].providerID = NoID
              /\ \E h \in fds :
                    Goto(m, StartPatch([s EXCEPT !.fd = h,
                                                 !.obj.finalizer = TRUE],
                                       "PatchFinalizer"))

-----------------------------------------------------------------------------
(* Calls to a Flintlock host, through the microvm service.                 *)

GetInstanceID(obj) == IF obj.providerID = NoID THEN NoUID ELSE obj.providerID.uid

\* The host the service is connected to has a record of the microVM.
Present(s) ==
    \E u \in UIDs : /\ u = GetInstanceID(s.obj)
                    /\ vms[u].host = s.fd
                    /\ vms[u].state \in KnownStates

\* The three answers to Get.  isSpecNotFound looks for "not found" in the text
\* of the error; a misread is another error whose text contains those words.
GetErrors(s) ==
    \/ Fault("rpc")
    \/ GetInstanceID(s.obj) = NoUID /\ EmptyUIDAnswer = "Error" /\ NoFault
GetNotFound(s) ==
    \/ /\ ~Present(s)
       /\ GetInstanceID(s.obj) # NoUID \/ EmptyUIDAnswer = "NotFound"
       /\ NoFault
    \/ Present(s) /\ Fault("misread")
GetFound(s) == Present(s) /\ NoFault

\* reconcileNormal from the Get call to the Patch that adds the finalizer.
GetNormal(m) ==
    /\ scope[m].pc = "GetNormal"
    /\ LET s == scope[m]
           guarded == StartPatch([s EXCEPT !.obj.finalizer = TRUE], "PatchFinalizer")
           uid == GetInstanceID(s.obj)
       IN  \/ GetErrors(s) /\ Goto(m, Return(s, "error"))
           \/ GetNotFound(s) /\ Goto(m, guarded)
           \/ /\ GetFound(s)
              /\ Goto(m, [guarded EXCEPT !.uid = uid, !.state = vms[uid].state])
    /\ UNCHANGED <<api, cache, queue, last, vms, cluster, bootstrap>>

\* What a successful Create leaves on the host, and the scope after it: the
\* answer carries the new UID and a pending state.
VMCreated(m, u) ==
    /\ vms[u].state = "UNUSED"
    /\ vms' = [vms EXCEPT ![u] = [state |-> "PENDING", owner |-> m,
                                  host |-> scope[m].fd,
                                  edited |-> scope[m].obj.edited]]

\* GetLabels adds cluster-name to the map it returns, which is the machine's
\* own Spec.VMSpec.Labels when that is not nil.
GetLabels(m, obj) ==
    IF m \in Labelled THEN [obj EXCEPT !.clusterLabel = TRUE] ELSE obj

\* Whether the bootstrap secret is there and holds a value.
GetRawBootstrapData(m) == bootstrap[m] = "data"

\* The Create call and the code up to the Patch of the provider ID.  Create
\* reads the labels and the bootstrap secret, in an order the library decides;
\* it may fail, or succeed with its answer lost.  Running out of UIDs (the
\* model's bound) is a failure of the call.
Create(m) ==
    /\ scope[m].pc = "Create"
    /\ LET s == scope[m]
           labelled == [s EXCEPT !.obj = GetLabels(m, @)]
       IN  \/ /\ ~GetRawBootstrapData(m)
              /\ \E t \in {s, labelled} : Goto(m, Return(t, "error"))
              /\ NoFault /\ UNCHANGED vms
           \/ /\ GetRawBootstrapData(m)
              /\ \/ Fault("rpc")
                 \/ (\A u \in UIDs : vms[u].state # "UNUSED") /\ NoFault
              /\ Goto(m, Return(labelled, "error"))
              /\ UNCHANGED vms
           \/ /\ GetRawBootstrapData(m)
              /\ \E u \in UIDs : VMCreated(m, u)
              /\ Fault("lostReply")
              /\ Goto(m, Return(labelled, "error"))
           \/ /\ GetRawBootstrapData(m)
              /\ \E u \in UIDs :
                    /\ VMCreated(m, u)
                    /\ Goto(m, StartPatch(
                            [labelled EXCEPT !.uid = u, !.state = "PENDING",
                                             !.obj = SetProviderID(@, s.fd, u)],
                            "PatchProviderID"))
              /\ NoFault
    /\ UNCHANGED <<api, cache, queue, last, cluster, bootstrap>>

\* reconcileDelete from the Get call: a microVM the host knows is first marked
\* not ready; one it does not know lets go of the finalizer.
GetDelete(m) ==
    /\ scope[m].pc = "GetDelete"
    /\ LET s == scope[m]
           uid == GetInstanceID(s.obj)
       IN  \/ GetErrors(s) /\ Goto(m, Return(s, "error"))
           \/ /\ GetNotFound(s)
              /\ Goto(m, Return([s EXCEPT !.obj.finalizer = FALSE], "done"))
           \/ /\ GetFound(s)
              /\ Goto(m, StartPatch(
                     [s EXCEPT !.obj = SetNotReady(@, "Deleting"),
                               !.uid = uid, !.state = vms[uid].state],
                     "PatchNotReady"))
    /\ UNCHANGED <<api, cache, queue, last, vms, cluster, bootstrap>>

\* The Delete call.  The host accepts it and removes the microVM later.
VMDeleting(s) == vms' = [vms EXCEPT ![GetInstanceID(s.obj)].state = "DELETING"]

Delete(m) ==
    /\ scope[m].pc = "Delete"
    /\ LET s == scope[m]
           failed == Return([s EXCEPT !.obj = SetNotReady(@, "DeleteFailed")],
                            "error")
       IN  \/ /\ Present(s) /\ VMDeleting(s) /\ NoFault
              /\ Goto(m, Return(s, "requeue"))
           \/ /\ \/ ~Present(s) /\ NoFault
                 \/ Fault("rpc")
              /\ UNCHANGED vms
              /\ Goto(m, failed)
           \/ /\ Present(s) /\ VMDeleting(s) /\ Fault("lostReply")
              /\ Goto(m, failed)
    /\ UNCHANGED <<api, cache, queue, last, cluster, bootstrap>>

-----------------------------------------------------------------------------
(* Patch: the helper compares the object with the copy taken when the scope *)
(* was made, never refreshed, and sends the fields that differ.             *)

MergeConditions(b, o, a) == [a EXCEPT !.cond = Merge(b.cond, o.cond, @)]
MergeObject_Whole(b, o, a) ==
    [a EXCEPT !.finalizer = o.finalizer, !.providerID = o.providerID,
              !.clusterLabel = o.clusterLabel]
MergeObject(b, o, a) ==
    [a EXCEPT !.finalizer = Merge(b.finalizer, o.finalizer, @),
              !.providerID = Merge(b.providerID, o.providerID, @),
              !.clusterLabel = Merge(b.clusterLabel, o.clusterLabel, @)]
MergeStatus(b, o, a) ==
    [a EXCEPT !.ready = Merge(b.ready, o.ready, @),
              !.vmState = Merge(b.vmState, o.vmState, @)]

ChangesConditions(s) == s.obj.cond # s.before.cond
ChangesObject(s) ==
    \/ s.obj.finalizer # s.before.finalizer
    \/ s.obj.providerID # s.before.providerID
    \/ s.obj.clusterLabel # s.before.clusterLabel
ChangesStatus(s) ==
    \/ s.obj.ready # s.before.ready
    \/ s.obj.vmState # s.before.vmState

\* The API server removes a deleted object once its last finalizer is gone.
Stored(a) == IF a.deleting /\ ~a.finalizer THEN GoneObject ELSE a

Accepted(m, a) == api' = [api EXCEPT ![m] = Stored(a)] /\ NoFault
Rejected(m) ==
    /\ \/ ~api[m].exists /\ NoFault
       \/ api[m].exists /\ Fault("patch")
    /\ UNCHANGED api

\* The conditions request re-reads the object through the informer and names
\* the version it has read.  While the informer is behind, the API server
\* answers with a conflict; the helper tries five times and then gives up.
\* An informer that is never stale catches up before that.
Conflict(m) ==
    /\ api[m].exists /\ cache[m] # api[m] /\ "stale" \in Faults
    /\ UNCHANGED api /\ NoFault

PatchConditions(m) ==
    /\ scope[m].pc \in PatchPCs /\ scope[m].part = "conditions"
    /\ LET s == scope[m]
           next == [s EXCEPT !.part = "object"]
       IN  \/ ~ChangesConditions(s) /\ Goto(m, next) /\ UNCHANGED api /\ NoFault
           \/ /\ ChangesConditions(s) /\ api[m].exists /\ cache[m] = api[m]
              /\ Accepted(m, MergeConditions(s.before, s.obj, api[m]))
              /\ Goto(m, next)
           \/ /\ ChangesConditions(s)
              /\ Rejected(m) \/ Conflict(m)
              /\ Goto(m, [next EXCEPT !.patchErr = TRUE])
    /\ UNCHANGED <<cache, queue, last, vms, cluster, bootstrap>>

PatchObject(m) ==
    /\ scope[m].pc \in PatchPCs /\ scope[m].part = "object"
    /\ LET s == scope[m]
           next == [s EXCEPT !.part = "status"]
       IN  \/ ~ChangesObject(s) /\ Goto(m, next) /\ UNCHANGED api /\ NoFault
           \/ /\ ChangesObject(s) /\ api[m].exists
              /\ Accepted(m, MergeObject(s.before, s.obj, api[m]))
              /\ Goto(m, next)
           \/ /\ ChangesObject(s) /\ Rejected(m)
              /\ Goto(m, [next EXCEPT !.patchErr = TRUE])
    /\ UNCHANGED <<cache, queue, last, vms, cluster, bootstrap>>

\* The code between the return of an explicit Patch and the next remote call.
KnownVM_Ignored(s) == FALSE
KnownVM(s) == s.state # "nil"

Continue(s) ==
    CASE s.pc = "PatchFinalizer" /\ ~KnownVM(s) -> [s EXCEPT !.pc = "Create"]
      [] s.pc = "PatchFinalizer" /\ KnownVM(s) ->
            StartPatch([s EXCEPT !.obj = SetProviderID(@, s.fd, s.uid)],
                       "PatchProviderID")
      [] s.pc = "PatchProviderID" ->
            Return([s EXCEPT !.obj = ParsedObject(@, s.state)],
                   ParsedResult(s.state))
      [] s.pc = "PatchNotReady" /\ s.state # "DELETING" -> [s EXCEPT !.pc = "Delete"]
      [] OTHER -> Return(s, "requeue")

AfterPatch_Unchecked(s) == Continue(s)
AfterPatch(s) == IF s.patchErr THEN Return(s, "error") ELSE Continue(s)

\* The reconcile is over: the deferred Patch's error is only logged, so the
\* handler's own result alone decides whether the key is queued again.
Finish(m, s) ==
    /\ Goto(m, IdleScope)
    /\ queue' = IF s.result \in {"requeue", "error"} THEN queue \cup {m} ELSE queue
    /\ last' = [last EXCEPT ![m] =
                    IF s.patchErr /\ s.result \notin {"requeue", "error"}
                    THEN "patchLost" ELSE s.result]

Resume(m, s) ==
    IF s.pc = "Deferred" THEN Finish(m, s)
    ELSE Goto(m, AfterPatch(s)) /\ UNCHANGED <<queue, last>>

\* The last request of a Patch, and the code after it.  Not finding an object
\* whose finalizer this very Patch removed is not an error.
PatchStatus(m) ==
    /\ scope[m].pc \in PatchPCs /\ scope[m].part = "status"
    /\ LET s == scope[m]
           failed == [s EXCEPT !.patchErr = TRUE]
           released == s.obj.deleting /\ ~s.obj.finalizer /\ ~api[m].exists
       IN  \/ ~ChangesStatus(s) /\ Resume(m, s) /\ UNCHANGED api /\ NoFault
           \/ /\ ChangesStatus(s) /\ api[m].exists
              /\ Accepted(m, MergeStatus(s.before, s.obj, api[m]))
              /\ Resume(m, s)
           \/ /\ ChangesStatus(s) /\ Rejected(m)
              /\ Resume(m, IF released THEN s ELSE failed)
    /\ UNCHANGED <<cache, vms, cluster, bootstrap>>

-----------------------------------------------------------------------------
(* Informer, work queue and process.                                       *)

\* The informer catches up with the API server; the event queues the machine.
CacheSync(m) ==
    /\ cache[m] # api[m]
    /\ cache' = [cache EXCEPT ![m] = api[m]]
    /\ queue' = queue \cup {m}
    /\ UNCHANGED <<api, scope, last, vms, cluster, bootstrap, budget>>

\* The watches of SetupWithManager: an event on a Machine queues its
\* MicrovmMachine, and a Cluster that is unpaused or whose infrastructure
\* becomes ready, or a MicrovmCluster that appears, queues all of them.  Only
\* machines the informer knows are found.
Watched_NotMapped(ms) == queue
Watched(ms) == queue \cup {m \in ms : cache[m].exists}

Enqueue_NoResync(m) == FALSE
\* The periodic resync, and events that change nothing a machine waits for,
\* queue a machine the informer knows.
Enqueue(m) ==
    /\ cache[m].exists /\ m \notin queue
    /\ queue' = queue \cup {m}
    /\ UNCHANGED <<api, cache, scope, last, vms, cluster, bootstrap, budget>>

\* The manager dies and restarts: every scope is lost, the informer lists
\* every object anew and each of them is queued.
Crash ==
    /\ Fault("crash")
    /\ scope' = [m \in Machines |-> IdleScope]
    /\ cache' = api
    /\ queue' = Machines
    /\ last' = [m \in Machines |-> "none"]
    /\ UNCHANGED <<api, vms, cluster, bootstrap>>

-----------------------------------------------------------------------------
(* Everything else: users, the other Cluster API controllers, the hosts.   *)

\* A user changes Spec.VMSpec of an existing object, if the webhook lets it.
UserEdit(m) ==
    /\ api[m].exists /\ ~api[m].edited
    /\ MachineUpdateAdmitted(api[m].edited, TRUE)
    /\ api' = [api EXCEPT ![m].edited = TRUE]
    /\ Fault("edit")
    /\ UNCHANGED <<cache, queue, scope, last, vms, cluster, bootstrap>>

UserDelete(m) ==
    /\ api[m].exists /\ ~api[m].deleting
    /\ api' = [api EXCEPT ![m] = Stored([@ EXCEPT !.deleting = TRUE])]
    /\ UNCHANGED <<cache, queue, scope, last, vms, cluster, bootstrap, budget>>

CloseGate ==
    /\ Fault("gate") /\ cluster.gate = "ok"
    /\ \E g \in Gates \ {"ok"} : cluster' = [cluster EXCEPT !.gate = g]
    /\ UNCHANGED <<api, cache, queue, scope, last, vms, bootstrap>>

\* What a reconcile stopped at is put right: an owner is set, a MicrovmCluster
\* created, a pause ended.  That is an event, except that the creation of a
\* Cluster, or the end of an error in looking it up, is none.
OpenGate ==
    /\ cluster.gate # "ok"
    /\ cluster' = [cluster EXCEPT !.gate = "ok"]
    /\ queue' = IF cluster.gate = "noCluster" THEN queue ELSE Watched(Machines)
    /\ UNCHANGED <<api, cache, scope, last, vms, bootstrap, budget>>

\* Cluster.Status takes over readiness and failure domains from MicrovmCluster.
InfrastructureReady ==
    /\ ~cluster.infraReady
    /\ \E S \in (SUBSET Hosts) \ {{}} :
          cluster' = [cluster EXCEPT !.infraReady = TRUE, !.fds = S]
    /\ queue' = Watched(Machines)
    /\ UNCHANGED <<api, cache, scope, last, vms, bootstrap, budget>>

\* The hosts of the placement are edited, possibly down to none.  The watch on
\* Cluster ignores the change of its failure domains.
PlacementChanged ==
    /\ Fault("placement") /\ cluster.infraReady
    /\ \E S \in SUBSET Hosts : cluster' = [cluster EXCEPT !.fds = S]
    /\ UNCHANGED <<api, cache, queue, scope, last, vms, bootstrap>>

CredentialsLost ==
    /\ Fault("creds") /\ cluster.creds
    /\ cluster' = [cluster EXCEPT !.creds = FALSE]
    /\ UNCHANGED <<api, cache, queue, scope, last, vms, bootstrap>>

CredentialsRestored ==
    /\ ~cluster.creds
    /\ cluster' = [cluster EXCEPT !.creds = TRUE]
    /\ UNCHANGED <<api, cache, queue, scope, last, vms, bootstrap, budget>>

\* The bootstrap provider names the data secret in the Machine, then fills it.
\* Secrets are not watched.
BootstrapStep(m) ==
    /\ \/ /\ bootstrap[m] = "none"
          /\ bootstrap' = [bootstrap EXCEPT ![m] = "named"]
          /\ queue' = Watched({m})
       \/ /\ bootstrap[m] = "named"
          /\ bootstrap' = [bootstrap EXCEPT ![m] = "data"]
          /\ UNCHANGED queue
    /\ UNCHANGED <<api, cache, scope, last, vms, cluster, budget>>

VMMoves(u, from, to) ==
    /\ vms[u].state \in from
    /\ vms' = [vms EXCEPT ![u].state = to]
    /\ UNCHANGED <<api, cache, queue, scope, last, cluster, bootstrap>>

VMStarts(u) == VMMoves(u, {"PENDING"}, "CREATED") /\ NoFault
VMRemoved(u) == VMMoves(u, {"DELETING"}, "REMOVED") /\ NoFault
VMFails(u) ==
    /\ Fault("vmfail")
    /\ \/ VMMoves(u, {"PENDING", "CREATED"}, "FAILED")
       \/ VMMoves(u, {"PENDING", "CREATED"}, "OTHER")
\* A host operator deletes the microVM behind the controller's back.
VMDeletedByOperator(u) ==
    Fault("operator") /\ VMMoves(u, LiveStates, "DELETING")

-----------------------------------------------------------------------------
Reconcile(m) ==
    \/ ReconcileIgnored(m) \/ ReconcileFailed(m)
    \/ ReconcileDelete(m) \/ ReconcileNormal(m)
    \/ GetNormal(m) \/ Create(m) \/ GetDelete(m) \/ Delete(m)
    \/ PatchConditions(m) \/ PatchObject(m) \/ PatchStatus(m)

Environment ==
    \/ \E m \in Machines : UserDelete(m) \/ UserEdit(m) \/ BootstrapStep(m)
    \/ CloseGate \/ OpenGate \/ InfrastructureReady \/ PlacementChanged
    \/ CredentialsLost \/ CredentialsRestored

Flintlock ==
    \E u \in UIDs : VMStarts(u) \/ VMRemoved(u) \/ VMFails(u) \/ VMDeletedByOperator(u)

Next ==
    \/ \E m \in Machines : Reconcile(m) \/ CacheSync(m) \/ Enqueue(m)
    \/ Crash
    \/ Environment
    \/ Flintlock

Spec == Init /\ [][Next]_vars

(***************************************************************************)
(* Fairness.  A worker that can take its next step takes it; the informer  *)
(* catches up; the resync (main.go's SyncPeriod) queues every machine      *)
(* again and again; hosts finish what they started; whoever closed the     *)
(* gate or lost the secrets puts that right.  Failures, deletions and      *)
(* placement edits are never fair.                                         *)
(***************************************************************************)
Fairness ==
    /\ \A m \in Machines : /\ WF_vars(Reconcile(m))
                           /\ WF_vars(CacheSync(m))
                           /\ WF_vars(Enqueue(m))
                           /\ WF_vars(BootstrapStep(m))
    /\ \A u \in UIDs : WF_vars(VMStarts(u)) /\ WF_vars(VMRemoved(u))
    /\ WF_vars(OpenGate) /\ WF_vars(InfrastructureReady)
    /\ WF_vars(CredentialsRestored)

FairSpec == Spec /\ Fairness

-----------------------------------------------------------------------------
(* Properties.                                                             *)

Owned(m) == {u \in UIDs : vms[u].owner = m}

\* No microVM is ever created for a machine that could be deleted without the
\* controller noticing: at the moment a host creates it, the API server holds
\* the machine's object with the finalizer on it (reconcileNormal adds it and
\* insists on a successful Patch before mvmSvc.Create), however old the cache.
FinalizerBeforeCreate ==
    [][\A u \in UIDs :
          vms[u].state = "UNUSED" /\ vms'[u].state # "UNUSED" =>
            \E m \in Machines : /\ vms'[u].owner = m
                                /\ api[m].exists /\ api[m].finalizer]_vars

\* A machine reported ready is protected by the finalizer, and its provider ID
\* names a microVM that was created for this machine (and no other) on the
\* very host the ID names, whatever patches failed or were lost on the way.
ReadyNamesOwnVM ==
    \A m \in Machines : api[m].ready =>
        /\ api[m].finalizer
        /\ api[m].providerID # NoID
        /\ LET vm == vms[api[m].providerID.uid]
           IN  vm.owner = m /\ vm.host = api[m].providerID.host

\* No wake-up is lost.  A machine whose key is not queued, not being reconciled
\* and whose cached copy is current is finished (ready and not deleted), or what
\* its last reconcile stopped at is still so (no owner, paused, no bootstrap
\* data...), or that reconcile ended in one of the three ways only the periodic
\* resync recovers from: an error in looking up the Cluster taken for a missing
\* one, the client error reconcileDelete swallows, a failed deferred Patch.
NothingForgotten ==
    \A m \in Machines :
        /\ scope[m].pc = "Idle" /\ m \notin queue
        /\ cache[m] = api[m] /\ api[m].exists
        => \/ last[m] = "done" /\ api[m].ready /\ ~api[m].deleting
           \/ last[m] = "gated" /\ cluster.gate # "ok"
           \/ last[m] = "waiting" /\ (~cluster.infraReady \/ bootstrap[m] = "none")
           \/ last[m] \in {"noCluster", "swallowed", "patchLost"}

\* Once a MicrovmMachine has left the API server, no host has any microVM that
\* was created for it: the finalizer is released only after the clean-up.
GoneMeansClean ==
    \A m \in Machines : ~api[m].exists =>
        \A u \in Owned(m) : vms[u].state = "REMOVED"

\* The hosts never hold two microVMs of one machine at the same time, also
\* while failed calls are retried, hosts are edited out of the placement and
\* operators delete microVMs behind the controller's back.
NoDuplicateVM ==
    \A m \in Machines : \A u, v \in Owned(m) :
        vms[u].state \in KnownStates /\ vms[v].state \in KnownStates => u = v

\* reconcileDelete asks a host to delete a microVM only when the stored object
\* already says the machine is not ready.
NotReadyBeforeDelete ==
    \A m \in Machines : scope[m].pc = "Delete" => ~api[m].ready

\* Between reconciles the three places that report readiness agree: the Ready
\* flag, the MicrovmReady condition and, for a ready machine, the VM state,
\* although Patch writes them in two separate requests.
StatusAgrees ==
    \A m \in Machines : scope[m].pc = "Idle" =>
        /\ api[m].ready <=> api[m].cond = "True"
        /\ api[m].ready => api[m].vmState = "Running"

\* The spec is immutable, so the microVM of a ready machine is the one the spec
\* describes: it was built from the spec the API server holds.
BuiltFromSpec ==
    \A m \in Machines :
        api[m].ready => vms[api[m].providerID.uid].edited = api[m].edited

\* A deleted machine eventually leaves the API server, also when clients
\* cannot be built for a while and that error is swallowed, if its microVM is
\* on record or the host has not found a microVM without a UID.
DeletionCompletes ==
    \A m \in Machines :
        (/\ api[m].deleting
         /\ api[m].providerID # NoID \/ EmptyUIDAnswer = "NotFound")
        ~> ~api[m].exists

\* The same for every deleted machine, as the comment on MachineFinalizer has
\* it: the clean-up is followed by the removal from the API server.
EveryDeletionCompletes ==
    \A m \in Machines : api[m].deleting ~> ~api[m].exists

\* Readiness, stored in two requests of which one may fail, be refused or be
\* lost with the process, is put right: the Ready flag and the MicrovmReady
\* condition of a machine eventually agree again, or the machine is gone.
StatusSettles ==
    \A m \in Machines :
        TRUE ~> ~api[m].exists \/ (api[m].ready <=> api[m].cond = "True")

\* A machine that is not deleted eventually becomes ready or reports why not.
ProvisioningConverges ==
    \A m \in Machines :
        TRUE ~> \/ api[m].ready \/ api[m].deleting \/ ~api[m].exists
                \/ api[m].cond \in {"ProvisionFailed", "UnknownState"}

\* A ready machine whose microVM has failed eventually stops being ready: only
\* the periodic resync makes the controller look again.
FailureSurfaces ==
    \A m \in Machines :
        (/\ api[m].ready
         /\ \E u \in UIDs : /\ u = GetInstanceID(api[m])
                            /\ vms[u].state \in {"FAILED", "OTHER"})
        ~> ~api[m].ready
=============================================================================
