------------------------- MODULE MachineInvariant -------------------------
(***************************************************************************)
(* The inductive strengthening of MachineController's safety properties.   *)
(* FinalizerBeforeCreate and ReadyNamesOwnVM speak of the stored object    *)
(* and the hosts; the steps that could break them act on copies of the     *)
(* object that may be old (the cache, and a scope's obj and before).  The  *)
(* invariant relates each copy to what the API server has by now.          *)
(***************************************************************************)
EXTENDS MachineController

DeletePCs == {"GetDelete", "PatchNotReady", "Delete"}
NormalPCs == {"GetNormal", "PatchFinalizer", "Create", "PatchProviderID"}

\* A running reconcile knows its host, and the UID of a microVM it has found.
TypedScope(s) ==
    /\ s \in Scopes
    /\ s.pc \notin {"Idle", "Deferred"} => s.fd \in Hosts
    /\ s.pc = "PatchFinalizer" /\ KnownVM(s) => s.uid \in UIDs
    /\ s.pc = "GetNormal" => ~KnownVM(s)

ScopeTyped == \A m \in Machines : TypedScope(scope[m])

TypeInv == TypeOK /\ ScopeTyped

\* While the object exists, what an earlier copy of it had is still there.
Precedes(old, m) ==
    api[m].exists => /\ old.deleting => api[m].deleting
                     /\ old.finalizer => api[m].finalizer
                     /\ old.providerID # NoID => api[m].providerID # NoID

\* An object last seen with the finalizer and not deleted cannot be gone: only
\* reconcileDelete lets go of the finalizer, after the cache saw the deletion.
Guarded(old, m) ==
    old.exists /\ old.finalizer /\ ~old.deleting => api[m].exists

\* A provider ID names a microVM created for this machine on that host.
Owns(m, id) == id # NoID => vms[id.uid].owner = m /\ vms[id.uid].host = id.host

\* The stored object and the cache's copy of it.
StoreOK(m) ==
    /\ Precedes(cache[m], m)
    /\ Guarded(cache[m], m)
    /\ Owns(m, api[m].providerID)
    /\ Owns(m, cache[m].providerID)
    /\ api[m].ready => api[m].finalizer /\ api[m].providerID # NoID
    /\ cache[m].ready => cache[m].finalizer /\ cache[m].providerID # NoID
    /\ api[m].deleting => api[m].finalizer

\* A running reconcile: its copies of the object, wherever it stands.
ScopeCore(m, s) ==
    /\ s.before.exists
    /\ Precedes(s.before, m)
    /\ Guarded(s.before, m)
    /\ s.obj.deleting <=> s.before.deleting
    /\ s.before.providerID # NoID => s.obj.providerID # NoID
    /\ Owns(m, s.obj.providerID)
    /\ s.obj.ready => /\ s.obj.providerID # NoID
                      /\ api[m].exists => api[m].finalizer /\ api[m].providerID # NoID
    /\ s.obj.deleting => cache[m].deleting \/ ~cache[m].exists
    /\ ~s.obj.deleting /\ s.before.finalizer => s.obj.finalizer

\* What holds in addition before each of its remote calls.
ScopeCall(m, s) ==
    /\ s.pc \in DeletePCs => s.obj.deleting
    /\ s.pc \in NormalPCs => ~s.obj.deleting
    /\ s.pc = "PatchFinalizer" =>
          /\ s.obj.finalizer
          /\ s.part = "status" /\ ~s.patchErr => api[m].exists /\ api[m].finalizer
          /\ KnownVM(s) => vms[s.uid].owner = m /\ vms[s.uid].host = s.fd
    /\ s.pc \in {"Create", "PatchProviderID"} =>
          s.obj.finalizer /\ api[m].exists /\ api[m].finalizer
    /\ s.pc = "PatchProviderID" =>
          /\ s.obj.providerID # NoID
          /\ s.part = "status" /\ ~s.patchErr => api[m].providerID # NoID

ScopeOK(m, s) == s.pc # "Idle" => ScopeCore(m, s) /\ ScopeCall(m, s)

VMInv == \A u \in UIDs : vms[u].state = "UNUSED" => vms[u].owner = NoMachine

\* The inductive invariant: every copy of a machine's object that the cache or
\* a running reconcile holds is an earlier state of the stored object, and each
\* remote call is reached only in the situation reconcileNormal and
\* reconcileDelete intend.
SafetyInv == VMInv /\ \A m \in Machines : StoreOK(m) /\ ScopeOK(m, scope[m])

-----------------------------------------------------------------------------
(* What NothingForgotten needs: why a machine that is not queued may sleep, *)
(* and what a running reconcile is going to leave behind.                   *)

\* The informer knows every object there is, and has seen no edit too early.
CacheKnows(m) ==
    /\ api[m].exists => cache[m].exists /\ (cache[m].edited => api[m].edited)
    /\ cache[m].deleting => cache[m].finalizer

Waits(m) == ~cluster.infraReady \/ bootstrap[m] = "none"

\* If no event queued the machine since its reconcile began, the cache still is
\* what the reconcile began with.
WakeScope(m, s) ==
    /\ api[m].exists /\ m \notin queue => cache[m] = s.before
    /\ s.before.deleting => s.before.finalizer
    /\ s.pc = "Deferred" =>
          /\ s.result \in {"waiting", "done", "swallowed", "requeue", "error"}
          /\ s.result = "waiting" /\ api[m].exists /\ m \notin queue => Waits(m)
          /\ s.result = "done" =>
                IF s.obj.deleting
                THEN /\ ~s.obj.finalizer
                     /\ s.part = "status" /\ ~s.patchErr => ~api[m].exists
                ELSE s.obj.ready

\* NothingForgotten for one machine, with the gates that opening makes no event.
Asleep(m) ==
    /\ m \notin queue /\ cache[m] = api[m] /\ api[m].exists
    => \/ last[m] = "done" /\ api[m].ready /\ ~api[m].deleting
       \/ last[m] = "gated" /\ cluster.gate \notin {"ok", "noCluster"}
       \/ last[m] = "waiting" /\ Waits(m)
       \/ last[m] \in {"noCluster", "swallowed", "patchLost"}

WakeOK(m) ==
    /\ CacheKnows(m)
    /\ IF scope[m].pc = "Idle" THEN Asleep(m) ELSE WakeScope(m, scope[m])

WakeInv == \A m \in Machines : WakeOK(m)

-----------------------------------------------------------------------------
(* What GoneMeansClean and NoDuplicateVM need, when every reconcile starts  *)
(* from the stored object and what it does is not lost on the way.          *)

Tracked(m) == {u \in Owned(m) : vms[u].state # "REMOVED"}

\* The provider ID names whatever microVM the machine still has.
Names(m, id) == \A u \in Tracked(m) : id # NoID /\ id.uid = u

\* A provider ID names the host of a machine whose failure domain is set.
OnPin(m, id) == MachineFD[m] # NoHost /\ id # NoID => id.host = MachineFD[m]

\* The provider ID a running reconcile has in hand is the stored one, but for
\* the time between Create and the request that stores the new one.
CleanScope(m, s) ==
    /\ OnPin(m, s.obj.providerID)
    /\ s.pc \in {"GetNormal", "PatchFinalizer", "Create"} =>
          s.obj.providerID = s.before.providerID
    /\ IF s.pc = "PatchProviderID" /\ s.part # "status"
       THEN /\ api[m].providerID = s.before.providerID
            /\ Names(m, s.obj.providerID)
       ELSE /\ api[m].exists => api[m].providerID = s.obj.providerID
            /\ Names(m, api[m].providerID)
    /\ s.pc \in {"GetNormal", "GetDelete"} /\ s.obj.providerID # NoID =>
          s.obj.providerID.host = s.fd
    /\ s.pc = "PatchFinalizer" /\ KnownVM(s) =>
          s.obj.providerID = [host |-> s.fd, uid |-> s.uid]
    /\ s.pc = "PatchFinalizer" /\ ~KnownVM(s) => Tracked(m) = {}
    /\ s.pc \in NormalPCs /\ MachineFD[m] # NoHost => s.fd = MachineFD[m]
    /\ s.pc = "Create" => Tracked(m) = {}
    /\ s.obj.deleting /\ ~s.obj.finalizer => Tracked(m) = {}

CleanOK(m) ==
    /\ Tracked(m) # {} => api[m].exists /\ api[m].finalizer
    /\ OnPin(m, api[m].providerID)
    /\ IF scope[m].pc = "Idle" THEN Names(m, api[m].providerID)
       ELSE CleanScope(m, scope[m])

CleanInv == \A m \in Machines : CleanOK(m)

-----------------------------------------------------------------------------
(* What StatusAgrees needs, likewise: how far the three fields have come in *)
(* each request of each Patch.                                              *)

Agrees(o) ==
    /\ o.ready <=> o.cond = "True"
    /\ o.ready => o.vmState = "Running"
SameStatus(a, b) == a.cond = b.cond /\ a.ready = b.ready /\ a.vmState = b.vmState
Down(o) == ~o.ready /\ o.cond # "True"

\* The conditions have been sent, the status has not.
HalfSent(a, b) == a.ready = b.ready /\ a.vmState = b.vmState

StatusScope(m, s) ==
    /\ Agrees(s.before) /\ Agrees(s.obj)
    /\ s.obj.ready \/ s.pc \in NormalPCs => ~Waits(m)
    /\ api[m].exists =>
          /\ s.pc \in NormalPCs \cup {"GetDelete"} =>
                SameStatus(api[m], s.before) /\ SameStatus(s.obj, s.before)
          /\ s.pc = "PatchNotReady" =>
                /\ Down(s.obj)
                /\ IF s.part = "conditions" THEN SameStatus(api[m], s.before)
                   ELSE api[m].cond # "True" /\ HalfSent(api[m], s.before)
          /\ s.pc = "Delete" => Down(api[m]) /\ Down(s.obj)
          /\ s.pc = "Deferred" =>
                \/ Down(api[m]) /\ Down(s.obj)
                \/ s.part = "conditions" /\ SameStatus(api[m], s.before)
                \/ /\ s.part # "conditions"
                   /\ api[m].cond = s.obj.cond /\ HalfSent(api[m], s.before)

StatusOK(m) ==
    /\ api[m].ready => ~Waits(m)
    /\ ~api[m].exists => Down(api[m])
    /\ IF scope[m].pc = "Idle" THEN Agrees(api[m]) ELSE StatusScope(m, scope[m])

StatusInv == \A m \in Machines : StatusOK(m)

\* What NotReadyBeforeDelete needs: the copy a deletion started from knows of
\* every Ready that is stored.
ReadyOK(m) ==
    /\ ~api[m].exists => ~api[m].ready
    /\ scope[m].pc \in {"GetDelete", "PatchNotReady"} /\ api[m].ready =>
          scope[m].before.ready
    /\ scope[m].pc = "PatchNotReady" => ~scope[m].obj.ready
    /\ scope[m].pc = "Delete" => ~api[m].ready

ReadyInv == \A m \in Machines : ReadyOK(m)

-----------------------------------------------------------------------------
(* What PlacedInPool of the composition needs of this controller: all hosts *)
(* in its sight, those of microVMs included, are in a set L.                *)

IdIn(id, L) == id # NoID => id.host \in L

HostsInScope(s, L) ==
    /\ IdIn(s.obj.providerID, L) /\ IdIn(s.before.providerID, L)
    /\ s.pc # "Deferred" => s.fd \in L

HostsOf(m, L) ==
    /\ IdIn(api[m].providerID, L) /\ IdIn(cache[m].providerID, L)
    /\ scope[m].pc # "Idle" => HostsInScope(scope[m], L)

HostsIn(L) ==
    /\ \A m \in Machines : HostsOf(m, L)
    /\ \A u \in UIDs : vms[u].state # "UNUSED" => vms[u].host \in L

\* The hosts a machine without a provider ID may be given.
HostSources(L) ==
    /\ cluster.fds \subseteq L
    /\ \A m \in Machines : MachineFD[m] # NoHost => MachineFD[m] \in L
=============================================================================
