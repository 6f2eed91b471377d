----------------------- MODULE MachineReliableProofs -----------------------
(***************************************************************************)
(* What the controller guarantees as long as certain failures do not       *)
(* happen.  Each theorem names the failures it excludes and allows all the *)
(* others; none of the exclusions can be dropped (see README).             *)
(***************************************************************************)
EXTENDS MachineProofs, MachineSteps

-----------------------------------------------------------------------------
(* A deleted object never comes back, whatever a late Patch sends.         *)

LEMMA RequestRemoves ==
    ASSUME IInv, NEW m \in Machines,
           PatchConditions(m) \/ PatchObject(m) \/ PatchStatus(m)
    PROVE  api'[m].exists => api[m].exists
  <1>1. \/ api'[m] = api[m]
        \/ api[m].exists
    BY PatchConditionsStep, PatchObjectStep, PatchStatusStep
       DEF IInv, StatusSent, Unsent, Sent, Lost
  <1>2. QED
    BY <1>1

LEMMA NoRevival ==
    ASSUME IInv, [Next]_vars, NEW m \in Machines
    PROVE  api'[m].exists => api[m].exists
  <1>1. CASE Reconcile(m)
    <2>1. \/ UNCHANGED api
          \/ PatchConditions(m) \/ PatchObject(m) \/ PatchStatus(m)
      BY <1>1 DEF Reconcile, ReconcileIgnored, ReconcileFailed, ReconcileDelete,
                  ReconcileNormal, Enter, GetNormal, Create, GetDelete, Delete
    <2>2. QED
      BY <2>1, RequestRemoves
  <1>2. QED
    BY <1>1, StepCases DEF IInv, CacheSync, UserDelete, UserEdit, Crash, Apart

-----------------------------------------------------------------------------
(* The error of a Patch.                                                   *)

\* The error flag of a scope after each step of its reconcile: it is cleared
\* when a Patch begins and set by a request that failed.
LEMMA ErrorStep ==
    ASSUME IInv, [Next]_vars, NEW m \in Machines, scope'[m].patchErr
    PROVE  \/ scope[m].patchErr
           \/ "patch" \in Faults \/ "stale" \in Faults
           \/ ~api'[m].exists
  <1>1. PICK s, t : s = scope[m] /\ t = scope'[m]
    OBVIOUS
  <1>2. TypeInv
    BY DEF IInv
  <1>3. CASE Reconcile(m)
    <2>1. CASE ReconcileIgnored(m) \/ ReconcileFailed(m)
      BY <2>1 DEF ReconcileIgnored, ReconcileFailed
    <2>2. CASE ReconcileDelete(m) \/ ReconcileNormal(m)
      BY <1>1, <1>2, <2>2, EntryStep DEF Entered, Returned, Patching
    <2>3. CASE GetNormal(m)
      BY <1>1, <1>2, <2>3, GetNormalStep DEF GetNormalDone, Returned, Patching
    <2>4. CASE GetDelete(m)
      BY <1>1, <1>2, <2>4, GetDeleteStep DEF GetDeleteDone, Returned, Patching
    <2>5. CASE Create(m)
      BY <1>1, <1>2, <2>5, CreateStep DEF CreateDone, Returned, Patching
    <2>6. CASE Delete(m)
      BY <1>1, <1>2, <2>6, DeleteStep DEF DeleteDone, Returned
    <2>7. CASE PatchConditions(m)
      BY <1>2, <2>7, PatchConditionsStep DEF Unsent, Sent, Lost
    <2>8. CASE PatchObject(m)
      BY <1>2, <2>8, PatchObjectStep DEF Unsent, Sent, Lost
    <2>9. CASE PatchStatus(m)
      <3>1. PICK err \in BOOLEAN : Resumed(m, s, err) /\ s.pc \in PatchPCs
        BY <1>1, <1>2, <2>9, PatchStatusStep
      <3>2. ~t.patchErr
        BY <1>1, <3>1 DEF Resumed, PatchDone, Returned, Patching, IdleScope
      <3>3. QED
        BY <1>1, <3>2
    <2>10. QED
      BY <1>3, <2>1, <2>2, <2>3, <2>4, <2>5, <2>6, <2>7, <2>8, <2>9 DEF Reconcile
  <1>4. CASE Crash
    BY <1>4 DEF Crash, IdleScope
  <1>5. CASE CacheSync(m) \/ UserDelete(m) \/ UserEdit(m) \/ Apart(m)
    BY <1>5 DEF CacheSync, UserDelete, UserEdit, Apart
  <1>6. QED
    BY <1>2, <1>3, <1>4, <1>5, StepCases

\* While the API server answers and the informer keeps up, a Patch fails only
\* because the object is gone.
ErrorMeansGone == \A m \in Machines : scope[m].patchErr => ~api[m].exists

LEMMA ErrorInvariant ==
    ASSUME "patch" \notin Faults, "stale" \notin Faults
    PROVE  Spec => []ErrorMeansGone
  <1>1. Init => IInv /\ ErrorMeansGone
    <2>1. Init => ErrorMeansGone
      BY DEF Init, ErrorMeansGone, IdleScope
    <2>2. QED
      BY <2>1, InitTypeInv, InitSafe DEF IInv
  <1>2. IInv /\ ErrorMeansGone /\ [Next]_vars => (IInv /\ ErrorMeansGone)'
    <2> SUFFICES ASSUME IInv, ErrorMeansGone, [Next]_vars
                 PROVE  (IInv /\ ErrorMeansGone)'
      OBVIOUS
    <2>1. IInv'
      BY NextTypeInv, NextSafe DEF IInv
    <2>2. ASSUME NEW m \in Machines, scope'[m].patchErr PROVE ~api'[m].exists
      BY <2>2, ErrorStep, NoRevival DEF ErrorMeansGone
    <2>3. QED
      BY <2>1, <2>2 DEF ErrorMeansGone
  <1>3. QED
    BY <1>1, <1>2, PTL DEF Spec

-----------------------------------------------------------------------------
(* The microVMs of a machine.                                              *)

\* Only its own Create gives a machine a microVM.
LEMMA TrackedShrinks ==
    ASSUME IInv, [Next]_vars, NEW m \in Machines,
           ~ \E u \in UIDs : Create(m) /\ VMCreated(m, u)
    PROVE  Tracked(m)' \subseteq Tracked(m)
  <1> SUFFICES ASSUME NEW v \in UIDs, vms'[v].owner = m, vms'[v].state # "REMOVED"
               PROVE  vms[v].owner = m /\ vms[v].state # "REMOVED"
    BY DEF Tracked, Owned
  <1>1. CASE UNCHANGED vms
    BY <1>1
  <1>2. ASSUME NEW n \in Machines, NEW u \in UIDs, Create(n), VMCreated(n, u)
        PROVE  vms[v].owner = m /\ vms[v].state # "REMOVED"
    <2>1. vms'[u].owner = n /\ \A w \in UIDs \ {u} : vms'[w] = vms[w]
      BY <1>2 DEF VMCreated, IInv, TypeInv, TypeOK
    <2>2. n # m
      BY <1>2
    <2>3. QED
      BY <2>1, <2>2
  <1>3. ASSUME NEW u \in UIDs, NEW to, vms[u].state \in KnownStates,
               vms' = [vms EXCEPT ![u].state = to]
        PROVE  vms[v].owner = m /\ vms[v].state # "REMOVED"
    BY <1>3 DEF KnownStates, LiveStates, IInv, TypeInv, TypeOK, VMs
  <1>4. QED
    BY <1>1, <1>2, <1>3, VMsStep DEF IInv

\* A host that answers knows every microVM of the machine it is asked about,
\* so not finding one means there is none.
LEMMA NotFoundMeansNone ==
    ASSUME IInv, NEW m \in Machines, NEW s, s = scope[m],
           s.pc \in {"GetNormal", "GetDelete"}, CleanOK(m),
           "misread" \notin Faults, GetNotFound(s)
    PROVE  Tracked(m) = {}
  <1> SUFFICES ASSUME NEW u \in Tracked(m) PROVE FALSE
    OBVIOUS
  <1>1. /\ u \in UIDs /\ vms[u].owner = m /\ vms[u].state # "REMOVED"
    BY DEF Tracked, Owned
  <1>2. api[m].exists /\ CleanScope(m, s)
    BY DEF CleanOK
  <1>3. s.obj.providerID # NoID /\ s.obj.providerID.uid = u
    BY <1>2 DEF CleanScope, Names
  <1>4. s.obj.providerID.host = s.fd
    BY <1>2, <1>3 DEF CleanScope
  <1>5. vms[u].host = s.fd
    BY <1>3, <1>4, RunningScope DEF ScopeCore, Owns
  <1>6. vms[u].state \in KnownStates
    BY <1>1, SentinelAssumption DEF IInv, SafetyInv, VMInv, TypeInv, TypeOK, VMs
  <1>7. Present(s)
    BY <1>1, <1>3, <1>5, <1>6 DEF Present, GetInstanceID
  <1>8. QED
    BY <1>7 DEF GetNotFound, Fault

-----------------------------------------------------------------------------
(* CleanInv is inductive.                                                  *)

\* Nothing of the machine changes that CleanInv speaks of, but that microVMs
\* of it may go.
LEMMA CleanFrame ==
    ASSUME NEW m \in Machines, CleanOK(m), Tracked(m)' \subseteq Tracked(m),
           scope'[m] = scope[m], api'[m].exists <=> api[m].exists,
           api[m].finalizer => api'[m].finalizer,
           api'[m].providerID = api[m].providerID
    PROVE  CleanOK(m)'
  <1>1. /\ Tracked(m)' # {} => api'[m].exists /\ api'[m].finalizer
        /\ OnPin(m, api[m].providerID)'
    BY DEF CleanOK, OnPin
  <1>2. \A id : Names(m, id) => Names(m, id)'
    BY DEF Names
  <1>3. CASE scope[m].pc = "Idle"
    BY <1>1, <1>2, <1>3 DEF CleanOK
  <1>4. CASE scope[m].pc # "Idle"
    <2>1. CleanScope(m, scope[m])
      BY <1>4 DEF CleanOK
    <2>2. CleanScope(m, scope[m])'
      BY <1>2, <2>1 DEF CleanScope, OnPin, KnownVM
    <2>3. QED
      BY <1>1, <1>4, <2>2 DEF CleanOK
  <1>5. QED
    BY <1>3, <1>4

\* The reconcile goes on with the provider ID it has, which is the stored one.
LEMMA CleanMoves ==
    ASSUME NEW m \in Machines, CleanOK(m), Tracked(m)' \subseteq Tracked(m),
           api'[m].exists <=> api[m].exists,
           api[m].finalizer => api'[m].finalizer,
           api'[m].providerID = api[m].providerID,
           NEW s, s = scope[m], s.pc # "Idle",
           ~(s.pc = "PatchProviderID" /\ s.part # "status"),
           NEW t, t = scope'[m], t.pc \notin {"Idle", "GetNormal", "GetDelete",
                                              "PatchProviderID"},
           t.obj.providerID = s.obj.providerID, t.before = s.before,
           t.pc \in {"PatchFinalizer", "Create"} =>
              s.pc \in {"GetNormal", "PatchFinalizer"} /\ t.fd = s.fd,
           t.pc = "PatchFinalizer" /\ KnownVM(t) =>
              t.obj.providerID = [host |-> t.fd, uid |-> t.uid],
           \/ t.pc = "PatchFinalizer" /\ ~KnownVM(t)
           \/ t.pc = "Create"
           \/ t.obj.deleting /\ ~t.obj.finalizer
           => Tracked(m) = {}
    PROVE  CleanOK(m)'
  <1>1. /\ Tracked(m)' # {} => api'[m].exists /\ api'[m].finalizer
        /\ OnPin(m, api[m].providerID)'
    BY DEF CleanOK, OnPin
  <1>2. \A id : Names(m, id) => Names(m, id)'
    BY DEF Names
  <1>3. CleanScope(m, s)
    BY DEF CleanOK
  <1>4. /\ OnPin(m, t.obj.providerID)' /\ Names(m, api[m].providerID)'
        /\ api'[m].exists => api'[m].providerID = t.obj.providerID
    BY <1>2, <1>3 DEF CleanScope, OnPin
  <1>5. t.pc \in NormalPCs => t.pc \in {"PatchFinalizer", "Create"}
    BY DEF NormalPCs
  <1>6. t.pc \in NormalPCs /\ MachineFD[m] # NoHost => t.fd = MachineFD[m]
    BY <1>3, <1>5 DEF CleanScope, NormalPCs
  <1>7. t.pc \in {"PatchFinalizer", "Create"} => t.obj.providerID = t.before.providerID
    BY <1>3 DEF CleanScope
  <1>8. CleanScope(m, t)'
    BY <1>4, <1>6, <1>7 DEF CleanScope, KnownVM
  <1>9. QED
    BY <1>1, <1>8 DEF CleanOK

LEMMA EntryClean ==
    ASSUME IInv, NEW m \in Machines, CleanOK(m), "stale" \notin Faults,
           ReconcileDelete(m) \/ ReconcileNormal(m)
    PROVE  CleanOK(m)'
  <1>1. PICK t, o : t = scope'[m] /\ o = api[m]
    OBVIOUS
  <1>2. /\ UNCHANGED <<api, vms>> /\ scope[m].pc = "Idle" /\ Entered(m, t, o)
    BY <1>1, EntryStep DEF IInv
  <1>3. o \in Objects
    BY <1>1 DEF IInv, TypeInv, TypeOK
  <1>4. Tracked(m)' = Tracked(m)
    BY <1>2 DEF Tracked, Owned
  <1>5. /\ Tracked(m) # {} => o.exists /\ o.finalizer
        /\ OnPin(m, o.providerID) /\ Names(m, o.providerID)
    BY <1>1, <1>2 DEF CleanOK
  <1>6. /\ [o EXCEPT !.finalizer = TRUE].providerID = o.providerID
        /\ [o EXCEPT !.finalizer = TRUE].finalizer = TRUE
        /\ \A c \in {"WaitingForClusterInfra", "WaitingForBootstrapData"} :
              LET w == [o EXCEPT !.cond = c]
              IN  w.providerID = o.providerID /\ w.finalizer = o.finalizer
    BY <1>3 DEF Objects
  <1>7. /\ t.before = o /\ t.obj.providerID = o.providerID
        /\ t.pc \in {"Deferred", "GetDelete", "GetNormal", "PatchFinalizer"}
        /\ t.pc = "PatchFinalizer" => o.providerID = NoID /\ ~KnownVM(t)
        /\ t.pc # "Deferred" => t.fd \in GetFailureDomain(m, o)
        /\ ~t.obj.finalizer => ~o.finalizer
    BY <1>2, <1>6 DEF Entered, Returned, Patching, KnownVM
  <1>8. t.pc # "Deferred" =>
           /\ o.providerID # NoID => o.providerID.host = t.fd
           /\ MachineFD[m] # NoHost => t.fd = MachineFD[m]
    BY <1>5, <1>7 DEF GetFailureDomain, OnPin
  <1>9. /\ OnPin(m, t.obj.providerID)' /\ Names(m, o.providerID)'
        /\ OnPin(m, o.providerID)'
    BY <1>4, <1>5, <1>7 DEF OnPin, Names
  <1>10. /\ t.pc = "PatchFinalizer" => Tracked(m)' = {}
         /\ ~t.obj.finalizer => Tracked(m)' = {}
    BY <1>4, <1>5, <1>7 DEF Names
  <1>11. CleanScope(m, t)'
    BY <1>1, <1>2, <1>7, <1>8, <1>9, <1>10 DEF CleanScope, NormalPCs, KnownVM
  <1>12. QED
    BY <1>1, <1>2, <1>4, <1>5, <1>7, <1>9, <1>11 DEF CleanOK

LEMMA GetNormalClean ==
    ASSUME IInv, NEW m \in Machines, CleanOK(m), "misread" \notin Faults, GetNormal(m)
    PROVE  CleanOK(m)'
  <1>1. PICK s, t : s = scope[m] /\ t = scope'[m]
    OBVIOUS
  <1>2. UNCHANGED <<api, vms>> /\ s.pc = "GetNormal" /\ GetNormalDone(s, t)
    BY <1>1, GetNormalStep DEF IInv
  <1>3. Tracked(m)' = Tracked(m)
    BY <1>2 DEF Tracked, Owned
  <1>4. /\ s.obj \in Objects /\ ScopeCall(m, s) /\ TypedScope(s) /\ CleanScope(m, s)
    BY <1>1, <1>2, RunningScope DEF CleanOK
  <1>5. ~s.obj.deleting /\ ~KnownVM(s)
    BY <1>2, <1>4 DEF ScopeCall, NormalPCs, TypedScope
  <1>6. PICK g : g = [s.obj EXCEPT !.finalizer = TRUE]
    OBVIOUS
  <1>7. g.providerID = s.obj.providerID /\ g.deleting = s.obj.deleting
    BY <1>4, <1>6 DEF Objects
  <1>8. CASE Returned(t, "error", s.obj) /\ t.before = s.before
    BY <1>1, <1>2, <1>3, <1>5, <1>8, CleanMoves DEF Returned
  <1>9. CASE /\ GetNotFound(s) /\ t.state = s.state /\ Patching(t, "PatchFinalizer", g)
             /\ t.before = s.before /\ t.fd = s.fd
    <2>1. Tracked(m) = {}
      BY <1>1, <1>2, <1>9, NotFoundMeansNone
    <2>2. /\ t.pc = "PatchFinalizer" /\ t.obj.providerID = s.obj.providerID
          /\ ~KnownVM(t)
      BY <1>5, <1>7, <1>9 DEF Patching, KnownVM
    <2>3. QED
      BY <1>1, <1>2, <1>3, <1>9, <2>1, <2>2, CleanMoves
  <1>10. CASE /\ GetFound(s) /\ t.uid = GetInstanceID(s.obj)
              /\ t.state = vms[GetInstanceID(s.obj)].state
              /\ Patching(t, "PatchFinalizer", g)
              /\ t.before = s.before /\ t.fd = s.fd
    <2>1. GetInstanceID(s.obj) \in UIDs /\ t.state \in KnownStates
      BY <1>10, PresentType DEF GetFound
    <2>2. /\ s.obj.providerID # NoID /\ t.uid = s.obj.providerID.uid
          /\ s.obj.providerID \in ProviderIDs
      BY <1>4, <1>10, <2>1, SentinelAssumption DEF GetInstanceID, Objects
    <2>3. s.obj.providerID = [host |-> t.fd, uid |-> t.uid]
      BY <1>2, <1>4, <1>10, <2>2 DEF CleanScope, ProviderIDs
    <2>4. /\ t.pc = "PatchFinalizer" /\ t.obj.providerID = s.obj.providerID
          /\ KnownVM(t) /\ ~t.obj.deleting
      BY <1>5, <1>7, <1>10, <2>1 DEF Patching, KnownVM, KnownStates, LiveStates
    <2>5. QED
      BY <1>1, <1>2, <1>3, <1>10, <2>3, <2>4, CleanMoves
  <1>11. QED
    BY <1>2, <1>6, <1>8, <1>9, <1>10 DEF GetNormalDone

LEMMA GetDeleteClean ==
    ASSUME IInv, NEW m \in Machines, CleanOK(m), "misread" \notin Faults, GetDelete(m)
    PROVE  CleanOK(m)'
  <1>1. PICK s, t : s = scope[m] /\ t = scope'[m]
    OBVIOUS
  <1>2. UNCHANGED <<api, vms>> /\ s.pc = "GetDelete" /\ GetDeleteDone(s, t)
    BY <1>1, GetDeleteStep DEF IInv
  <1>3. Tracked(m)' = Tracked(m)
    BY <1>2 DEF Tracked, Owned
  <1>4. s.obj \in Objects /\ CleanScope(m, s)
    BY <1>1, <1>2, RunningScope DEF CleanOK
  <1>5. PICK f, d : /\ f = [s.obj EXCEPT !.finalizer = FALSE]
                    /\ d = SetNotReady(s.obj, "Deleting")
    OBVIOUS
  <1>6. /\ f.providerID = s.obj.providerID /\ d.providerID = s.obj.providerID
        /\ d.deleting = s.obj.deleting /\ d.finalizer = s.obj.finalizer
    BY <1>4, <1>5 DEF Objects, SetNotReady
  <1>7. s.obj.deleting /\ ~s.obj.finalizer => Tracked(m) = {}
    BY <1>4 DEF CleanScope
  <1>8. CASE Returned(t, "error", s.obj) /\ t.before = s.before
    BY <1>1, <1>2, <1>3, <1>7, <1>8, CleanMoves DEF Returned
  <1>9. CASE GetNotFound(s) /\ Returned(t, "done", f) /\ t.before = s.before
    <2>1. Tracked(m) = {}
      BY <1>1, <1>2, <1>9, NotFoundMeansNone
    <2>2. t.pc = "Deferred" /\ t.obj.providerID = s.obj.providerID
      BY <1>6, <1>9 DEF Returned
    <2>3. QED
      BY <1>1, <1>2, <1>3, <1>9, <2>1, <2>2, CleanMoves
  <1>10. CASE Patching(t, "PatchNotReady", d) /\ t.before = s.before
    <2>1. /\ t.pc = "PatchNotReady" /\ t.obj.providerID = s.obj.providerID
          /\ t.obj.deleting /\ ~t.obj.finalizer => Tracked(m) = {}
      BY <1>6, <1>7, <1>10 DEF Patching
    <2>2. QED
      BY <1>1, <1>2, <1>3, <1>10, <2>1, CleanMoves
  <1>11. QED
    BY <1>2, <1>5, <1>8, <1>9, <1>10 DEF GetDeleteDone

\* The only microVM of the machine is the one just created.
LEMMA CreateClean ==
    ASSUME IInv, NEW m \in Machines, CleanOK(m), "lostReply" \notin Faults, Create(m)
    PROVE  CleanOK(m)'
  <1>1. PICK s, t : s = scope[m] /\ t = scope'[m]
    OBVIOUS
  <1>2. UNCHANGED api /\ s.pc = "Create" /\ CreateDone(m, s, t)
    BY <1>1, CreateStep DEF IInv
  <1>3. /\ s.obj \in Objects /\ ScopeCall(m, s) /\ CleanScope(m, s)
    BY <1>1, <1>2, RunningScope DEF CleanOK
  <1>4. Tracked(m) = {}
    BY <1>2, <1>3 DEF CleanScope
  <1>5. GetLabels(m, s.obj) \in Objects /\ GetLabels(m, s.obj).providerID = s.obj.providerID
    BY <1>3, ObjectOperators, SameProviderID
  <1>6. ASSUME NEW o \in {s.obj, GetLabels(m, s.obj)}, UNCHANGED vms,
               Returned(t, "error", o), t.before = s.before
        PROVE  CleanOK(m)'
    <2>1. Tracked(m)' = Tracked(m)
      BY <1>6 DEF Tracked, Owned
    <2>2. t.pc = "Deferred" /\ t.obj.providerID = s.obj.providerID
      BY <1>5, <1>6 DEF Returned
    <2>3. QED
      BY <1>1, <1>2, <1>4, <1>6, <2>1, <2>2, CleanMoves
  <1>7. ASSUME NEW u \in UIDs, VMCreated(m, u), t.before = s.before, t.fd = s.fd,
               Patching(t, "PatchProviderID",
                        SetProviderID(GetLabels(m, s.obj), s.fd, u))
        PROVE  CleanOK(m)'
    <2>1. Tracked(m)' \subseteq {u}
      BY <1>4, <1>7 DEF VMCreated, Tracked, Owned, IInv, TypeInv, TypeOK
    <2>2. /\ t.pc = "PatchProviderID" /\ t.part = "conditions"
          /\ t.obj.providerID = [host |-> s.fd, uid |-> u]
      BY <1>5, <1>7 DEF Patching, SetProviderID, Objects
    <2>3. t.obj.providerID # NoID
      BY <1>1, <1>2, <2>2, RunningScope, SentinelAssumption DEF TypedScope, ProviderIDs
    <2>4. Names(m, t.obj.providerID)'
      BY <2>1, <2>2, <2>3 DEF Names
    <2>5. MachineFD[m] # NoHost => t.fd = MachineFD[m]
      BY <1>2, <1>3, <1>7 DEF CleanScope, NormalPCs
    <2>6. OnPin(m, t.obj.providerID)' /\ OnPin(m, api[m].providerID)'
      BY <1>2, <1>7, <2>2, <2>5 DEF OnPin, CleanOK
    <2>7. /\ api'[m].exists /\ api'[m].finalizer
          /\ api'[m].providerID = t.before.providerID
      BY <1>2, <1>3, <1>7 DEF ScopeCall, CleanScope
    <2>8. ~t.obj.deleting
      <3>1. ~s.obj.deleting
        BY <1>2, <1>3 DEF ScopeCall, NormalPCs
      <3>2. GetLabels(m, s.obj).deleting = s.obj.deleting
        BY <1>3 DEF GetLabels, Objects
      <3>3. t.obj.deleting = GetLabels(m, s.obj).deleting
        BY <1>5, <1>7 DEF Patching, SetProviderID, Objects
      <3>4. QED
        BY <3>1, <3>2, <3>3
    <2>9. CleanScope(m, t)'
      BY <2>2, <2>4, <2>5, <2>6, <2>7, <2>8 DEF CleanScope
    <2>10. QED
      BY <1>1, <2>2, <2>6, <2>7, <2>9 DEF CleanOK
  <1>8. QED
    BY <1>2, <1>6, <1>7 DEF CreateDone

LEMMA DeleteClean ==
    ASSUME IInv, NEW m \in Machines, CleanOK(m), Delete(m),
           Tracked(m)' \subseteq Tracked(m)
    PROVE  CleanOK(m)'
  <1>1. PICK s, t : s = scope[m] /\ t = scope'[m]
    OBVIOUS
  <1>2. UNCHANGED api /\ s.pc = "Delete" /\ DeleteDone(s, t)
    BY <1>1, DeleteStep DEF IInv
  <1>3. s.obj \in Objects /\ CleanScope(m, s)
    BY <1>1, <1>2, RunningScope DEF CleanOK
  <1>4. PICK d : d = SetNotReady(s.obj, "DeleteFailed")
    OBVIOUS
  <1>5. /\ d.providerID = s.obj.providerID
        /\ d.deleting = s.obj.deleting /\ d.finalizer = s.obj.finalizer
    BY <1>3, <1>4 DEF Objects, SetNotReady
  <1>6. s.obj.deleting /\ ~s.obj.finalizer => Tracked(m) = {}
    BY <1>3 DEF CleanScope
  <1>7. /\ t.pc = "Deferred" /\ t.before = s.before
        /\ t.obj.providerID = s.obj.providerID
        /\ t.obj.deleting /\ ~t.obj.finalizer => Tracked(m) = {}
    BY <1>2, <1>4, <1>5, <1>6 DEF DeleteDone, Returned
  <1>8. QED
    BY <1>1, <1>2, <1>7, CleanMoves

\* Neither the conditions nor the status touch what CleanInv speaks of.
LEMMA QuietRequest ==
    ASSUME NEW m \in Machines, StoreOK(m), NEW a, NEW was, NEW err,
           a.exists = api[m].exists, a.deleting = api[m].deleting,
           a.finalizer = api[m].finalizer, a.providerID = api[m].providerID,
           Unsent(m, was, err) \/ Sent(m, a, was, err) \/ Lost(m)
    PROVE  /\ api'[m].exists <=> api[m].exists
           /\ api'[m].finalizer <=> api[m].finalizer
           /\ api'[m].providerID = api[m].providerID
  <1>1. ~(a.deleting /\ ~a.finalizer)
    BY DEF StoreOK
  <1>2. api'[m] = api[m] \/ api'[m] = a
    BY <1>1, StoredFields DEF Unsent, Sent, Lost
  <1>3. QED
    BY <1>2

LEMMA PatchConditionsClean ==
    ASSUME IInv, NEW m \in Machines, CleanOK(m), PatchConditions(m)
    PROVE  CleanOK(m)'
  <1>1. PICK s, t : s = scope[m] /\ t = scope'[m]
    OBVIOUS
  <1>2. PICK a : a = MergeConditions(s.before, s.obj, api[m])
    OBVIOUS
  <1>3. /\ UNCHANGED vms /\ s.pc \in PatchPCs /\ s.part = "conditions"
        /\ PartDone(s, t, "object")
        /\ \/ Unsent(m, s.patchErr, t.patchErr)
           \/ Sent(m, a, s.patchErr, t.patchErr)
           \/ Lost(m)
    BY <1>1, <1>2, PatchConditionsStep DEF IInv
  <1>4. api[m] \in Objects /\ StoreOK(m) /\ CleanScope(m, s)
    BY <1>1, <1>3, RunningScope DEF CleanOK, PatchPCs
  <1>5. /\ a.exists = api[m].exists /\ a.deleting = api[m].deleting
        /\ a.finalizer = api[m].finalizer /\ a.providerID = api[m].providerID
    BY <1>2, <1>4, ConditionsFields
  <1>6. /\ api'[m].exists <=> api[m].exists
        /\ api'[m].finalizer <=> api[m].finalizer
        /\ api'[m].providerID = api[m].providerID
    BY <1>3, <1>4, <1>5, QuietRequest
  <1>7. Tracked(m)' = Tracked(m)
    BY <1>3 DEF Tracked, Owned
  <1>8. /\ Tracked(m)' # {} => api'[m].exists /\ api'[m].finalizer
        /\ OnPin(m, api[m].providerID)'
    BY <1>6, <1>7 DEF CleanOK, OnPin
  <1>9. \A id : Names(m, id) => Names(m, id)'
    BY <1>7 DEF Names
  <1>10. CleanScope(m, t)'
    BY <1>3, <1>4, <1>6, <1>7, <1>9 DEF CleanScope, OnPin, KnownVM, PartDone
  <1>11. QED
    BY <1>1, <1>3, <1>8, <1>10 DEF CleanOK, PartDone, PatchPCs

\* The request that stores the provider ID, and the one that lets the object go.
LEMMA PatchObjectClean ==
    ASSUME IInv, NEW m \in Machines, CleanOK(m), PatchObject(m),
           "patch" \notin Faults, "stale" \notin Faults
    PROVE  CleanOK(m)'
  <1>1. PICK s, t : s = scope[m] /\ t = scope'[m]
    OBVIOUS
  <1>2. PICK a : a = MergeObject(s.before, s.obj, api[m])
    OBVIOUS
  <1>3. /\ UNCHANGED vms /\ s.pc \in PatchPCs /\ s.part = "object"
        /\ PartDone(s, t, "status")
        /\ \/ ~ChangesObject(s) /\ Unsent(m, s.patchErr, t.patchErr)
           \/ Sent(m, a, s.patchErr, t.patchErr)
           \/ Lost(m)
    BY <1>1, <1>2, PatchObjectStep DEF IInv
  <1>4. /\ api[m] \in Objects /\ CleanScope(m, s)
        /\ ScopeCore(m, s) /\ ScopeCall(m, s)
    BY <1>1, <1>3, RunningScope DEF CleanOK, PatchPCs
  <1>5. /\ a.exists = api[m].exists
        /\ a.finalizer = Merge(s.before.finalizer, s.obj.finalizer, api[m].finalizer)
        /\ a.providerID = Merge(s.before.providerID, s.obj.providerID, api[m].providerID)
    BY <1>2, <1>4, MergedFields
  <1>6. api[m].exists => a.providerID = s.obj.providerID
    BY <1>4, <1>5 DEF CleanScope, Merge
  <1>7. Tracked(m)' = Tracked(m)
    BY <1>3 DEF Tracked, Owned
  <1>8. ASSUME Tracked(m) # {} PROVE a.finalizer
    <2>1. api[m].finalizer /\ ~(s.obj.deleting /\ ~s.obj.finalizer)
      BY <1>4, <1>8 DEF CleanOK, CleanScope
    <2>2. ~s.obj.finalizer => ~s.before.finalizer
      BY <1>4, <2>1 DEF ScopeCore
    <2>3. s.obj \in Objects /\ s.before \in Objects
      BY <1>1, <1>3, RunningScope DEF PatchPCs
    <2>4. s.obj.finalizer \in BOOLEAN /\ s.before.finalizer \in BOOLEAN
      BY <2>3 DEF Objects
    <2>5. QED
      BY <1>5, <2>1, <2>2, <2>4 DEF Merge
  <1>9. CASE Sent(m, a, s.patchErr, t.patchErr) /\ Stored(a) = a
    <2>1. api'[m] = a /\ api[m].exists
      BY <1>9 DEF Sent
    <2>2. a.exists /\ a.providerID = s.obj.providerID /\ Names(m, s.obj.providerID)
      BY <1>4, <1>5, <1>6, <2>1 DEF CleanScope
    <2>3. Names(m, s.obj.providerID)' /\ OnPin(m, s.obj.providerID)
      BY <1>4, <1>7, <2>2 DEF Names, CleanScope
    <2>4. CleanScope(m, t)'
      BY <1>3, <1>4, <1>7, <2>1, <2>2, <2>3 DEF CleanScope, OnPin, KnownVM, PartDone
    <2>5. QED
      BY <1>1, <1>3, <1>7, <1>8, <2>1, <2>2, <2>3, <2>4
         DEF CleanOK, PartDone, PatchPCs, OnPin
  <1>10. CASE Sent(m, a, s.patchErr, t.patchErr) /\ Stored(a) # a
    <2>1. ~a.finalizer /\ ~api'[m].exists /\ api'[m].providerID = NoID
      BY <1>10, StoredFields DEF Sent, GoneObject, NewObject
    <2>2. Tracked(m)' = {}
      BY <1>7, <1>8, <2>1
    <2>3. \A id : Names(m, id)'
      BY <2>2 DEF Names
    <2>4. CleanScope(m, t)'
      BY <1>3, <1>4, <2>1, <2>2, <2>3 DEF CleanScope, OnPin, KnownVM, PartDone
    <2>5. QED
      BY <1>1, <1>3, <2>1, <2>2, <2>4 DEF CleanOK, PartDone, PatchPCs, OnPin
  <1>11. CASE api'[m] = api[m] /\ (~api[m].exists \/ ~ChangesObject(s))
    <2>1. s.pc = "PatchProviderID" => api[m].exists
      BY <1>4 DEF ScopeCall
    <2>2. s.pc = "PatchProviderID" => api[m].providerID = s.obj.providerID
      BY <1>3, <1>4, <1>11, <2>1 DEF CleanScope, ChangesObject
    <2>3. /\ api[m].exists => api[m].providerID = s.obj.providerID
          /\ Names(m, api[m].providerID)
      BY <1>4, <2>2 DEF CleanScope
    <2>4. Names(m, api[m].providerID)'
      BY <1>7, <1>11, <2>3 DEF Names
    <2>5. CleanScope(m, t)'
      BY <1>3, <1>4, <1>7, <1>11, <2>3, <2>4 DEF CleanScope, OnPin, KnownVM, PartDone
    <2>6. QED
      BY <1>1, <1>3, <1>7, <1>11, <2>5 DEF CleanOK, PartDone, PatchPCs, OnPin
  <1>12. QED
    BY <1>3, <1>9, <1>10, <1>11 DEF Unsent, Lost

LEMMA PatchStatusClean ==
    ASSUME IInv, NEW m \in Machines, CleanOK(m), PatchStatus(m)
    PROVE  CleanOK(m)'
  <1>1. PICK s, t : s = scope[m] /\ t = scope'[m]
    OBVIOUS
  <1>2. PICK a : a = MergeStatus(s.before, s.obj, api[m])
    OBVIOUS
  <1>3. PICK err \in BOOLEAN :
           /\ UNCHANGED vms /\ s.pc \in PatchPCs /\ s.part = "status"
           /\ StatusSent(m, s, err) /\ Resumed(m, s, err)
    BY <1>1, PatchStatusStep DEF IInv
  <1>4. /\ api[m] \in Objects /\ s.obj \in Objects /\ StoreOK(m) /\ CleanScope(m, s)
        /\ ScopeCall(m, s)
    BY <1>1, <1>3, RunningScope DEF CleanOK, PatchPCs
  <1>5. /\ a.exists = api[m].exists /\ a.deleting = api[m].deleting
        /\ a.finalizer = api[m].finalizer /\ a.providerID = api[m].providerID
    BY <1>2, <1>4, StatusFields
  <1>6. \/ Unsent(m, s.patchErr, err)
        \/ Sent(m, a, s.patchErr, err)
        \/ Lost(m) /\ err
    BY <1>2, <1>3 DEF StatusSent
  <1>7. /\ api'[m].exists <=> api[m].exists
        /\ api'[m].finalizer <=> api[m].finalizer
        /\ api'[m].providerID = api[m].providerID
    BY <1>4, <1>5, <1>6, QuietRequest
  <1>8. Tracked(m)' = Tracked(m)
    BY <1>3 DEF Tracked, Owned
  <1>9. /\ Tracked(m)' # {} => api'[m].exists /\ api'[m].finalizer
        /\ OnPin(m, api[m].providerID)'
    BY <1>7, <1>8 DEF CleanOK, OnPin
  <1>10. CASE s.pc = "Deferred"
    <2>1. t.pc = "Idle"
      BY <1>1, <1>3, <1>10 DEF Resumed, IdleScope
    <2>2. Names(m, api[m].providerID)'
      BY <1>4, <1>7, <1>8, <1>10 DEF CleanScope, Names
    <2>3. QED
      BY <1>1, <1>9, <2>1, <2>2 DEF CleanOK
  <1>11. CASE s.pc # "Deferred" /\ ~(t.pc = "PatchProviderID")
    <2>1. PatchDone(s, t, err)
      BY <1>1, <1>3, <1>11 DEF Resumed
    <2>2. PICK p : p = ParsedObject(s.obj, s.state)
      OBVIOUS
    <2>3. /\ p.deleting = s.obj.deleting /\ p.finalizer = s.obj.finalizer
          /\ p.providerID = s.obj.providerID
      BY <1>4, <2>2, ParsedFields
    <2>4. /\ t.before = s.before /\ t.pc \in {"Deferred", "Create", "Delete"}
          /\ t.obj = s.obj \/ t.obj = p
          /\ t.pc = "Create" => s.pc = "PatchFinalizer" /\ ~KnownVM(s) /\ t.fd = s.fd
      BY <1>11, <2>1, <2>2 DEF PatchDone, Returned, Patching
    <2>5. /\ t.obj.providerID = s.obj.providerID
          /\ t.obj.deleting = s.obj.deleting /\ t.obj.finalizer = s.obj.finalizer
      BY <2>3, <2>4
    <2>6. /\ t.pc = "Create" => Tracked(m) = {}
          /\ t.obj.deleting /\ ~t.obj.finalizer => Tracked(m) = {}
      BY <1>4, <2>4, <2>5 DEF CleanScope
    <2>7. t.obj.providerID = s.obj.providerID
      BY <2>5
    <2>8. /\ s.pc # "Idle" /\ ~(s.pc = "PatchProviderID" /\ s.part # "status")
          /\ t.pc \notin {"Idle", "GetNormal", "GetDelete", "PatchProviderID",
                          "PatchFinalizer"}
          /\ t.pc \in {"PatchFinalizer", "Create"} =>
                s.pc \in {"GetNormal", "PatchFinalizer"} /\ t.fd = s.fd
      BY <1>3, <2>4 DEF PatchPCs
    <2>9. t.before = s.before
      BY <2>4
    <2>10. QED
      BY <1>1, <1>7, <1>8, <2>6, <2>7, <2>8, <2>9, CleanMoves
  <1>12. CASE s.pc # "Deferred" /\ t.pc = "PatchProviderID"
    <2>1. PatchDone(s, t, err)
      BY <1>1, <1>3, <1>12 DEF Resumed
    <2>2. /\ ~err /\ s.pc = "PatchFinalizer" /\ KnownVM(s) /\ t.before = s.before
          /\ t.fd = s.fd
          /\ Patching(t, "PatchProviderID", SetProviderID(s.obj, s.fd, s.uid))
      BY <1>12, <2>1 DEF PatchDone, Returned
    <2>3. ~s.patchErr
      BY <1>6, <2>2 DEF Unsent, Sent
    <2>4. api[m].exists
      BY <1>3, <1>4, <2>2, <2>3 DEF ScopeCall
    <2>5. /\ s.obj.providerID = [host |-> s.fd, uid |-> s.uid]
          /\ s.obj.providerID = s.before.providerID
          /\ api[m].providerID = s.obj.providerID /\ Names(m, s.obj.providerID)
      BY <1>4, <2>2, <2>4 DEF CleanScope
    <2>6. /\ t.obj.providerID = s.obj.providerID /\ t.part = "conditions"
          /\ t.obj.deleting = s.obj.deleting
      BY <1>4, <2>2, <2>5 DEF Patching, SetProviderID, Objects
    <2>7. ~t.obj.deleting
      BY <1>4, <2>2, <2>6 DEF ScopeCall, NormalPCs
    <2>8. Names(m, t.obj.providerID)'
      BY <1>8, <2>5, <2>6 DEF Names
    <2>9. /\ OnPin(m, t.obj.providerID)'
          /\ MachineFD[m] # NoHost => t.fd = MachineFD[m]
      BY <1>4, <2>2, <2>6 DEF CleanScope, OnPin, NormalPCs
    <2>10. CleanScope(m, t)'
      BY <1>7, <1>12, <2>2, <2>5, <2>6, <2>7, <2>8, <2>9 DEF CleanScope
    <2>11. QED
      BY <1>1, <1>9, <1>12, <2>10 DEF CleanOK
  <1>13. QED
    BY <1>10, <1>11, <1>12

\* A user who deletes an object without the finalizer finds no microVM of it.
LEMMA UserDeleteClean ==
    ASSUME IInv, NEW m \in Machines, CleanOK(m), UserDelete(m)
    PROVE  CleanOK(m)'
  <1>1. PICK a : a = [api[m] EXCEPT !.deleting = TRUE]
    OBVIOUS
  <1>2. api[m] \in Objects
    BY DEF IInv, TypeInv, TypeOK
  <1>3. /\ a.finalizer = api[m].finalizer /\ a.exists = api[m].exists
        /\ a.providerID = api[m].providerID
    BY <1>1, <1>2 DEF Objects
  <1>4. UNCHANGED <<scope, vms>> /\ api'[m] = Stored(a)
    BY <1>1 DEF UserDelete, IInv, TypeInv, TypeOK
  <1>5. Tracked(m)' = Tracked(m)
    BY <1>4 DEF Tracked, Owned
  <1>6. CASE Stored(a) = a
    BY <1>3, <1>4, <1>5, <1>6, CleanFrame
  <1>7. CASE Stored(a) # a
    <2>1. ~api[m].finalizer /\ ~api'[m].exists /\ api'[m].providerID = NoID
      BY <1>3, <1>4, <1>7, StoredFields DEF GoneObject, NewObject
    <2>2. Tracked(m)' = {}
      BY <1>5, <2>1 DEF CleanOK
    <2>3. (\A id : Names(m, id)') /\ OnPin(m, api[m].providerID)'
      BY <2>1, <2>2 DEF Names, OnPin
    <2>4. scope[m].pc # "Idle" => CleanScope(m, scope[m])'
      <3> SUFFICES ASSUME scope[m].pc # "Idle"
                   PROVE  CleanScope(m, scope[m])'
        OBVIOUS
      <3>1. CleanScope(m, scope[m]) /\ ScopeCall(m, scope[m])
        BY RunningScope DEF CleanOK
      <3>2. scope[m].pc # "PatchProviderID"
        BY <2>1, <3>1 DEF ScopeCall
      <3>3. QED
        BY <1>4, <2>1, <2>2, <2>3, <3>1, <3>2 DEF CleanScope, OnPin, KnownVM
    <2>5. QED
      BY <1>4, <2>2, <2>3, <2>4 DEF CleanOK
  <1>8. QED
    BY <1>6, <1>7

LEMMA NextClean ==
    ASSUME Faults \cap {"stale", "crash", "patch", "lostReply", "misread"} = {},
           IInv, CleanInv, [Next]_vars
    PROVE  CleanInv'
  <1> SUFFICES ASSUME NEW m \in Machines PROVE CleanOK(m)'
    BY DEF CleanInv
  <1>1. /\ CleanOK(m) /\ TypeInv
        /\ "stale" \notin Faults /\ "crash" \notin Faults /\ "patch" \notin Faults
        /\ "lostReply" \notin Faults /\ "misread" \notin Faults
    BY DEF CleanInv, IInv
  <1>2. CASE Create(m)
    BY <1>1, <1>2, CreateClean
  <1>3. CASE ~Create(m)
    <2>1. Tracked(m)' \subseteq Tracked(m)
      BY <1>3, TrackedShrinks
    <2>2. CASE Reconcile(m)
      <3>1. CASE ReconcileIgnored(m) \/ ReconcileFailed(m)
        BY <1>1, <2>1, <3>1, CleanFrame DEF ReconcileIgnored, ReconcileFailed
      <3>2. QED
        BY <1>1, <1>3, <2>1, <2>2, <3>1, EntryClean, GetNormalClean, GetDeleteClean,
           DeleteClean, PatchConditionsClean, PatchObjectClean, PatchStatusClean
           DEF Reconcile
    <2>3. CASE UserEdit(m)
      <3>1. /\ api'[m] = [api[m] EXCEPT !.edited = TRUE] /\ api[m] \in Objects
            /\ UNCHANGED scope
        BY <2>3 DEF UserEdit, IInv, TypeInv, TypeOK
      <3>2. /\ api'[m].exists = api[m].exists /\ api'[m].finalizer = api[m].finalizer
            /\ api'[m].providerID = api[m].providerID
        BY <3>1 DEF Objects
      <3>3. QED
        BY <1>1, <2>1, <3>1, <3>2, CleanFrame
    <2>4. CASE CacheSync(m) \/ Apart(m)
      BY <1>1, <2>1, <2>4, CleanFrame DEF CacheSync, Apart
    <2>5. ~Crash
      BY <1>1 DEF Crash, Fault
    <2>6. QED
      BY <1>1, <2>2, <2>3, <2>4, <2>5, UserDeleteClean, StepCases
  <1>4. QED
    BY <1>2, <1>3

\* What the two theorems below share.  MaxFaults and the other kinds of failure
\* are free.
LEMMA CleanInvariant ==
    ASSUME Faults \cap {"stale", "crash", "patch", "lostReply", "misread"} = {}
    PROVE  Spec => [](IInv /\ CleanInv)
  <1>1. Init => IInv /\ CleanInv
    <2>1. Init => CleanInv
      <3> SUFFICES ASSUME Init, NEW m \in Machines PROVE CleanOK(m)
        BY DEF CleanInv
      <3>1. \A u \in UIDs : vms[u].owner # m
        BY SentinelAssumption DEF Init
      <3>2. Tracked(m) = {}
        BY <3>1 DEF Tracked, Owned
      <3>3. api[m].providerID = NoID /\ scope[m].pc = "Idle"
        BY DEF Init, NewObject, IdleScope
      <3>4. QED
        BY <3>2, <3>3 DEF CleanOK, OnPin, Names
    <2>2. QED
      BY <2>1, InitTypeInv, InitSafe DEF IInv
  <1>2. IInv /\ CleanInv /\ [Next]_vars => (IInv /\ CleanInv)'
    BY NextTypeInv, NextSafe, NextClean DEF IInv
  <1>3. QED
    BY <1>1, <1>2, PTL DEF Spec

\* Nothing is left behind: once the API server has let go of a MicrovmMachine,
\* no host has a microVM that was created for it.  Any number of failed calls to
\* hosts, of microVMs that fail or are deleted by an operator, of edits of the
\* placement, of the credentials and of the specs may happen.
THEOREM GoneTheorem ==
    ASSUME Faults \cap {"stale", "crash", "patch", "lostReply", "misread"} = {}
    PROVE  Spec => []GoneMeansClean
  <1>1. CleanInv => GoneMeansClean
    BY DEF CleanInv, CleanOK, Tracked, GoneMeansClean
  <1>2. QED
    BY <1>1, CleanInvariant, PTL

\* A machine never has two microVMs at a time, under the same conditions.
THEOREM DuplicateTheorem ==
    ASSUME Faults \cap {"stale", "crash", "patch", "lostReply", "misread"} = {}
    PROVE  Spec => []NoDuplicateVM
  <1>1. IInv /\ CleanInv => NoDuplicateVM
    <2> SUFFICES ASSUME IInv, CleanInv, NEW m \in Machines,
                        NEW u \in Owned(m), NEW v \in Owned(m),
                        vms[u].state \in KnownStates, vms[v].state \in KnownStates
                 PROVE  u = v
      BY DEF NoDuplicateVM
    <2>1. u \in Tracked(m) /\ v \in Tracked(m)
      BY DEF Tracked, KnownStates, LiveStates
    <2>2. \E id : Names(m, id)
      BY DEF CleanInv, CleanOK, CleanScope
    <2>3. QED
      BY <2>1, <2>2 DEF Names
  <1>2. QED
    BY <1>1, CleanInvariant, PTL

-----------------------------------------------------------------------------
(* ReadyInv is inductive.                                                  *)

\* The first two requests of a Patch leave Ready alone, unless the object goes.
LEMMA ReadyUntouched ==
    ASSUME IInv, NEW m \in Machines, PatchConditions(m) \/ PatchObject(m)
    PROVE  \/ /\ api'[m].exists = api[m].exists /\ api'[m].ready = api[m].ready
           \/ ~api'[m].exists /\ ~api'[m].ready
  <1>1. PICK c, o : /\ c = MergeConditions(scope[m].before, scope[m].obj, api[m])
                    /\ o = MergeObject(scope[m].before, scope[m].obj, api[m])
    OBVIOUS
  <1>2. api[m] \in Objects
    BY DEF IInv, TypeInv, TypeOK
  <1>3. /\ c.exists = api[m].exists /\ c.ready = api[m].ready
        /\ o.exists = api[m].exists /\ o.ready = api[m].ready
    BY <1>1, <1>2, ConditionsFields, MergedFields
  <1>4. \A a : Stored(a) = a \/ (~Stored(a).exists /\ ~Stored(a).ready)
    BY StoredFields DEF GoneObject, NewObject
  <1>5. CASE PatchConditions(m)
    <2>1. api'[m] = api[m] \/ api'[m] = Stored(c)
      BY <1>1, <1>5, PatchConditionsStep DEF IInv, Unsent, Sent, Lost
    <2>2. QED
      BY <1>3, <1>4, <2>1
  <1>6. CASE PatchObject(m)
    <2>1. api'[m] = api[m] \/ api'[m] = Stored(o)
      BY <1>1, <1>6, PatchObjectStep DEF IInv, Unsent, Sent, Lost
    <2>2. QED
      BY <1>3, <1>4, <2>1
  <1>7. QED
    BY <1>5, <1>6

\* A flag the object does not have, and the stored one only if the copy has it,
\* is not set by the merge.
LEMMA MergedFlag ==
    ASSUME NEW b \in BOOLEAN, NEW o \in BOOLEAN, NEW a \in BOOLEAN, ~o, a => b
    PROVE  Merge(b, o, a) = FALSE
  BY Zenon DEF Merge

\* The last request of a Patch that says the machine is not ready.
LEMMA ReadyCleared ==
    ASSUME IInv, NEW m \in Machines, ReadyOK(m), PatchStatus(m)
    PROVE  ReadyOK(m)'
  <1>1. PICK s, t : s = scope[m] /\ t = scope'[m]
    OBVIOUS
  <1>2. PICK a : a = MergeStatus(s.before, s.obj, api[m])
    OBVIOUS
  <1>3. PICK err \in BOOLEAN :
           /\ s.pc \in PatchPCs /\ StatusSent(m, s, err) /\ Resumed(m, s, err)
    BY <1>1, PatchStatusStep DEF IInv
  <1>4. /\ api[m] \in Objects /\ s.obj \in Objects /\ s.before \in Objects
    BY <1>1, <1>3, RunningScope DEF PatchPCs
  <1>5. /\ a.exists = api[m].exists
        /\ a.ready = Merge(s.before.ready, s.obj.ready, api[m].ready)
    BY <1>2, <1>4, StatusFields
  <1>6. /\ Stored(a) = a \/ (~Stored(a).exists /\ ~Stored(a).ready)
    BY StoredFields DEF GoneObject, NewObject
  <1>7. \/ api'[m] = api[m]
        \/ api[m].exists /\ api'[m] = Stored(a)
    BY <1>2, <1>3 DEF StatusSent, Unsent, Sent, Lost
  <1>8. ~api'[m].exists => ~api'[m].ready
    BY <1>5, <1>6, <1>7 DEF ReadyOK
  <1>9. /\ t.pc \notin {"GetDelete", "PatchNotReady"}
        /\ t.pc = "Delete" => s.pc = "PatchNotReady" /\ ~err
    BY <1>1, <1>3 DEF Resumed, PatchDone, Returned, Patching, IdleScope
  <1>10. ASSUME t.pc = "Delete" PROVE ~api'[m].ready
    <2>1. ~s.obj.ready /\ (api[m].ready => s.before.ready)
      BY <1>1, <1>9, <1>10 DEF ReadyOK
    <2>2. /\ s.obj.ready \in BOOLEAN /\ s.before.ready \in BOOLEAN
          /\ api[m].ready \in BOOLEAN
      BY <1>4 DEF Objects
    <2>3. a.ready = FALSE
      BY <1>5, <2>1, <2>2, MergedFlag
    <2>4. CASE api'[m] = Stored(a)
      BY <1>6, <2>3, <2>4
    <2>5. CASE ~ChangesStatus(s) /\ api'[m] = api[m]
      <3>1. s.obj.ready = s.before.ready
        BY <2>5 DEF ChangesStatus
      <3>2. ~api[m].ready
        BY <2>1, <2>2, <3>1, Zenon
      <3>3. QED
        BY <2>5, <3>2
    <2>6. CASE ~api[m].exists /\ api'[m] = api[m]
      BY <2>6 DEF ReadyOK
    <2>7. QED
      BY <1>2, <1>3, <1>9, <1>10, <2>4, <2>5, <2>6 DEF StatusSent, Unsent, Sent
  <1>11. QED
    BY <1>1, <1>8, <1>9, <1>10 DEF ReadyOK

LEMMA NextReady ==
    ASSUME "stale" \notin Faults, IInv, ReadyInv, [Next]_vars
    PROVE  ReadyInv'
  <1> SUFFICES ASSUME NEW m \in Machines PROVE ReadyOK(m)'
    BY DEF ReadyInv
  <1>1. ReadyOK(m) /\ TypeInv /\ api[m] \in Objects
    BY DEF ReadyInv, IInv, TypeInv, TypeOK
  <1>2. PICK s, t : s = scope[m] /\ t = scope'[m]
    OBVIOUS
  <1>3. CASE ReconcileIgnored(m) \/ ReconcileFailed(m)
    BY <1>1, <1>3 DEF ReconcileIgnored, ReconcileFailed, ReadyOK
  <1>4. CASE ReconcileDelete(m) \/ ReconcileNormal(m)
    <2>1. UNCHANGED api /\ Entered(m, t, api[m])
      BY <1>1, <1>2, <1>4, EntryStep
    <2>2. t.before = api[m] /\ t.pc \notin {"PatchNotReady", "Delete"}
      BY <2>1 DEF Entered, Returned, Patching
    <2>3. QED
      BY <1>1, <1>2, <2>1, <2>2 DEF ReadyOK
  <1>5. CASE GetNormal(m)
    BY <1>1, <1>5, GetNormalStep DEF GetNormalDone, Returned, Patching, ReadyOK
  <1>6. CASE GetDelete(m)
    <2>1. UNCHANGED api /\ s.pc = "GetDelete" /\ GetDeleteDone(s, t)
      BY <1>1, <1>2, <1>6, GetDeleteStep
    <2>2. s.obj \in Objects
      BY <1>2, <2>1, RunningScope
    <2>3. SetNotReady(s.obj, "Deleting").ready = FALSE
      BY <2>2 DEF SetNotReady, Objects
    <2>4. /\ t.before = s.before /\ t.pc \in {"Deferred", "PatchNotReady"}
          /\ t.pc = "PatchNotReady" => ~t.obj.ready
      BY <2>1, <2>3 DEF GetDeleteDone, Returned, Patching
    <2>5. QED
      BY <1>1, <1>2, <2>1, <2>4 DEF ReadyOK
  <1>7. CASE Create(m)
    BY <1>1, <1>7, CreateStep DEF CreateDone, Returned, Patching, ReadyOK
  <1>8. CASE Delete(m)
    BY <1>1, <1>8, DeleteStep DEF DeleteDone, Returned, ReadyOK
  <1>9. CASE PatchConditions(m) \/ PatchObject(m)
    <2>1. \E p : PartDone(s, t, p) /\ s.pc \in PatchPCs
      BY <1>1, <1>2, <1>9, PatchConditionsStep, PatchObjectStep
    <2>2. t.pc = s.pc /\ t.obj = s.obj /\ t.before = s.before
      BY <2>1 DEF PartDone
    <2>3. QED
      BY <1>1, <1>2, <1>9, <2>2, ReadyUntouched DEF ReadyOK
  <1>10. CASE UserDelete(m)
    <2>1. PICK a : a = [api[m] EXCEPT !.deleting = TRUE]
      OBVIOUS
    <2>2. /\ UNCHANGED scope /\ api'[m] = Stored(a)
      BY <1>10, <2>1 DEF UserDelete, IInv, TypeInv, TypeOK
    <2>3. a.exists = api[m].exists /\ a.ready = api[m].ready
      BY <1>1, <2>1 DEF Objects
    <2>4. \/ Stored(a) = a
          \/ ~Stored(a).exists /\ ~Stored(a).ready
      BY StoredFields DEF GoneObject, NewObject
    <2>5. QED
      BY <1>1, <2>2, <2>3, <2>4 DEF ReadyOK
  <1>11. CASE UserEdit(m)
    <2>1. /\ UNCHANGED scope
          /\ api'[m].exists = api[m].exists /\ api'[m].ready = api[m].ready
      BY <1>1, <1>11 DEF UserEdit, Objects, IInv, TypeInv, TypeOK
    <2>2. QED
      BY <1>1, <2>1 DEF ReadyOK
  <1>12. CASE CacheSync(m) \/ Crash \/ Apart(m)
    BY <1>1, <1>12 DEF CacheSync, Crash, Apart, IdleScope, ReadyOK
  <1>13. QED
    BY <1>1, <1>3, <1>4, <1>5, <1>6, <1>7, <1>8, <1>9, <1>10, <1>11, <1>12,
       ReadyCleared, StepCases DEF Reconcile

\* A machine is reported not ready before its microVM is deleted, although that
\* report is three requests of which any may fail and any restart may come in
\* between, as long as a reconcile does not begin from an old copy.
THEOREM NotReadyTheorem ==
    ASSUME "stale" \notin Faults
    PROVE  Spec => []NotReadyBeforeDelete
  <1>1. Init => IInv /\ ReadyInv
    <2>1. Init => ReadyInv
      BY DEF Init, ReadyInv, ReadyOK, NewObject, IdleScope
    <2>2. QED
      BY <2>1, InitTypeInv, InitSafe DEF IInv
  <1>2. IInv /\ ReadyInv /\ [Next]_vars => (IInv /\ ReadyInv)'
    BY NextTypeInv, NextSafe, NextReady DEF IInv
  <1>3. ReadyInv => NotReadyBeforeDelete
    BY DEF ReadyInv, ReadyOK, NotReadyBeforeDelete
  <1>4. QED
    BY <1>1, <1>2, <1>3, PTL DEF Spec

-----------------------------------------------------------------------------
(* StatusInv is inductive, while no request of a Patch fails but for the    *)
(* object being gone.                                                       *)

LEMMA StatusOperators ==
    ASSUME NEW o \in Objects, NEW m
    PROVE  /\ SameStatus([o EXCEPT !.finalizer = TRUE], o)
           /\ SameStatus([o EXCEPT !.finalizer = FALSE], o)
           /\ SameStatus(GetLabels(m, o), o)
           /\ \A h, u : SameStatus(SetProviderID(o, h, u), o)
           /\ \A r : r # "True" => Down(SetNotReady(o, r))
           /\ \A c : c # "True" /\ ~o.ready => Down([o EXCEPT !.cond = c])
  <1>1. ASSUME NEW r, r # "True" PROVE Down(SetNotReady(o, r))
    BY <1>1 DEF Down, SetNotReady, Objects
  <1>2. ASSUME NEW c, c # "True", ~o.ready PROVE Down([o EXCEPT !.cond = c])
    BY <1>2 DEF Down, Objects
  <1>3. ASSUME NEW h, NEW u PROVE SameStatus(SetProviderID(o, h, u), o)
    BY DEF SameStatus, SetProviderID, Objects
  <1>4. /\ SameStatus([o EXCEPT !.finalizer = TRUE], o)
        /\ SameStatus([o EXCEPT !.finalizer = FALSE], o)
        /\ SameStatus(GetLabels(m, o), o)
    BY DEF SameStatus, GetLabels, Objects
  <1>5. QED
    BY <1>1, <1>2, <1>3, <1>4

LEMMA SameAgrees ==
    ASSUME NEW a, NEW b
    PROVE  /\ SameStatus(a, b) /\ Agrees(b) => Agrees(a)
           /\ SameStatus(a, b) /\ Down(b) => Down(a)
           /\ Down(a) => Agrees(a)
  BY DEF SameStatus, Agrees, Down

LEMMA ParsedAgrees ==
    ASSUME NEW o \in Objects, NEW st, Agrees(o)
    PROVE  Agrees(ParsedObject(o, st))
  <1>1. \A v : [o EXCEPT !.vmState = v].vmState = v
    BY DEF Objects
  <1>2. /\ SetReady([o EXCEPT !.vmState = "Running"]).ready = TRUE
        /\ SetReady([o EXCEPT !.vmState = "Running"]).cond = "True"
        /\ SetReady([o EXCEPT !.vmState = "Running"]).vmState = "Running"
    BY DEF SetReady, Objects
  <1>3. ASSUME NEW v, NEW r, r # "True"
        PROVE  Down(SetNotReady([o EXCEPT !.vmState = v], r))
    BY <1>3 DEF Down, SetNotReady, Objects
  <1>4. Agrees(SetReady([o EXCEPT !.vmState = "Running"]))
    BY <1>2 DEF Agrees
  <1>5. QED
    BY <1>3, <1>4, SameAgrees DEF ParsedObject

\* From a call at which nothing of the status has been sent yet.
LEMMA StatusGoes ==
    ASSUME NEW m \in Machines, StatusOK(m), NEW s, NEW t, s = scope[m], t = scope'[m],
           s.pc \in NormalPCs \cup {"GetDelete"}, t.before = s.before,
           UNCHANGED <<cluster, bootstrap>>, api'[m] = api[m],
           Agrees(t.obj), t.obj.ready => ~Waits(m),
           \/ t.pc \in NormalPCs /\ s.pc \in NormalPCs /\ SameStatus(t.obj, s.obj)
           \/ t.pc = "Deferred" /\ t.part = "conditions"
           \/ t.pc = "PatchNotReady" /\ t.part = "conditions" /\ Down(t.obj)
    PROVE  StatusOK(m)'
  <1>1. StatusScope(m, s) /\ t.pc # "Idle"
    BY DEF StatusOK, NormalPCs
  <1>2. Waits(m)' <=> Waits(m)
    BY DEF Waits
  <1>3. /\ Agrees(t.before)
        /\ api[m].exists => SameStatus(api[m], t.before) /\ SameStatus(s.obj, t.before)
        /\ t.pc \in NormalPCs => ~Waits(m)
    BY <1>1 DEF StatusScope, NormalPCs
  <1>4. t.pc \in NormalPCs /\ api[m].exists => SameStatus(t.obj, t.before)
    BY <1>3 DEF SameStatus, NormalPCs
  <1>5. StatusScope(m, t)'
    BY <1>2, <1>3, <1>4 DEF StatusScope, NormalPCs
  <1>6. QED
    BY <1>1, <1>2, <1>5 DEF StatusOK

LEMMA EntryStatus ==
    ASSUME IInv, NEW m \in Machines, StatusOK(m), "stale" \notin Faults,
           ReconcileDelete(m) \/ ReconcileNormal(m)
    PROVE  StatusOK(m)'
  <1>1. PICK t, o : t = scope'[m] /\ o = api[m]
    OBVIOUS
  <1>2. /\ UNCHANGED <<api, cluster, bootstrap>> /\ scope[m].pc = "Idle"
        /\ Entered(m, t, o)
    BY <1>1, EntryStep DEF IInv
  <1>3. o \in Objects /\ Agrees(o) /\ (o.ready => ~Waits(m))
    BY <1>1, <1>2 DEF IInv, TypeInv, TypeOK, StatusOK
  <1>4. Waits(m)' <=> Waits(m)
    BY <1>2 DEF Waits
  <1>5. SameStatus(o, o) /\ SameStatus([o EXCEPT !.finalizer = TRUE], o)
    BY <1>3, StatusOperators DEF SameStatus
  <1>6. ASSUME NEW c \in {"WaitingForClusterInfra", "WaitingForBootstrapData"}, Waits(m)
        PROVE  Down([o EXCEPT !.cond = c])
    BY <1>3, <1>6, StatusOperators
  <1>7. /\ t.before = o
        /\ \/ SameStatus(t.obj, o) /\ t.pc = "GetDelete"
           \/ /\ SameStatus(t.obj, o) /\ t.pc \in {"GetNormal", "PatchFinalizer"}
              /\ ~Waits(m)
           \/ /\ t.pc = "Deferred" /\ t.part = "conditions"
              /\ SameStatus(t.obj, o) \/ Down(t.obj)
    BY <1>2, <1>5, <1>6 DEF Entered, Returned, Patching
  <1>8. /\ Agrees(t.obj) /\ (t.obj.ready => ~Waits(m))
    BY <1>3, <1>7, SameAgrees DEF SameStatus, Down
  <1>9. StatusScope(m, t)'
    BY <1>1, <1>2, <1>3, <1>4, <1>5, <1>7, <1>8 DEF StatusScope, NormalPCs
  <1>10. QED
    BY <1>1, <1>2, <1>3, <1>4, <1>7, <1>9 DEF StatusOK

LEMMA HostCallStatus ==
    ASSUME IInv, NEW m \in Machines, StatusOK(m),
           GetNormal(m) \/ GetDelete(m) \/ Create(m) \/ Delete(m)
    PROVE  StatusOK(m)'
  <1>1. PICK s, t : s = scope[m] /\ t = scope'[m]
    OBVIOUS
  <1>2. /\ UNCHANGED <<api, cluster, bootstrap>> /\ TypeInv
        /\ s.pc \in {"GetNormal", "GetDelete", "Create", "Delete"}
    BY <1>1, GetNormalStep, GetDeleteStep, CreateStep, DeleteStep DEF IInv
  <1>3. s.obj \in Objects /\ StatusScope(m, s)
    BY <1>1, <1>2, RunningScope DEF StatusOK
  <1>4. /\ Agrees(s.obj) /\ (s.obj.ready => ~Waits(m))
    BY <1>3 DEF StatusScope
  <1>5. ASSUME NEW o, SameStatus(o, s.obj) \/ Down(o)
        PROVE  Agrees(o) /\ (o.ready => ~Waits(m))
    BY <1>4, <1>5, SameAgrees DEF SameStatus, Down
  <1>6. SameStatus(s.obj, s.obj)
    BY DEF SameStatus
  <1>7. CASE GetNormal(m)
    <2>1. s.pc = "GetNormal" /\ GetNormalDone(s, t)
      BY <1>1, <1>2, <1>7, GetNormalStep
    <2>2. /\ t.before = s.before /\ SameStatus(t.obj, s.obj)
          /\ t.pc = "PatchFinalizer" \/ (t.pc = "Deferred" /\ t.part = "conditions")
      BY <1>3, <1>6, <2>1, StatusOperators DEF GetNormalDone, Returned, Patching
    <2>3. QED
      BY <1>1, <1>2, <1>5, <2>1, <2>2, StatusGoes DEF NormalPCs
  <1>8. CASE GetDelete(m)
    <2>1. s.pc = "GetDelete" /\ GetDeleteDone(s, t)
      BY <1>1, <1>2, <1>8, GetDeleteStep
    <2>2. /\ t.before = s.before /\ t.part = "conditions"
          /\ \/ t.pc = "Deferred" /\ SameStatus(t.obj, s.obj)
             \/ t.pc = "PatchNotReady" /\ Down(t.obj)
      BY <1>3, <1>6, <2>1, StatusOperators DEF GetDeleteDone, Returned, Patching
    <2>3. QED
      BY <1>1, <1>2, <1>5, <2>1, <2>2, StatusGoes
  <1>9. CASE Create(m)
    <2>1. s.pc = "Create" /\ CreateDone(m, s, t)
      BY <1>1, <1>2, <1>9, CreateStep
    <2>2. PICK l : l = GetLabels(m, s.obj)
      OBVIOUS
    <2>3. l \in Objects /\ SameStatus(l, s.obj)
      BY <1>3, <2>2, ObjectOperators, StatusOperators
    <2>4. \A h, u : SameStatus(SetProviderID(l, h, u), s.obj)
      <3>1. \A h, u : SameStatus(SetProviderID(l, h, u), l)
        BY <2>3, StatusOperators
      <3>2. QED
        BY <2>3, <3>1 DEF SameStatus
    <2>5. /\ t.before = s.before /\ SameStatus(t.obj, s.obj)
          /\ t.pc = "PatchProviderID" \/ (t.pc = "Deferred" /\ t.part = "conditions")
      BY <1>6, <2>1, <2>2, <2>3, <2>4 DEF CreateDone, Returned, Patching
    <2>6. QED
      BY <1>1, <1>2, <1>5, <2>1, <2>5, StatusGoes DEF NormalPCs
  <1>10. CASE Delete(m)
    <2>1. s.pc = "Delete" /\ DeleteDone(s, t)
      BY <1>1, <1>2, <1>10, DeleteStep
    <2>2. Down(SetNotReady(s.obj, "DeleteFailed"))
      BY <1>3, StatusOperators
    <2>3. api[m].exists => Down(api[m]) /\ Down(s.obj)
      BY <1>3, <2>1 DEF StatusScope
    <2>4. /\ t.before = s.before /\ t.pc = "Deferred"
          /\ t.obj = s.obj \/ Down(t.obj)
      BY <2>1, <2>2 DEF DeleteDone, Returned
    <2>5. /\ Agrees(t.obj) /\ (t.obj.ready => ~Waits(m))
          /\ api[m].exists => Down(api[m]) /\ Down(t.obj)
      BY <1>5, <1>6, <2>3, <2>4
    <2>6. StatusScope(m, t)'
      BY <1>2, <1>3, <2>4, <2>5 DEF StatusScope, NormalPCs, Waits
    <2>7. QED
      BY <1>1, <1>2, <2>4, <2>6 DEF StatusOK, Waits
  <1>11. QED
    BY <1>7, <1>8, <1>9, <1>10

LEMMA PatchConditionsStatus ==
    ASSUME IInv, NEW m \in Machines, StatusOK(m), PatchConditions(m),
           "patch" \notin Faults, "stale" \notin Faults
    PROVE  StatusOK(m)'
  <1>1. PICK s, t : s = scope[m] /\ t = scope'[m]
    OBVIOUS
  <1>2. PICK a : a = MergeConditions(s.before, s.obj, api[m])
    OBVIOUS
  <1>3. /\ UNCHANGED <<cluster, bootstrap>> /\ s.pc \in PatchPCs /\ s.part = "conditions"
        /\ PartDone(s, t, "object")
        /\ \/ ~ChangesConditions(s) /\ Unsent(m, s.patchErr, t.patchErr)
           \/ Sent(m, a, s.patchErr, t.patchErr)
           \/ Lost(m)
    BY <1>1, <1>2, PatchConditionsStep DEF IInv
  <1>4. api[m] \in Objects /\ StoreOK(m) /\ StatusScope(m, s)
    BY <1>1, <1>3, RunningScope DEF StatusOK, PatchPCs
  <1>5. /\ a.exists = api[m].exists /\ a.deleting = api[m].deleting
        /\ a.finalizer = api[m].finalizer /\ HalfSent(a, api[m])
        /\ a.cond = Merge(s.before.cond, s.obj.cond, api[m].cond)
    BY <1>2, <1>4, ConditionsFields DEF HalfSent
  <1>6. Stored(a) = a
    BY <1>4, <1>5 DEF StoreOK, Stored
  <1>7. /\ api'[m].exists <=> api[m].exists
        /\ HalfSent(api'[m], api[m])
        /\ api'[m].exists => api'[m].cond = Merge(s.before.cond, s.obj.cond, api[m].cond)
        /\ ~api'[m].exists => api'[m] = api[m]
    <2>1. CASE Sent(m, a, s.patchErr, t.patchErr)
      BY <1>5, <1>6, <2>1 DEF Sent
    <2>2. CASE ~ChangesConditions(s) /\ Unsent(m, s.patchErr, t.patchErr)
      BY <2>2 DEF ChangesConditions, Unsent, HalfSent, Merge
    <2>3. CASE Lost(m)
      BY <2>3 DEF Lost, HalfSent
    <2>4. QED
      BY <1>3, <2>1, <2>2, <2>3
  <1>8. Waits(m)' <=> Waits(m)
    BY <1>3 DEF Waits
  <1>9. /\ api'[m].ready => ~Waits(m)'
        /\ ~api'[m].exists => Down(api'[m])
    BY <1>7, <1>8 DEF StatusOK, HalfSent
  <1>10. ASSUME api'[m].exists, s.pc \in NormalPCs
         PROVE  SameStatus(api'[m], s.before) /\ SameStatus(s.obj, s.before)
    <2>1. SameStatus(api[m], s.before) /\ SameStatus(s.obj, s.before)
      BY <1>4, <1>7, <1>10 DEF StatusScope
    <2>2. QED
      BY <1>7, <1>10, <2>1 DEF SameStatus, HalfSent, Merge
  <1>11. ASSUME api'[m].exists, s.pc = "PatchNotReady"
         PROVE  /\ Down(s.obj) /\ api'[m].cond # "True"
                /\ HalfSent(api'[m], s.before)
    <2>1. SameStatus(api[m], s.before) /\ Down(s.obj)
      BY <1>3, <1>4, <1>7, <1>11 DEF StatusScope
    <2>2. QED
      BY <1>7, <1>11, <2>1 DEF SameStatus, HalfSent, Merge, Down
  <1>12. ASSUME api'[m].exists, s.pc = "Deferred"
         PROVE  \/ Down(api'[m]) /\ Down(s.obj)
                \/ api'[m].cond = s.obj.cond /\ HalfSent(api'[m], s.before)
    <2>1. CASE Down(api[m]) /\ Down(s.obj)
      BY <1>7, <1>12, <2>1 DEF Down, HalfSent, Merge
    <2>2. CASE SameStatus(api[m], s.before)
      BY <1>7, <1>12, <2>2 DEF SameStatus, HalfSent, Merge
    <2>3. QED
      BY <1>3, <1>4, <1>7, <1>12, <2>1, <2>2 DEF StatusScope
  <1>13. StatusScope(m, t)'
    BY <1>3, <1>4, <1>8, <1>10, <1>11, <1>12 DEF StatusScope, PartDone, NormalPCs, PatchPCs
  <1>14. QED
    BY <1>1, <1>3, <1>9, <1>13 DEF StatusOK, PartDone, PatchPCs

\* A step that leaves the status of the stored object alone, unless it removes
\* the object, and moves the reconcile at most from one request to the next.
LEMMA StatusFrame ==
    ASSUME NEW m \in Machines, StatusOK(m), ~Waits(m) => ~Waits(m)',
           \/ SameStatus(api'[m], api[m]) /\ (api'[m].exists <=> api[m].exists)
           \/ ~api'[m].exists /\ Down(api'[m]),
           \/ scope'[m] = scope[m]
           \/ /\ PartDone(scope[m], scope'[m], "status")
              /\ scope[m].part = "object" /\ scope[m].pc \in PatchPCs
    PROVE  StatusOK(m)'
  <1>1. PICK s, t : s = scope[m] /\ t = scope'[m]
    OBVIOUS
  <1>2. /\ t.pc = s.pc /\ t.obj = s.obj /\ t.before = s.before
        /\ t.part = "conditions" <=> s.part = "conditions"
    BY <1>1 DEF PartDone
  <1>3. /\ api'[m].ready => ~Waits(m)'
        /\ ~api'[m].exists => Down(api'[m])
    BY SameAgrees DEF StatusOK, SameStatus, Down
  <1>4. CASE s.pc = "Idle"
    <2>1. Agrees(api'[m])
      BY <1>1, <1>4, SameAgrees DEF StatusOK
    <2>2. QED
      BY <1>1, <1>2, <1>3, <1>4, <2>1 DEF StatusOK
  <1>5. CASE s.pc # "Idle"
    <2>1. StatusScope(m, s)
      BY <1>1, <1>5 DEF StatusOK
    <2>2. ASSUME api'[m].exists
          PROVE  /\ api[m].exists /\ SameStatus(api'[m], api[m])
      BY <2>2
    <2>3. /\ \A b : SameStatus(api[m], b) /\ api'[m].exists => SameStatus(api'[m], b)
          /\ \A b : HalfSent(api[m], b) /\ api'[m].exists => HalfSent(api'[m], b)
          /\ Down(api[m]) /\ api'[m].exists => Down(api'[m])
      BY <2>2 DEF SameStatus, HalfSent, Down
    <2>4. api'[m].exists => api'[m].cond = api[m].cond
      BY <2>2 DEF SameStatus
    <2>5. StatusScope(m, t)'
      BY <1>2, <2>1, <2>2, <2>3, <2>4 DEF StatusScope
    <2>6. QED
      BY <1>1, <1>2, <1>3, <1>5, <2>5 DEF StatusOK
  <1>6. QED
    BY <1>4, <1>5

LEMMA PatchObjectStatus ==
    ASSUME IInv, NEW m \in Machines, StatusOK(m), PatchObject(m)
    PROVE  StatusOK(m)'
  <1>1. PICK a : a = MergeObject(scope[m].before, scope[m].obj, api[m])
    OBVIOUS
  <1>2. /\ UNCHANGED <<cluster, bootstrap>> /\ scope[m].pc \in PatchPCs
        /\ scope[m].part = "object" /\ PartDone(scope[m], scope'[m], "status")
        /\ api'[m] = api[m] \/ api'[m] = Stored(a)
    BY <1>1, PatchObjectStep DEF IInv, Unsent, Sent, Lost
  <1>3. api[m] \in Objects
    BY DEF IInv, TypeInv, TypeOK
  <1>4. SameStatus(a, api[m]) /\ a.exists = api[m].exists
    BY <1>1, <1>3, MergedFields DEF SameStatus
  <1>5. Stored(a) = a \/ (~Stored(a).exists /\ Down(Stored(a)))
    BY StoredFields DEF GoneObject, NewObject, Down
  <1>6. \/ SameStatus(api'[m], api[m]) /\ (api'[m].exists <=> api[m].exists)
        \/ ~api'[m].exists /\ Down(api'[m])
    <2>1. CASE api'[m] = api[m]
      BY <2>1 DEF SameStatus
    <2>2. CASE api'[m] = Stored(a)
      BY <1>4, <1>5, <2>2
    <2>3. QED
      BY <1>2, <2>1, <2>2
  <1>7. ~Waits(m) => ~Waits(m)'
    BY <1>2 DEF Waits
  <1>8. QED
    BY <1>2, <1>6, <1>7, StatusFrame

LEMMA PatchStatusStatus ==
    ASSUME IInv, NEW m \in Machines, StatusOK(m), ErrorMeansGone, PatchStatus(m),
           "patch" \notin Faults, "stale" \notin Faults
    PROVE  StatusOK(m)'
  <1>1. PICK s, t : s = scope[m] /\ t = scope'[m]
    OBVIOUS
  <1>2. PICK a : a = MergeStatus(s.before, s.obj, api[m])
    OBVIOUS
  <1>3. PICK err \in BOOLEAN :
           /\ UNCHANGED <<cluster, bootstrap>> /\ s.pc \in PatchPCs /\ s.part = "status"
           /\ StatusSent(m, s, err) /\ Resumed(m, s, err)
    BY <1>1, PatchStatusStep DEF IInv
  <1>4. /\ api[m] \in Objects /\ s.obj \in Objects /\ s.before \in Objects
        /\ StoreOK(m) /\ StatusScope(m, s)
    BY <1>1, <1>3, RunningScope DEF StatusOK, PatchPCs
  <1>5. /\ a.exists = api[m].exists /\ a.deleting = api[m].deleting
        /\ a.finalizer = api[m].finalizer /\ a.cond = api[m].cond
        /\ a.ready = Merge(s.before.ready, s.obj.ready, api[m].ready)
        /\ a.vmState = Merge(s.before.vmState, s.obj.vmState, api[m].vmState)
    BY <1>2, <1>4, StatusFields
  <1>6. Stored(a) = a
    BY <1>4, <1>5 DEF StoreOK, Stored
  <1>7. s.patchErr => ~api[m].exists
    BY <1>1 DEF ErrorMeansGone
  <1>8. \/ ~api[m].exists /\ api'[m] = api[m]
        \/ api[m].exists /\ ~err /\ ~ChangesStatus(s) /\ api'[m] = api[m]
        \/ api[m].exists /\ ~err /\ ChangesStatus(s) /\ api'[m] = a
    BY <1>2, <1>3, <1>6, <1>7 DEF StatusSent, Unsent, Sent, Lost
  <1>9. api'[m].exists <=> api[m].exists
    BY <1>5, <1>8
  <1>10. Waits(m)' <=> Waits(m)
    BY <1>3 DEF Waits
  <1>11. CASE s.pc \in NormalPCs
    <2>1. api'[m] = api[m]
      <3>1. api[m].exists => SameStatus(s.obj, s.before)
        BY <1>4, <1>11 DEF StatusScope
      <3>2. QED
        BY <1>8, <3>1 DEF SameStatus, ChangesStatus
    <2>2. PatchDone(s, t, err)
      BY <1>1, <1>3, <1>11 DEF Resumed, NormalPCs
    <2>3. /\ Agrees(s.obj) /\ ~Waits(m)
      BY <1>4, <1>11 DEF StatusScope
    <2>4. /\ Agrees(ParsedObject(s.obj, s.state)) /\ SameStatus(s.obj, s.obj)
          /\ SameStatus(SetProviderID(s.obj, s.fd, s.uid), s.obj)
      BY <1>4, <2>3, ParsedAgrees, StatusOperators DEF SameStatus
    <2>5. /\ t.before = s.before
          /\ \/ t.pc \in NormalPCs /\ SameStatus(t.obj, s.obj)
             \/ t.pc = "Deferred" /\ t.part = "conditions" /\ Agrees(t.obj)
      BY <1>11, <2>2, <2>3, <2>4 DEF PatchDone, Returned, Patching, NormalPCs
    <2>6. Agrees(t.obj)
      BY <2>3, <2>5, SameAgrees
    <2>7. QED
      BY <1>1, <1>3, <1>11, <2>1, <2>3, <2>5, <2>6, StatusGoes
  <1>12. CASE s.pc = "PatchNotReady"
    <2>1. PatchDone(s, t, err)
      BY <1>1, <1>3, <1>12 DEF Resumed
    <2>2. /\ t.before = s.before /\ t.obj = s.obj
          /\ t.pc \in {"Delete", "Deferred"}
      BY <1>12, <2>1 DEF PatchDone, Returned, Patching
    <2>3. ASSUME api[m].exists PROVE Down(s.obj) /\ Down(api'[m])
      <3>1. Down(s.obj) /\ api[m].cond # "True" /\ HalfSent(api[m], s.before)
        BY <1>3, <1>4, <1>12, <2>3 DEF StatusScope
      <3>2. /\ s.obj.ready \in BOOLEAN /\ s.before.ready \in BOOLEAN
            /\ api[m].ready \in BOOLEAN
        BY <1>4 DEF Objects
      <3>3. ~s.obj.ready /\ (api[m].ready => s.before.ready)
        BY <3>1 DEF HalfSent, Down
      <3>4. a.ready = FALSE
        BY <1>5, <3>2, <3>3, MergedFlag
      <3>5. s.obj.ready = s.before.ready => ~api[m].ready
        BY <3>2, <3>3, Zenon
      <3>6. ~api'[m].ready
        BY <1>8, <2>3, <3>4, <3>5 DEF ChangesStatus
      <3>7. QED
        BY <1>5, <1>8, <3>1, <3>6 DEF Down
    <2>4. /\ api'[m].ready => ~Waits(m)'
          /\ ~api'[m].exists => Down(api'[m])
      BY <1>8, <1>9, <2>3 DEF StatusOK, Down
    <2>5. Agrees(t.before) /\ Agrees(t.obj) /\ (t.obj.ready => ~Waits(m)')
      BY <1>4, <1>10, <2>2 DEF StatusScope
    <2>6. StatusScope(m, t)'
      BY <1>9, <2>2, <2>3, <2>5 DEF StatusScope, NormalPCs
    <2>7. QED
      BY <1>1, <2>2, <2>4, <2>6 DEF StatusOK
  <1>13. CASE s.pc = "Deferred"
    <2>1. t.pc = "Idle"
      BY <1>1, <1>3, <1>13 DEF Resumed, IdleScope
    <2>2. ASSUME ~api[m].exists
          PROVE  Agrees(api'[m]) /\ ~api'[m].ready /\ Down(api'[m])
      BY <1>8, <2>2, SameAgrees DEF StatusOK, Down
    <2>3. ASSUME api[m].exists
          PROVE  Agrees(api'[m]) /\ (api'[m].ready => ~Waits(m))
      <3>1. /\ s.obj.ready \in BOOLEAN /\ s.before.ready \in BOOLEAN
            /\ api[m].ready \in BOOLEAN
        BY <1>4 DEF Objects
      <3>2. CASE Down(api[m]) /\ Down(s.obj)
        <4>1. ~s.obj.ready /\ ~api[m].ready /\ api[m].cond # "True"
          BY <3>2 DEF Down
        <4>2. a.ready = FALSE
          BY <1>5, <3>1, <4>1, MergedFlag
        <4>3. ~api'[m].ready
          BY <1>8, <4>1, <4>2
        <4>4. api'[m].cond # "True"
          BY <1>5, <1>8, <4>1
        <4>5. QED
          BY <4>3, <4>4 DEF Agrees
      <3>3. CASE api[m].cond = s.obj.cond /\ HalfSent(api[m], s.before)
        <4>1. SameStatus(api'[m], s.obj)
          BY <1>5, <1>8, <2>3, <3>3 DEF HalfSent, SameStatus, Merge, ChangesStatus
        <4>2. Agrees(s.obj) /\ (s.obj.ready => ~Waits(m))
          BY <1>4 DEF StatusScope
        <4>3. QED
          BY <4>1, <4>2, SameAgrees DEF SameStatus
      <3>4. QED
        BY <1>3, <1>4, <1>13, <2>3, <3>2, <3>3 DEF StatusScope
    <2>4. /\ Agrees(api'[m]) /\ (api'[m].ready => ~Waits(m)')
          /\ ~api'[m].exists => Down(api'[m])
      BY <1>9, <1>10, <2>2, <2>3
    <2>5. QED
      BY <1>1, <2>1, <2>4 DEF StatusOK
  <1>14. QED
    BY <1>3, <1>11, <1>12, <1>13 DEF PatchPCs, NormalPCs

LEMMA NextStatus ==
    ASSUME Faults \cap {"stale", "crash", "patch"} = {},
           IInv, ErrorMeansGone, StatusInv, [Next]_vars
    PROVE  StatusInv'
  <1> SUFFICES ASSUME NEW m \in Machines PROVE StatusOK(m)'
    BY DEF StatusInv
  <1>1. /\ StatusOK(m) /\ TypeInv /\ api[m] \in Objects
        /\ "stale" \notin Faults /\ "crash" \notin Faults /\ "patch" \notin Faults
    BY DEF StatusInv, IInv, TypeInv, TypeOK
  <1>2. ~Waits(m) => ~Waits(m)'
    BY <1>1, StepCases DEF GatesKept
  <1>3. CASE Reconcile(m)
    <2>1. CASE ReconcileIgnored(m) \/ ReconcileFailed(m)
      <3>1. UNCHANGED <<api, scope>>
        BY <2>1 DEF ReconcileIgnored, ReconcileFailed
      <3>2. QED
        BY <1>1, <1>2, <3>1, StatusFrame DEF SameStatus
    <2>2. QED
      BY <1>1, <1>3, <2>1, EntryStatus, HostCallStatus, PatchConditionsStatus,
         PatchObjectStatus, PatchStatusStatus DEF Reconcile
  <1>4. CASE UserDelete(m)
    <2>1. PICK a : a = [api[m] EXCEPT !.deleting = TRUE]
      OBVIOUS
    <2>2. /\ UNCHANGED scope /\ api'[m] = Stored(a)
      BY <1>4, <2>1 DEF UserDelete, IInv, TypeInv, TypeOK
    <2>3. a.exists = api[m].exists /\ SameStatus(a, api[m])
      BY <1>1, <2>1 DEF Objects, SameStatus
    <2>4. Stored(a) = a \/ (~Stored(a).exists /\ Down(Stored(a)))
      BY StoredFields DEF GoneObject, NewObject, Down
    <2>5. \/ SameStatus(api'[m], api[m]) /\ (api'[m].exists <=> api[m].exists)
          \/ ~api'[m].exists /\ Down(api'[m])
      BY <2>2, <2>3, <2>4
    <2>6. QED
      BY <1>1, <1>2, <2>2, <2>5, StatusFrame
  <1>5. CASE UserEdit(m)
    <2>1. /\ UNCHANGED scope /\ SameStatus(api'[m], api[m])
          /\ api'[m].exists = api[m].exists
      BY <1>1, <1>5 DEF UserEdit, Objects, SameStatus, IInv, TypeInv, TypeOK
    <2>2. QED
      BY <1>1, <1>2, <2>1, StatusFrame
  <1>6. CASE CacheSync(m) \/ Apart(m)
    <2>1. api'[m] = api[m] /\ scope'[m] = scope[m]
      BY <1>6 DEF CacheSync, Apart
    <2>2. QED
      BY <1>1, <1>2, <2>1, StatusFrame DEF SameStatus
  <1>7. ~Crash
    BY <1>1 DEF Crash, Fault
  <1>8. QED
    BY <1>1, <1>3, <1>4, <1>5, <1>6, <1>7, StepCases

\* Whenever a machine is not being reconciled, its Ready flag, its MicrovmReady
\* condition and its VM state tell the same story, although Patch stores the
\* condition and the other two in separate requests.  The hosts may fail and
\* answer wrongly in any way, and the cluster above the machine may change.
THEOREM StatusTheorem ==
    ASSUME Faults \cap {"stale", "crash", "patch"} = {}
    PROVE  Spec => []StatusAgrees
  <1>1. Init => IInv /\ StatusInv
    <2>1. Init => StatusInv
      BY DEF Init, StatusInv, StatusOK, NewObject, IdleScope, Agrees
    <2>2. QED
      BY <2>1, InitTypeInv, InitSafe DEF IInv
  <1>2. IInv /\ ErrorMeansGone /\ StatusInv /\ [Next]_vars => (IInv /\ StatusInv)'
    BY NextTypeInv, NextSafe, NextStatus DEF IInv
  <1>3. StatusInv => StatusAgrees
    BY DEF StatusInv, StatusOK, Agrees, StatusAgrees
  <1>4. Spec => []ErrorMeansGone
    BY ErrorInvariant
  <1>5. QED
    BY <1>1, <1>2, <1>3, <1>4, PTL DEF Spec
=============================================================================
