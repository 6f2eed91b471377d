------------------------- MODULE MachineWakeProofs -------------------------
(***************************************************************************)
(* No wake-up is lost: WakeInv is inductive together with SafetyInv, for   *)
(* every combination of failures, and NothingForgotten follows from it.    *)
(***************************************************************************)
EXTENDS MachineProofs, MachineSteps

LEMMA InitWake == Init => WakeInv
  BY DEF Init, WakeInv, WakeOK, CacheKnows, Asleep, NewObject, IdleScope

\* A step that leaves the machine alone may only end its wait.
LEMMA ApartWakes ==
    ASSUME NEW m \in Machines, WakeOK(m), Apart(m), GatesKept(m)
    PROVE  WakeOK(m)'
  <1>1. CacheKnows(m)'
    BY DEF WakeOK, CacheKnows, Apart
  <1>2. CASE scope[m].pc = "Idle"
    <2>1. Asleep(m)'
      BY <1>2 DEF WakeOK, CacheKnows, Asleep, Apart, GatesKept
    <2>2. QED
      BY <1>1, <1>2, <2>1 DEF WakeOK, Apart
  <1>3. CASE scope[m].pc # "Idle"
    <2>1. WakeScope(m, scope[m])'
      BY <1>3 DEF WakeOK, CacheKnows, WakeScope, Apart, GatesKept
    <2>2. QED
      BY <1>1, <1>3, <2>1 DEF WakeOK, Apart
  <1>4. QED
    BY <1>2, <1>3

LEMMA EntryWakes ==
    ASSUME TypeInv, NEW m \in Machines, WakeOK(m),
           \/ ReconcileIgnored(m) \/ ReconcileFailed(m)
           \/ ReconcileDelete(m) \/ ReconcileNormal(m)
    PROVE  WakeOK(m)'
  <1>1. CASE ReconcileIgnored(m)
    <2>1. /\ UNCHANGED <<api, cache, scope, cluster>> /\ scope[m].pc = "Idle"
          /\ last'[m] = IF cluster.gate = "noCluster" THEN "noCluster" ELSE "gated"
          /\ \/ ~cache[m].exists
             \/ cluster.gate \in {"noOwner", "noCluster", "paused", "noMvmCluster"}
      BY <1>1 DEF ReconcileIgnored, Dequeue, TypeInv, TypeOK
    <2>2. QED
      BY <2>1 DEF WakeOK, CacheKnows, Asleep
  <1>2. CASE ReconcileFailed(m)
    BY <1>2 DEF ReconcileFailed, Dequeue, WakeOK, CacheKnows, Asleep
  <1>3. CASE ReconcileDelete(m) \/ ReconcileNormal(m)
    <2>1. /\ UNCHANGED <<api, cache, cluster, bootstrap>> /\ m \notin queue'
          /\ Entered(m, scope'[m], cache[m])
      BY <1>3, EntryStep
    <2>2. CacheKnows(m)'
      BY <2>1 DEF WakeOK, CacheKnows
    <2>3. PICK t : t = scope'[m]
      OBVIOUS
    <2>4. t.before = cache[m] /\ (t.before.deleting => t.before.finalizer)
      BY <2>1, <2>3 DEF Entered, WakeOK, CacheKnows
    <2>5. t.pc = "Deferred" => /\ t.result \in {"waiting", "swallowed", "error"}
                               /\ t.result = "waiting" => Waits(m)
      BY <2>1, <2>3 DEF Entered, Returned, Patching
    <2>6. t.pc # "Idle"
      BY <2>1, <2>3 DEF Entered, Returned, Patching
    <2>7. Waits(m)' <=> Waits(m)
      BY <2>1 DEF Waits
    <2>8. WakeScope(m, scope[m])'
      BY <2>1, <2>3, <2>4, <2>5, <2>7 DEF WakeScope
    <2>9. QED
      BY <2>2, <2>3, <2>6, <2>8 DEF WakeOK
  <1>4. QED
    BY <1>1, <1>2, <1>3

\* A call to a host, or the code after a Patch: the reconcile goes on with the
\* copy it began with, or returns.
LEMMA GoesOn ==
    ASSUME NEW m \in Machines, scope[m].pc # "Idle", WakeOK(m),
           cache'[m] = cache[m], m \in queue => m \in queue',
           api'[m].exists => api[m].exists /\ api'[m].edited = api[m].edited,
           scope'[m].pc # "Idle", scope'[m].before = scope[m].before,
           scope'[m].pc = "Deferred" =>
              /\ scope'[m].part = "conditions"
              /\ scope'[m].result \in {"done", "requeue", "error"}
              /\ scope'[m].result = "done" =>
                    IF scope'[m].obj.deleting THEN ~scope'[m].obj.finalizer
                    ELSE scope'[m].obj.ready
    PROVE  WakeOK(m)'
  <1>1. CacheKnows(m)'
    BY DEF WakeOK, CacheKnows
  <1>2. WakeScope(m, scope[m])'
    BY DEF WakeOK, WakeScope
  <1>3. QED
    BY <1>1, <1>2 DEF WakeOK

LEMMA HostCallWakes ==
    ASSUME IInv, NEW m \in Machines, WakeOK(m),
           GetNormal(m) \/ GetDelete(m) \/ Create(m) \/ Delete(m)
    PROVE  WakeOK(m)'
  <1>1. PICK t : t = scope'[m]
    OBVIOUS
  <1>2. TypeInv
    BY DEF IInv
  <1>3. /\ UNCHANGED <<api, cache, queue>> /\ scope[m].pc # "Idle"
        /\ t.pc # "Idle" /\ t.before = scope[m].before
        /\ t.pc = "Deferred" => /\ t.part = "conditions"
                                /\ t.result \in {"done", "requeue", "error"}
                                /\ t.result = "done" => t.obj.deleting /\ ~t.obj.finalizer
    <2>1. CASE GetNormal(m)
      BY <1>1, <1>2, <2>1, GetNormalStep DEF GetNormalDone, Returned, Patching
    <2>2. CASE GetDelete(m)
      <3>1. /\ UNCHANGED <<api, cache, queue>> /\ scope[m].pc = "GetDelete"
            /\ GetDeleteDone(scope[m], t)
        BY <1>1, <1>2, <2>2, GetDeleteStep
      <3>2. scope[m].obj.deleting /\ scope[m].obj \in Objects
        BY <3>1, RunningScope DEF ScopeCall, DeletePCs
      <3>3. LET o == [scope[m].obj EXCEPT !.finalizer = FALSE]
            IN  o.deleting = scope[m].obj.deleting /\ o.finalizer = FALSE
        BY <3>2 DEF Objects
      <3>4. QED
        BY <3>1, <3>2, <3>3 DEF GetDeleteDone, Returned, Patching
    <2>3. CASE Create(m)
      BY <1>1, <1>2, <2>3, CreateStep DEF CreateDone, Returned, Patching
    <2>4. CASE Delete(m)
      BY <1>1, <1>2, <2>4, DeleteStep DEF DeleteDone, Returned
    <2>5. QED
      BY <2>1, <2>2, <2>3, <2>4
  <1>4. QED
    BY <1>1, <1>3, GoesOn

\* A request, whatever becomes of it, makes no object and no edit.
LEMMA RequestWakes ==
    ASSUME NEW m \in Machines, api[m] \in Objects, NEW was, NEW err, NEW b, NEW o,
           \/ Unsent(m, was, err) \/ Lost(m)
           \/ Sent(m, MergeConditions(b, o, api[m]), was, err)
           \/ Sent(m, MergeObject(b, o, api[m]), was, err)
           \/ Sent(m, MergeStatus(b, o, api[m]), was, err)
    PROVE  api'[m].exists => api[m].exists /\ api'[m].edited = api[m].edited
  BY StoredFields, ConditionsFields, MergedFields, StatusFields DEF Unsent, Lost, Sent

LEMMA PatchConditionsWakes ==
    ASSUME IInv, NEW m \in Machines, WakeOK(m), PatchConditions(m)
    PROVE  WakeOK(m)'
  <1>1. PICK s, t : s = scope[m] /\ t = scope'[m]
    OBVIOUS
  <1>2. /\ UNCHANGED <<cache, queue, cluster, bootstrap>>
        /\ s.pc \in PatchPCs /\ s.part = "conditions" /\ PartDone(s, t, "object")
        /\ \/ Unsent(m, s.patchErr, t.patchErr) \/ Lost(m)
           \/ Sent(m, MergeConditions(s.before, s.obj, api[m]), s.patchErr, t.patchErr)
    BY <1>1, PatchConditionsStep DEF IInv
  <1>3. api[m] \in Objects
    BY DEF IInv, TypeInv, TypeOK
  <1>4. api'[m].exists => api[m].exists /\ api'[m].edited = api[m].edited
    BY <1>2, <1>3, RequestWakes
  <1>5. CacheKnows(m)'
    BY <1>2, <1>4 DEF WakeOK, CacheKnows
  <1>6. WakeScope(m, s) /\ t.pc # "Idle"
    BY <1>1, <1>2 DEF WakeOK, PatchPCs, PartDone
  <1>7. WakeScope(m, scope[m])'
    BY <1>1, <1>2, <1>4, <1>6 DEF WakeScope, PartDone, Waits
  <1>8. QED
    BY <1>1, <1>5, <1>6, <1>7 DEF WakeOK

\* The request that takes the finalizer off a deleted object removes it.
LEMMA PatchObjectWakes ==
    ASSUME IInv, NEW m \in Machines, WakeOK(m), PatchObject(m)
    PROVE  WakeOK(m)'
  <1>1. PICK s, t : s = scope[m] /\ t = scope'[m]
    OBVIOUS
  <1>2. /\ UNCHANGED <<cache, queue, cluster, bootstrap>>
        /\ s.pc \in PatchPCs /\ s.part = "object" /\ PartDone(s, t, "status")
        /\ \/ ~ChangesObject(s) /\ Unsent(m, s.patchErr, t.patchErr)
           \/ /\ ChangesObject(s)
              /\ Sent(m, MergeObject(s.before, s.obj, api[m]), s.patchErr, t.patchErr)
           \/ ChangesObject(s) /\ Lost(m) /\ t.patchErr
    BY <1>1, PatchObjectStep DEF IInv
  <1>3. api[m] \in Objects
    BY DEF IInv, TypeInv, TypeOK
  <1>4. api'[m].exists => api[m].exists /\ api'[m].edited = api[m].edited
    BY <1>2, <1>3, RequestWakes
  <1>5. CacheKnows(m)'
    BY <1>2, <1>4 DEF WakeOK, CacheKnows
  <1>6. WakeScope(m, s) /\ t.pc # "Idle"
    BY <1>1, <1>2 DEF WakeOK, PatchPCs, PartDone
  <1>7. ScopeCore(m, s)
    BY <1>1, <1>2, RunningScope DEF PatchPCs
  <1>8. ASSUME s.obj.deleting, ~s.obj.finalizer, ~t.patchErr
        PROVE  ~api'[m].exists
    <2>1. s.before.deleting /\ s.before.finalizer
      BY <1>6, <1>7, <1>8 DEF WakeScope, ScopeCore
    <2>2. ChangesObject(s)
      BY <1>8, <2>1 DEF ChangesObject
    <2>3. Sent(m, MergeObject(s.before, s.obj, api[m]), s.patchErr, t.patchErr)
      BY <1>2, <1>8, <2>2
    <2>4. api[m].exists /\ api[m].deleting
      BY <1>7, <2>1, <2>3 DEF Sent, ScopeCore, Precedes
    <2>5. PICK a : a = MergeObject(s.before, s.obj, api[m])
      OBVIOUS
    <2>6. a.deleting /\ ~a.finalizer
      BY <1>3, <1>8, <2>1, <2>4, <2>5, MergedFields DEF Merge
    <2>7. QED
      BY <2>3, <2>5, <2>6, StoredFields DEF Sent
  <1>9. WakeScope(m, scope[m])'
    BY <1>1, <1>2, <1>4, <1>6, <1>8 DEF WakeScope, PartDone, Waits
  <1>10. QED
    BY <1>1, <1>5, <1>6, <1>9 DEF WakeOK

\* The last request of a Patch, and what the reconcile leaves behind if that
\* was the deferred one.
LEMMA PatchStatusWakes ==
    ASSUME IInv, NEW m \in Machines, WakeOK(m), PatchStatus(m)
    PROVE  WakeOK(m)'
  <1>1. PICK s, t : s = scope[m] /\ t = scope'[m]
    OBVIOUS
  <1>2. PICK err \in BOOLEAN :
           /\ UNCHANGED <<cache, cluster, bootstrap>>
           /\ s.pc \in PatchPCs /\ s.part = "status"
           /\ StatusSent(m, s, err) /\ Resumed(m, s, err)
    BY <1>1, PatchStatusStep DEF IInv
  <1>3. api[m] \in Objects /\ s.obj \in Objects /\ s.before \in Objects
        /\ ScopeCore(m, s) /\ ScopeCall(m, s)
    BY <1>1, <1>2, RunningScope DEF PatchPCs
  <1>4. api'[m].exists => api[m].exists /\ api'[m].edited = api[m].edited
    BY <1>2, <1>3, RequestWakes DEF StatusSent
  <1>5. CacheKnows(m)'
    BY <1>2, <1>4 DEF WakeOK, CacheKnows
  <1>6. WakeScope(m, s)
    BY <1>1, <1>2 DEF WakeOK, PatchPCs
  <1>7. CASE s.pc = "Deferred"
    <2>1. /\ t = IdleScope
          /\ m \in queue' <=> m \in queue \/ s.result \in {"requeue", "error"}
          /\ last'[m] = IF err /\ s.result \notin {"requeue", "error"}
                        THEN "patchLost" ELSE s.result
      BY <1>1, <1>2, <1>7 DEF Resumed
    <2> SUFFICES ASSUME m \notin queue', cache'[m] = api'[m], api'[m].exists, ~err
                 PROVE  \/ s.result = "done" /\ api'[m].ready /\ ~api'[m].deleting
                        \/ s.result = "waiting" /\ Waits(m)'
                        \/ s.result = "swallowed"
      BY <1>1, <1>5, <2>1 DEF WakeOK, Asleep, IdleScope
    <2>2. api[m].exists /\ m \notin queue /\ api'[m] = s.before
      BY <1>2, <1>4, <1>6, <2>1 DEF WakeScope
    <2>3. s.result \in {"waiting", "done", "swallowed"}
      BY <1>6, <1>7, <2>1 DEF WakeScope
    <2>4. CASE s.result = "waiting"
      BY <1>2, <1>6, <1>7, <2>2, <2>4 DEF WakeScope, Waits
    <2>5. CASE s.result = "done"
      <3>1. ~s.patchErr
        BY <1>2, <2>2 DEF StatusSent, Unsent, Sent
      <3>2. ~s.obj.deleting /\ s.obj.ready /\ ~s.before.deleting
        BY <1>2, <1>3, <1>6, <1>7, <2>2, <2>5, <3>1 DEF WakeScope, ScopeCore
      <3>3. CASE ~ChangesStatus(s)
        BY <2>2, <2>5, <3>2, <3>3 DEF ChangesStatus
      <3>4. CASE ChangesStatus(s)
        <4>1. Sent(m, MergeStatus(s.before, s.obj, api[m]), s.patchErr, err)
          BY <1>2, <2>2, <3>4 DEF StatusSent
        <4>2. PICK a : a = MergeStatus(s.before, s.obj, api[m])
          OBVIOUS
        <4>3. api'[m] = a
          BY <4>1, <4>2, StoredFields DEF Sent
        <4>4. a.ready = Merge(s.before.ready, s.obj.ready, api[m].ready)
          BY <1>3, <4>2, StatusFields
        <4>5. api'[m].ready
          BY <2>2, <3>2, <4>3, <4>4 DEF Merge
        <4>6. QED
          BY <2>2, <2>5, <3>2, <4>5
      <3>5. QED
        BY <3>3, <3>4
    <2>6. QED
      BY <2>3, <2>4, <2>5
  <1>8. CASE s.pc # "Deferred"
    <2>1. PatchDone(s, t, err) /\ (m \in queue' <=> m \in queue)
      BY <1>1, <1>2, <1>8 DEF Resumed
    <2>2. s.pc = "PatchProviderID" => ~s.obj.deleting
      BY <1>3 DEF ScopeCall, NormalPCs
    <2>3. /\ ~s.obj.deleting => ~ParsedObject(s.obj, s.state).deleting
          /\ ParsedResult(s.state) \in {"done", "requeue", "error"}
          /\ ParsedResult(s.state) = "done" => ParsedObject(s.obj, s.state).ready
      BY <1>3, ParsedFields
    <2>4. /\ t.pc # "Idle" /\ t.before = s.before
          /\ t.pc = "Deferred" => /\ t.part = "conditions"
                                  /\ t.result \in {"done", "requeue", "error"}
                                  /\ t.result = "done" => ~t.obj.deleting /\ t.obj.ready
      BY <2>1, <2>2, <2>3 DEF PatchDone, Returned, Patching
    <2>5. QED
      BY <1>1, <1>2, <1>4, <2>1, <2>4, GoesOn DEF PatchPCs
  <1>9. QED
    BY <1>7, <1>8

\* The informer, a restart and a user.
LEMMA OutsideWakes ==
    ASSUME IInv, NEW m \in Machines, WakeOK(m),
           CacheSync(m) \/ Crash \/ UserDelete(m) \/ UserEdit(m)
    PROVE  WakeOK(m)'
  <1>1. StoreOK(m) /\ api[m] \in Objects
    BY DEF IInv, SafetyInv, TypeInv, TypeOK
  <1>2. CASE CacheSync(m)
    <2>1. /\ UNCHANGED <<api, scope>> /\ cache'[m] = api[m] /\ m \in queue'
      BY <1>2 DEF CacheSync, IInv, TypeInv, TypeOK
    <2>2. CacheKnows(m)'
      BY <1>1, <2>1 DEF CacheKnows, StoreOK
    <2>3. Asleep(m)'
      BY <2>1 DEF Asleep
    <2>4. scope[m].pc # "Idle" => WakeScope(m, scope[m])'
      BY <2>1 DEF WakeOK, WakeScope
    <2>5. QED
      BY <2>1, <2>2, <2>3, <2>4 DEF WakeOK
  <1>3. CASE Crash
    <2>1. /\ UNCHANGED api /\ cache'[m] = api[m] /\ m \in queue'
          /\ scope'[m] = IdleScope
      BY <1>3 DEF Crash
    <2>2. CacheKnows(m)'
      BY <1>1, <2>1 DEF CacheKnows, StoreOK
    <2>3. QED
      BY <2>1, <2>2 DEF WakeOK, Asleep, IdleScope
  <1>4. CASE UserDelete(m) \/ UserEdit(m)
    <2>1. /\ UNCHANGED <<cache, queue, scope, last, cluster, bootstrap>>
          /\ api[m].exists
      BY <1>4 DEF UserDelete, UserEdit
    <2>2. /\ api'[m].exists => (api[m].edited => api'[m].edited)
          /\ api'[m].exists => cache[m] # api'[m]
      <3>1. CASE UserDelete(m)
        <4>1. PICK a : a = [api[m] EXCEPT !.deleting = TRUE]
          OBVIOUS
        <4>2. a.deleting = TRUE /\ a.edited = api[m].edited /\ api'[m] = Stored(a)
          BY <1>1, <3>1, <4>1 DEF UserDelete, Objects, IInv, TypeInv, TypeOK
        <4>3. ~cache[m].deleting
          BY <1>1, <2>1, <3>1 DEF UserDelete, StoreOK, Precedes
        <4>4. QED
          BY <4>2, <4>3, StoredFields
      <3>2. CASE UserEdit(m)
        <4>1. api'[m].edited = TRUE /\ ~api[m].edited
          BY <1>1, <3>2 DEF UserEdit, Objects, IInv, TypeInv, TypeOK
        <4>2. ~cache[m].edited
          BY <2>1, <4>1 DEF WakeOK, CacheKnows
        <4>3. QED
          BY <4>1, <4>2
      <3>3. QED
        BY <1>4, <3>1, <3>2
    <2>3. CacheKnows(m)'
      BY <2>1, <2>2 DEF WakeOK, CacheKnows
    <2>4. Asleep(m)'
      BY <2>1, <2>2 DEF Asleep
    <2>5. scope[m].pc # "Idle" => WakeScope(m, scope[m])'
      BY <2>1 DEF WakeOK, WakeScope, Waits
    <2>6. QED
      BY <2>1, <2>3, <2>4, <2>5 DEF WakeOK
  <1>5. QED
    BY <1>2, <1>3, <1>4

LEMMA NextWakes == IInv /\ WakeInv /\ [Next]_vars => WakeInv'
  <1> SUFFICES ASSUME IInv, WakeInv, [Next]_vars, NEW m \in Machines
               PROVE  WakeOK(m)'
    BY DEF WakeInv
  <1>1. WakeOK(m) /\ TypeInv
    BY DEF WakeInv, IInv
  <1>2. CASE Reconcile(m)
    BY <1>1, <1>2, EntryWakes, HostCallWakes, PatchConditionsWakes, PatchObjectWakes,
       PatchStatusWakes DEF Reconcile
  <1>3. CASE Apart(m) /\ GatesKept(m)
    BY <1>1, <1>3, ApartWakes
  <1>4. QED
    BY <1>1, <1>2, <1>3, StepCases, OutsideWakes

\* No wake-up is lost, for any number of machines and any mix of failures: a
\* machine that is neither queued nor being reconciled, and whose cached copy is
\* current, is finished, still lacks what its last reconcile stopped at, or
\* ended in one of the three ways of the controllers that leave it to the
\* periodic resync (a missing Cluster, the client error reconcileDelete
\* swallows, a deferred Patch whose failure is only logged).
THEOREM WakeTheorem == Spec => []NothingForgotten
  <1>1. Init => IInv /\ WakeInv
    BY InitTypeInv, InitSafe, InitWake DEF IInv
  <1>2. IInv /\ WakeInv /\ [Next]_vars => (IInv /\ WakeInv)'
    BY NextTypeInv, NextSafe, NextWakes DEF IInv
  <1>3. WakeInv => NothingForgotten
    BY DEF WakeInv, WakeOK, Asleep, NothingForgotten, Waits
  <1>4. QED
    BY <1>1, <1>2, <1>3, PTL DEF Spec
=============================================================================
