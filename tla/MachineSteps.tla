---------------------------- MODULE MachineSteps ----------------------------
(***************************************************************************)
(* What each action of MachineController does to the machine it is about,  *)
(* field by field, and what a step that is about another machine, a host   *)
(* or a user leaves alone.  The inductive proofs cite these facts instead  *)
(* of the actions.                                                         *)
(***************************************************************************)
EXTENDS MachineProofs

-----------------------------------------------------------------------------
(* The scope after the helpers of the reconcile.                           *)

LEMMA ReturnFields ==
    ASSUME NEW s \in Scopes, NEW r
    PROVE  LET t == Return(s, r)
           IN  /\ t.pc = "Deferred" /\ t.part = "conditions" /\ t.patchErr = FALSE
               /\ t.result = r /\ t.obj = s.obj /\ t.before = s.before
               /\ t.fd = s.fd /\ t.uid = s.uid /\ t.state = s.state
  BY DEF Return, Scopes

LEMMA StartPatchFields ==
    ASSUME NEW s \in Scopes, NEW pc
    PROVE  LET t == StartPatch(s, pc)
           IN  /\ t.pc = pc /\ t.part = "conditions" /\ t.patchErr = FALSE
               /\ t.obj = s.obj /\ t.before = s.before
               /\ t.fd = s.fd /\ t.uid = s.uid /\ t.state = s.state
  BY DEF StartPatch, Scopes

LEMMA ObjectFields ==
    ASSUME NEW s \in Scopes, NEW o
    PROVE  LET t == [s EXCEPT !.obj = o]
           IN  /\ t.pc = s.pc /\ t.part = s.part /\ t.patchErr = s.patchErr
               /\ t.obj = o /\ t.before = s.before
               /\ t.fd = s.fd /\ t.uid = s.uid /\ t.state = s.state
  BY DEF Scopes

LEMMA GotoFields ==
    ASSUME TypeInv, NEW m \in Machines, NEW t, Goto(m, t)
    PROVE  scope'[m] = t /\ \A n \in Machines \ {m} : scope'[n] = scope[n]
  BY DEF Goto, TypeInv, TypeOK

\* The reconcile of m leaves other machines alone.
OthersKept(m) ==
    \A n \in Machines \ {m} :
        /\ api'[n] = api[n] /\ cache'[n] = cache[n] /\ scope'[n] = scope[n]
        /\ last'[n] = last[n] /\ (n \in queue' <=> n \in queue)

\* The scope t of a reconcile that returns with result r and object o.
Returned(t, r, o) ==
    /\ t.pc = "Deferred" /\ t.part = "conditions" /\ t.patchErr = FALSE
    /\ t.result = r /\ t.obj = o
\* The scope t of a reconcile that begins the Patch pc of object o.
Patching(t, pc, o) ==
    /\ t.pc = pc /\ t.part = "conditions" /\ t.patchErr = FALSE /\ t.obj = o

-----------------------------------------------------------------------------
(* Entering a reconcile.                                                   *)

\* What a reconcile that starts from the cached object o looks like.
Entered(m, t, o) ==
    /\ t.before = o /\ t.state = "nil"
    /\ \/ Returned(t, "error", o)
       \/ o.deleting /\ Returned(t, "swallowed", o)
       \/ /\ o.deleting /\ t.pc = "GetDelete" /\ t.obj = o
          /\ t.fd \in GetFailureDomain(m, o) /\ t.patchErr = FALSE
       \/ /\ ~o.deleting /\ Waits(m)
          /\ \E c \in {"WaitingForClusterInfra", "WaitingForBootstrapData"} :
                Returned(t, "waiting", [o EXCEPT !.cond = c])
       \/ /\ ~o.deleting /\ ~Waits(m) /\ o.providerID # NoID
          /\ t.pc = "GetNormal" /\ t.obj = o
          /\ t.fd \in GetFailureDomain(m, o) /\ t.patchErr = FALSE
       \/ /\ ~o.deleting /\ ~Waits(m) /\ o.providerID = NoID
          /\ Patching(t, "PatchFinalizer", [o EXCEPT !.finalizer = TRUE])
          /\ t.fd \in GetFailureDomain(m, o)

LEMMA EntryStep ==
    ASSUME TypeInv, NEW m \in Machines, ReconcileDelete(m) \/ ReconcileNormal(m)
    PROVE  /\ UNCHANGED <<api, cache, last, vms, cluster, bootstrap, budget>>
           /\ OthersKept(m) /\ m \notin queue'
           /\ scope[m].pc = "Idle" /\ cache[m].exists
           /\ "stale" \in Faults \/ cache[m] = api[m]
           /\ Entered(m, scope'[m], cache[m])
  <1> DEFINE o == cache[m]
             s == NewMachineScope(o)
  <1>1. o \in Objects /\ s \in Scopes
    BY NewScopeType DEF TypeInv, TypeOK
  <1>2. /\ s.obj = o /\ s.before = o /\ s.state = "nil" /\ s.patchErr = FALSE
        /\ s.part = "conditions"
    BY DEF NewMachineScope, IdleScope
  <1> HIDE DEF s
  <1>3. Enter(m)
    BY DEF ReconcileDelete, ReconcileNormal
  <1>4. /\ UNCHANGED <<api, cache, last, vms, cluster, bootstrap, budget>>
        /\ m \notin queue' /\ scope[m].pc = "Idle" /\ o.exists
        /\ "stale" \in Faults \/ o = api[m]
        /\ \A n \in Machines \ {m} : n \in queue' <=> n \in queue
    BY <1>3 DEF Enter, Dequeue
  <1>5. \E t : Goto(m, t)
    BY DEF ReconcileDelete, ReconcileNormal
  <1>6. OthersKept(m)
    BY <1>4, <1>5, GotoFields DEF OthersKept
  <1>7. ASSUME NEW r, r = "error" \/ (r = "swallowed" /\ o.deleting)
        PROVE  Entered(m, Return(s, r), o)
    <2> DEFINE t == Return(s, r)
    <2>1. Returned(t, r, o) /\ t.before = o /\ t.state = "nil"
      BY <1>1, <1>2, ReturnFields DEF Returned
    <2> HIDE DEF t
    <2>2. QED
      BY <1>7, <2>1 DEF Entered, t
  <1>8. ASSUME NEW h \in GetFailureDomain(m, o), o.deleting
        PROVE  Entered(m, [s EXCEPT !.pc = "GetDelete", !.fd = h], o)
    <2> DEFINE t == [s EXCEPT !.pc = "GetDelete", !.fd = h]
    <2>1. /\ t.pc = "GetDelete" /\ t.fd = h /\ t.obj = o /\ t.before = o
          /\ t.state = "nil" /\ t.patchErr = FALSE
      BY <1>1, <1>2 DEF Scopes
    <2> HIDE DEF t
    <2>2. QED
      BY <1>8, <2>1 DEF Entered, t
  <1>9. ASSUME NEW c \in {"WaitingForClusterInfra", "WaitingForBootstrapData"},
               ~o.deleting, Waits(m)
        PROVE  Entered(m, Return([s EXCEPT !.obj.cond = c], "waiting"), o)
    <2> DEFINE t == Return([s EXCEPT !.obj.cond = c], "waiting")
    <2>1. /\ Returned(t, "waiting", [o EXCEPT !.cond = c])
          /\ t.before = o /\ t.state = "nil"
      BY <1>1, <1>2 DEF Returned, Return, Scopes
    <2> HIDE DEF t
    <2>2. QED
      BY <1>9, <2>1 DEF Entered, t
  <1>10. ASSUME NEW h \in GetFailureDomain(m, o), ~o.deleting, ~Waits(m),
                o.providerID # NoID
         PROVE  Entered(m, [s EXCEPT !.pc = "GetNormal", !.fd = h], o)
    <2> DEFINE t == [s EXCEPT !.pc = "GetNormal", !.fd = h]
    <2>1. /\ t.pc = "GetNormal" /\ t.fd = h /\ t.obj = o /\ t.before = o
          /\ t.state = "nil" /\ t.patchErr = FALSE
      BY <1>1, <1>2 DEF Scopes
    <2> HIDE DEF t
    <2>2. QED
      BY <1>10, <2>1 DEF Entered, t
  <1>11. ASSUME NEW h \in GetFailureDomain(m, o), ~o.deleting, ~Waits(m),
                o.providerID = NoID
         PROVE  Entered(m, StartPatch([s EXCEPT !.fd = h, !.obj.finalizer = TRUE],
                                      "PatchFinalizer"), o)
    <2> DEFINE t == StartPatch([s EXCEPT !.fd = h, !.obj.finalizer = TRUE],
                               "PatchFinalizer")
    <2>1. /\ Patching(t, "PatchFinalizer", [o EXCEPT !.finalizer = TRUE])
          /\ t.before = o /\ t.state = "nil" /\ t.fd = h
      BY <1>1, <1>2 DEF Patching, StartPatch, Scopes
    <2> HIDE DEF t
    <2>2. QED
      BY <1>11, <2>1 DEF Entered, t
  <1>12. \E t : Goto(m, t) /\ Entered(m, t, o)
    <2>1. CASE ReconcileDelete(m)
      BY <1>7, <1>8, <2>1 DEF ReconcileDelete, s
    <2>2. CASE ReconcileNormal(m)
      BY <1>7, <1>9, <1>10, <1>11, <2>2 DEF ReconcileNormal, s, Waits
    <2>3. QED
      BY <2>1, <2>2
  <1>13. QED
    BY <1>4, <1>6, <1>12, GotoFields

-----------------------------------------------------------------------------
(* The calls to a host.                                                    *)

GetNormalDone(s, t) ==
    /\ t.before = s.before /\ t.fd = s.fd
    /\ \/ Returned(t, "error", s.obj)
       \/ /\ GetNotFound(s) /\ t.state = s.state
          /\ Patching(t, "PatchFinalizer", [s.obj EXCEPT !.finalizer = TRUE])
       \/ /\ GetFound(s)
          /\ t.uid = GetInstanceID(s.obj) /\ t.state = vms[GetInstanceID(s.obj)].state
          /\ Patching(t, "PatchFinalizer", [s.obj EXCEPT !.finalizer = TRUE])

LEMMA GetNormalStep ==
    ASSUME TypeInv, NEW m \in Machines, GetNormal(m)
    PROVE  /\ UNCHANGED <<api, cache, queue, last, vms, cluster, bootstrap>>
           /\ OthersKept(m)
           /\ scope[m].pc = "GetNormal" /\ GetNormalDone(scope[m], scope'[m])
  <1> DEFINE s == scope[m]
             uid == GetInstanceID(s.obj)
             guarded == StartPatch([s EXCEPT !.obj.finalizer = TRUE], "PatchFinalizer")
             found == [guarded EXCEPT !.uid = uid, !.state = vms[uid].state]
  <1>1. s \in Scopes /\ s.obj \in Objects
    BY ScopeOperators DEF TypeInv, TypeOK
  <1>2. /\ UNCHANGED <<api, cache, queue, last, vms, cluster, bootstrap>>
        /\ s.pc = "GetNormal"
    BY DEF GetNormal
  <1>3. /\ Patching(guarded, "PatchFinalizer", [s.obj EXCEPT !.finalizer = TRUE])
        /\ guarded.before = s.before /\ guarded.fd = s.fd /\ guarded.state = s.state
    BY <1>1 DEF Patching, StartPatch, Scopes
  <1>4. /\ Patching(found, "PatchFinalizer", [s.obj EXCEPT !.finalizer = TRUE])
        /\ found.before = s.before /\ found.fd = s.fd
        /\ found.uid = uid /\ found.state = vms[uid].state
    BY <1>1 DEF Patching, StartPatch, Scopes
  <1>5. /\ Returned(Return(s, "error"), "error", s.obj)
        /\ Return(s, "error").before = s.before /\ Return(s, "error").fd = s.fd
    BY <1>1, ReturnFields DEF Returned
  <1> HIDE DEF s, guarded, found
  <1>6. GetNormalDone(s, Return(s, "error"))
    BY <1>5 DEF GetNormalDone
  <1>7. GetNotFound(s) => GetNormalDone(s, guarded)
    BY <1>3 DEF GetNormalDone
  <1>8. GetFound(s) => GetNormalDone(s, found)
    BY <1>4 DEF GetNormalDone
  <1>9. \E t : Goto(m, t) /\ GetNormalDone(s, t)
    BY <1>6, <1>7, <1>8 DEF GetNormal, s, guarded, found
  <1>10. QED
    BY <1>2, <1>9, GotoFields DEF OthersKept, s

GetDeleteDone(s, t) ==
    /\ t.before = s.before /\ t.fd = s.fd
    /\ \/ Returned(t, "error", s.obj)
       \/ GetNotFound(s) /\ Returned(t, "done", [s.obj EXCEPT !.finalizer = FALSE])
       \/ GetFound(s) /\ Patching(t, "PatchNotReady", SetNotReady(s.obj, "Deleting"))

LEMMA GetDeleteStep ==
    ASSUME TypeInv, NEW m \in Machines, GetDelete(m)
    PROVE  /\ UNCHANGED <<api, cache, queue, last, vms, cluster, bootstrap>>
           /\ OthersKept(m)
           /\ scope[m].pc = "GetDelete" /\ GetDeleteDone(scope[m], scope'[m])
  <1> DEFINE s == scope[m]
             uid == GetInstanceID(s.obj)
             released == Return([s EXCEPT !.obj.finalizer = FALSE], "done")
             marked == StartPatch([s EXCEPT !.obj = SetNotReady(@, "Deleting"),
                                            !.uid = uid, !.state = vms[uid].state],
                                  "PatchNotReady")
  <1>1. s \in Scopes /\ s.obj \in Objects
    BY ScopeOperators DEF TypeInv, TypeOK
  <1>2. /\ UNCHANGED <<api, cache, queue, last, vms, cluster, bootstrap>>
        /\ s.pc = "GetDelete"
    BY DEF GetDelete
  <1>3. /\ Returned(released, "done", [s.obj EXCEPT !.finalizer = FALSE])
        /\ released.before = s.before /\ released.fd = s.fd
    BY <1>1 DEF Returned, Return, Scopes
  <1>4. /\ Patching(marked, "PatchNotReady", SetNotReady(s.obj, "Deleting"))
        /\ marked.before = s.before /\ marked.fd = s.fd
    BY <1>1 DEF Patching, StartPatch, Scopes
  <1>5. /\ Returned(Return(s, "error"), "error", s.obj)
        /\ Return(s, "error").before = s.before /\ Return(s, "error").fd = s.fd
    BY <1>1, ReturnFields DEF Returned
  <1> HIDE DEF s, released, marked
  <1>6. GetDeleteDone(s, Return(s, "error"))
    BY <1>5 DEF GetDeleteDone
  <1>7. GetNotFound(s) => GetDeleteDone(s, released)
    BY <1>3 DEF GetDeleteDone
  <1>8. GetFound(s) => GetDeleteDone(s, marked)
    BY <1>4 DEF GetDeleteDone
  <1>9. \E t : Goto(m, t) /\ GetDeleteDone(s, t)
    BY <1>6, <1>7, <1>8 DEF GetDelete, s, released, marked
  <1>10. QED
    BY <1>2, <1>9, GotoFields DEF OthersKept, s

CreateDone(m, s, t) ==
    /\ t.before = s.before /\ t.fd = s.fd
    /\ \/ /\ UNCHANGED vms
          /\ \E o \in {s.obj, GetLabels(m, s.obj)} : Returned(t, "error", o)
       \/ /\ "lostReply" \in Faults /\ \E u \in UIDs : VMCreated(m, u)
          /\ Returned(t, "error", GetLabels(m, s.obj))
       \/ \E u \in UIDs :
             /\ VMCreated(m, u) /\ t.uid = u /\ t.state = "PENDING"
             /\ Patching(t, "PatchProviderID",
                         SetProviderID(GetLabels(m, s.obj), s.fd, u))

LEMMA CreateStep ==
    ASSUME TypeInv, NEW m \in Machines, Create(m)
    PROVE  /\ UNCHANGED <<api, cache, queue, last, cluster, bootstrap>>
           /\ OthersKept(m)
           /\ scope[m].pc = "Create" /\ CreateDone(m, scope[m], scope'[m])
  <1>1. PICK s : s = scope[m]
    OBVIOUS
  <1> DEFINE labelled == [s EXCEPT !.obj = GetLabels(m, @)]
             known(u) == [labelled EXCEPT !.uid = u, !.state = "PENDING",
                                          !.obj = SetProviderID(@, s.fd, u)]
  <1>2. s \in Scopes /\ s.obj \in Objects
    BY <1>1, ScopeOperators DEF TypeInv, TypeOK
  <1>3. /\ UNCHANGED <<api, cache, queue, last, cluster, bootstrap>>
        /\ s.pc = "Create"
    BY <1>1 DEF Create
  <1>4. /\ labelled \in Scopes /\ labelled.obj = GetLabels(m, s.obj)
        /\ labelled.before = s.before /\ labelled.fd = s.fd
    <2>1. GetLabels(m, s.obj) \in Objects
      BY <1>2, ObjectOperators
    <2>2. QED
      BY <1>2, <2>1 DEF Scopes
  <1> HIDE DEF labelled
  <1>5. ASSUME NEW u \in UIDs, VMCreated(m, u)
        PROVE  CreateDone(m, s, StartPatch(known(u), "PatchProviderID"))
    <2> DEFINE t == StartPatch(known(u), "PatchProviderID")
    <2>1. /\ Patching(t, "PatchProviderID",
                      SetProviderID(GetLabels(m, s.obj), s.fd, u))
          /\ t.before = s.before /\ t.fd = s.fd /\ t.uid = u /\ t.state = "PENDING"
      BY <1>4 DEF Patching, StartPatch, Scopes
    <2> HIDE DEF t
    <2>2. QED
      BY <1>5, <2>1 DEF CreateDone, t
  <1>6. /\ Returned(Return(s, "error"), "error", s.obj)
        /\ Return(s, "error").before = s.before /\ Return(s, "error").fd = s.fd
    BY <1>2, ReturnFields DEF Returned
  <1>7. /\ Returned(Return(labelled, "error"), "error", GetLabels(m, s.obj))
        /\ Return(labelled, "error").before = s.before
        /\ Return(labelled, "error").fd = s.fd
    BY <1>4, ReturnFields DEF Returned
  <1>8. UNCHANGED vms => /\ CreateDone(m, s, Return(s, "error"))
                         /\ CreateDone(m, s, Return(labelled, "error"))
    BY <1>6, <1>7 DEF CreateDone
  <1>9. "lostReply" \in Faults /\ (\E u \in UIDs : VMCreated(m, u))
           => CreateDone(m, s, Return(labelled, "error"))
    BY <1>7 DEF CreateDone
  <1>10. \E t : Goto(m, t) /\ CreateDone(m, s, t)
    BY <1>1, <1>5, <1>8, <1>9 DEF Create, Fault, labelled
  <1>11. QED
    BY <1>1, <1>3, <1>10, GotoFields DEF OthersKept

DeleteDone(s, t) ==
    /\ t.before = s.before
    /\ \/ Returned(t, "requeue", s.obj)
       \/ Returned(t, "error", SetNotReady(s.obj, "DeleteFailed"))

LEMMA DeleteStep ==
    ASSUME TypeInv, NEW m \in Machines, Delete(m)
    PROVE  /\ UNCHANGED <<api, cache, queue, last, cluster, bootstrap>>
           /\ OthersKept(m)
           /\ UNCHANGED vms \/ (Present(scope[m]) /\ VMDeleting(scope[m]))
           /\ scope[m].pc = "Delete" /\ DeleteDone(scope[m], scope'[m])
  <1>1. PICK s : s = scope[m]
    OBVIOUS
  <1> DEFINE failed == [s EXCEPT !.obj = SetNotReady(@, "DeleteFailed")]
  <1>2. s \in Scopes /\ s.obj \in Objects
    BY <1>1, ScopeOperators DEF TypeInv, TypeOK
  <1>3. /\ UNCHANGED <<api, cache, queue, last, cluster, bootstrap>>
        /\ s.pc = "Delete"
        /\ UNCHANGED vms \/ (Present(s) /\ VMDeleting(s))
    BY <1>1 DEF Delete
  <1>4. /\ failed \in Scopes /\ failed.obj = SetNotReady(s.obj, "DeleteFailed")
        /\ failed.before = s.before
    <2>1. SetNotReady(s.obj, "DeleteFailed") \in Objects
      BY <1>2, ObjectOperators DEF Reasons
    <2>2. QED
      BY <1>2, <2>1 DEF Scopes
  <1> HIDE DEF failed
  <1>5. DeleteDone(s, Return(s, "requeue")) /\ DeleteDone(s, Return(failed, "error"))
    <2>1. /\ Returned(Return(s, "requeue"), "requeue", s.obj)
          /\ Return(s, "requeue").before = s.before
      BY <1>2, ReturnFields DEF Returned
    <2>2. /\ Returned(Return(failed, "error"), "error", SetNotReady(s.obj, "DeleteFailed"))
          /\ Return(failed, "error").before = s.before
      BY <1>4, ReturnFields DEF Returned
    <2>3. QED
      BY <2>1, <2>2 DEF DeleteDone
  <1>6. \E t : Goto(m, t) /\ DeleteDone(s, t)
    BY <1>1, <1>5 DEF Delete, failed
  <1>7. QED
    BY <1>1, <1>3, <1>6, GotoFields DEF OthersKept

-----------------------------------------------------------------------------
(* The three requests of a Patch.                                          *)

\* Nothing to send, or the request was stored, or it failed.
Unsent(m, was, err) == api'[m] = api[m] /\ (err <=> was)
Sent(m, a, was, err) == api[m].exists /\ api'[m] = Stored(a) /\ (err <=> was)
Lost(m) ==
    /\ api'[m] = api[m]
    /\ \/ ~api[m].exists
       \/ api[m].exists /\ ("patch" \in Faults \/ "stale" \in Faults)

\* The scope t after the request of a Patch that comes before request p.
PartDone(s, t, p) ==
    /\ t.pc = s.pc /\ t.part = p /\ t.obj = s.obj /\ t.before = s.before
    /\ t.fd = s.fd /\ t.uid = s.uid /\ t.state = s.state /\ t.result = s.result

LEMMA PartFields ==
    ASSUME NEW s \in Scopes, NEW p
    PROVE  LET t == [s EXCEPT !.part = p]
               e == [t EXCEPT !.patchErr = TRUE]
           IN  /\ PartDone(s, t, p) /\ t.patchErr = s.patchErr
               /\ PartDone(s, e, p) /\ e.patchErr = TRUE
  BY DEF PartDone, Scopes

LEMMA AcceptedFields ==
    ASSUME TypeInv, NEW m \in Machines, NEW a, Accepted(m, a)
    PROVE  api'[m] = Stored(a) /\ \A n \in Machines \ {m} : api'[n] = api[n]
  BY DEF Accepted, TypeInv, TypeOK

LEMMA RejectedFields ==
    ASSUME NEW m \in Machines, Rejected(m) \/ Conflict(m)
    PROVE  UNCHANGED api /\ Lost(m)
  BY DEF Rejected, Conflict, Lost, Fault

LEMMA PatchConditionsStep ==
    ASSUME TypeInv, NEW m \in Machines, PatchConditions(m)
    PROVE  LET s == scope[m]
               t == scope'[m]
           IN  /\ UNCHANGED <<cache, queue, last, vms, cluster, bootstrap>>
               /\ OthersKept(m)
               /\ s.pc \in PatchPCs /\ s.part = "conditions"
               /\ PartDone(s, t, "object")
               /\ \/ ~ChangesConditions(s) /\ Unsent(m, s.patchErr, t.patchErr)
                  \/ /\ ChangesConditions(s)
                     /\ Sent(m, MergeConditions(s.before, s.obj, api[m]),
                             s.patchErr, t.patchErr)
                  \/ ChangesConditions(s) /\ Lost(m) /\ t.patchErr
  <1>1. PICK s : s = scope[m]
    OBVIOUS
  <1> DEFINE next == [s EXCEPT !.part = "object"]
             failed == [next EXCEPT !.patchErr = TRUE]
  <1>2. s \in Scopes
    BY <1>1 DEF TypeInv, TypeOK
  <1>3. /\ UNCHANGED <<cache, queue, last, vms, cluster, bootstrap>>
        /\ s.pc \in PatchPCs /\ s.part = "conditions"
    BY <1>1 DEF PatchConditions
  <1>4. /\ PartDone(s, next, "object") /\ next.patchErr = s.patchErr
        /\ PartDone(s, failed, "object") /\ failed.patchErr = TRUE
    BY <1>2, PartFields
  <1> HIDE DEF next, failed
  <1>5. \/ ~ChangesConditions(s) /\ Goto(m, next) /\ UNCHANGED api
        \/ /\ ChangesConditions(s) /\ api[m].exists
           /\ Accepted(m, MergeConditions(s.before, s.obj, api[m])) /\ Goto(m, next)
        \/ ChangesConditions(s) /\ (Rejected(m) \/ Conflict(m)) /\ Goto(m, failed)
    BY <1>1 DEF PatchConditions, next, failed
  <1>6. CASE ~ChangesConditions(s) /\ Goto(m, next) /\ UNCHANGED api
    BY <1>1, <1>3, <1>4, <1>6, GotoFields DEF OthersKept, Unsent
  <1>7. CASE /\ ChangesConditions(s) /\ api[m].exists
             /\ Accepted(m, MergeConditions(s.before, s.obj, api[m])) /\ Goto(m, next)
    BY <1>1, <1>3, <1>4, <1>7, GotoFields, AcceptedFields DEF OthersKept, Sent
  <1>8. CASE ChangesConditions(s) /\ (Rejected(m) \/ Conflict(m)) /\ Goto(m, failed)
    BY <1>1, <1>3, <1>4, <1>8, GotoFields, RejectedFields DEF OthersKept
  <1>9. QED
    BY <1>5, <1>6, <1>7, <1>8

LEMMA PatchObjectStep ==
    ASSUME TypeInv, NEW m \in Machines, PatchObject(m)
    PROVE  LET s == scope[m]
               t == scope'[m]
           IN  /\ UNCHANGED <<cache, queue, last, vms, cluster, bootstrap>>
               /\ OthersKept(m)
               /\ s.pc \in PatchPCs /\ s.part = "object"
               /\ PartDone(s, t, "status")
               /\ \/ ~ChangesObject(s) /\ Unsent(m, s.patchErr, t.patchErr)
                  \/ /\ ChangesObject(s)
                     /\ Sent(m, MergeObject(s.before, s.obj, api[m]),
                             s.patchErr, t.patchErr)
                  \/ ChangesObject(s) /\ Lost(m) /\ t.patchErr
  <1>1. PICK s : s = scope[m]
    OBVIOUS
  <1> DEFINE next == [s EXCEPT !.part = "status"]
             failed == [next EXCEPT !.patchErr = TRUE]
             new == MergeObject(s.before, s.obj, api[m])
  <1>2. s \in Scopes
    BY <1>1 DEF TypeInv, TypeOK
  <1>3. /\ UNCHANGED <<cache, queue, last, vms, cluster, bootstrap>>
        /\ s.pc \in PatchPCs /\ s.part = "object"
    BY <1>1 DEF PatchObject
  <1>4. /\ PartDone(s, next, "status") /\ next.patchErr = s.patchErr
        /\ PartDone(s, failed, "status") /\ failed.patchErr = TRUE
    BY <1>2, PartFields
  <1> HIDE DEF next, failed, new
  <1>5. \/ ~ChangesObject(s) /\ Goto(m, next) /\ UNCHANGED api
        \/ ChangesObject(s) /\ api[m].exists /\ Accepted(m, new) /\ Goto(m, next)
        \/ ChangesObject(s) /\ Rejected(m) /\ Goto(m, failed)
    BY <1>1 DEF PatchObject, next, failed, new
  <1>6. CASE ~ChangesObject(s) /\ Goto(m, next) /\ UNCHANGED api
    BY <1>1, <1>3, <1>4, <1>6, GotoFields DEF OthersKept, Unsent
  <1>7. CASE ChangesObject(s) /\ api[m].exists /\ Accepted(m, new) /\ Goto(m, next)
    BY <1>1, <1>3, <1>4, <1>7, GotoFields, AcceptedFields DEF OthersKept, Sent, new
  <1>8. CASE ChangesObject(s) /\ Rejected(m) /\ Goto(m, failed)
    BY <1>1, <1>3, <1>4, <1>8, GotoFields, RejectedFields DEF OthersKept
  <1>9. QED
    BY <1>5, <1>6, <1>7, <1>8

\* The reconcile after an explicit Patch of s, which failed if err.
PatchDone(s, t, err) ==
    /\ t.before = s.before
    /\ \/ err /\ Returned(t, "error", s.obj)
       \/ /\ ~err /\ s.pc = "PatchFinalizer" /\ ~KnownVM(s)
          /\ t.pc = "Create" /\ t.obj = s.obj /\ t.fd = s.fd /\ ~t.patchErr
       \/ /\ ~err /\ s.pc = "PatchFinalizer" /\ KnownVM(s)
          /\ t.fd = s.fd /\ t.uid = s.uid /\ t.state = s.state
          /\ Patching(t, "PatchProviderID", SetProviderID(s.obj, s.fd, s.uid))
       \/ /\ ~err /\ s.pc = "PatchProviderID"
          /\ Returned(t, ParsedResult(s.state), ParsedObject(s.obj, s.state))
       \/ /\ ~err /\ s.pc = "PatchNotReady"
          /\ t.pc = "Delete" /\ t.obj = s.obj /\ t.fd = s.fd /\ ~t.patchErr
       \/ ~err /\ s.pc = "PatchNotReady" /\ Returned(t, "requeue", s.obj)

LEMMA AfterPatchDone ==
    ASSUME NEW s \in Scopes, s.pc \in PatchPCs \ {"Deferred"}
    PROVE  PatchDone(s, AfterPatch(s), s.patchErr)
  <1> USE DEF PatchPCs
  <1>1. s.obj \in Objects
    BY ScopeOperators
  <1>2. ASSUME NEW r PROVE Returned(Return(s, r), r, s.obj) /\ Return(s, r).before = s.before
    BY ReturnFields DEF Returned
  <1>3. CASE s.patchErr
    BY <1>2, <1>3 DEF AfterPatch, PatchDone
  <1>4. CASE ~s.patchErr /\ s.pc = "PatchFinalizer" /\ ~KnownVM(s)
    <2> DEFINE t == [s EXCEPT !.pc = "Create"]
    <2>1. /\ t.pc = "Create" /\ t.obj = s.obj /\ t.fd = s.fd /\ t.before = s.before
          /\ t.patchErr = s.patchErr
      BY DEF Scopes
    <2>2. AfterPatch(s) = t
      BY <1>4 DEF AfterPatch, Continue
    <2> HIDE DEF t
    <2>3. QED
      BY <1>4, <2>1, <2>2 DEF PatchDone
  <1>5. CASE ~s.patchErr /\ s.pc = "PatchFinalizer" /\ KnownVM(s)
    <2> DEFINE r == [s EXCEPT !.obj = SetProviderID(@, s.fd, s.uid)]
               t == StartPatch(r, "PatchProviderID")
    <2>1. /\ Patching(t, "PatchProviderID", SetProviderID(s.obj, s.fd, s.uid))
          /\ t.fd = s.fd /\ t.uid = s.uid /\ t.state = s.state /\ t.before = s.before
      BY DEF Scopes, StartPatch, Patching
    <2>2. AfterPatch(s) = t
      BY <1>5 DEF AfterPatch, Continue
    <2> HIDE DEF t
    <2>3. QED
      BY <1>5, <2>1, <2>2 DEF PatchDone
  <1>6. CASE ~s.patchErr /\ s.pc = "PatchProviderID"
    <2> DEFINE o == ParsedObject(s.obj, s.state)
               t == Return([s EXCEPT !.obj = o], ParsedResult(s.state))
    <2> HIDE DEF o
    <2>1. Returned(t, ParsedResult(s.state), o) /\ t.before = s.before
      BY DEF Scopes, Return, Returned
    <2>2. AfterPatch(s) = t
      BY <1>6 DEF AfterPatch, Continue, o
    <2> HIDE DEF t
    <2>3. QED
      BY <1>6, <2>1, <2>2 DEF PatchDone, o
  <1>7. CASE ~s.patchErr /\ s.pc = "PatchNotReady" /\ s.state # "DELETING"
    <2> DEFINE t == [s EXCEPT !.pc = "Delete"]
    <2>1. /\ t.pc = "Delete" /\ t.obj = s.obj /\ t.fd = s.fd /\ t.before = s.before
          /\ t.patchErr = s.patchErr
      BY DEF Scopes
    <2>2. AfterPatch(s) = t
      BY <1>7 DEF AfterPatch, Continue
    <2> HIDE DEF t
    <2>3. QED
      BY <1>7, <2>1, <2>2 DEF PatchDone
  <1>8. CASE ~s.patchErr /\ s.pc = "PatchNotReady" /\ s.state = "DELETING"
    <2>1. AfterPatch(s) = Return(s, "requeue")
      BY <1>8 DEF AfterPatch, Continue
    <2>2. QED
      BY <1>2, <1>8, <2>1 DEF PatchDone
  <1>9. QED
    BY <1>3, <1>4, <1>5, <1>6, <1>7, <1>8

\* The end of a Patch of s, which failed if err.
Resumed(m, s, err) ==
    IF s.pc = "Deferred"
    THEN /\ scope'[m] = IdleScope
         /\ m \in queue' <=> m \in queue \/ s.result \in {"requeue", "error"}
         /\ last'[m] = IF err /\ s.result \notin {"requeue", "error"}
                       THEN "patchLost" ELSE s.result
    ELSE /\ PatchDone(s, scope'[m], err)
         /\ m \in queue' <=> m \in queue
         /\ last'[m] = last[m]

LEMMA ResumeStep ==
    ASSUME TypeInv, NEW m \in Machines, NEW s \in Scopes, s.pc \in PatchPCs,
           Resume(m, s)
    PROVE  /\ Resumed(m, s, s.patchErr)
           /\ \A n \in Machines \ {m} : /\ scope'[n] = scope[n] /\ last'[n] = last[n]
                                        /\ n \in queue' <=> n \in queue
  <1>1. CASE s.pc = "Deferred"
    <2>1. Finish(m, s)
      BY <1>1 DEF Resume
    <2>2. /\ scope'[m] = IdleScope
          /\ \A n \in Machines \ {m} : scope'[n] = scope[n]
      BY <2>1, GotoFields DEF Finish
    <2>3. /\ m \in queue' <=> m \in queue \/ s.result \in {"requeue", "error"}
          /\ \A n \in Machines \ {m} : n \in queue' <=> n \in queue
      BY <2>1 DEF Finish
    <2>4. /\ last'[m] = IF s.patchErr /\ s.result \notin {"requeue", "error"}
                        THEN "patchLost" ELSE s.result
          /\ \A n \in Machines \ {m} : last'[n] = last[n]
      BY <2>1 DEF Finish, TypeInv, TypeOK
    <2>5. QED
      BY <1>1, <2>2, <2>3, <2>4 DEF Resumed
  <1>2. CASE s.pc # "Deferred"
    <2>1. Goto(m, AfterPatch(s)) /\ UNCHANGED <<queue, last>>
      BY <1>2 DEF Resume
    <2>2. scope'[m] = AfterPatch(s) /\ \A n \in Machines \ {m} : scope'[n] = scope[n]
      BY <2>1, GotoFields
    <2>3. PatchDone(s, AfterPatch(s), s.patchErr)
      BY <1>2, AfterPatchDone
    <2>4. QED
      BY <1>2, <2>1, <2>2, <2>3 DEF Resumed
  <1>3. QED
    BY <1>1, <1>2

StatusSent(m, s, err) ==
    \/ ~ChangesStatus(s) /\ Unsent(m, s.patchErr, err)
    \/ /\ ChangesStatus(s)
       /\ Sent(m, MergeStatus(s.before, s.obj, api[m]), s.patchErr, err)
    \/ ChangesStatus(s) /\ Lost(m) /\ err
    \/ /\ ChangesStatus(s) /\ ~api[m].exists /\ Unsent(m, s.patchErr, err)
       /\ s.obj.deleting /\ ~s.obj.finalizer

LEMMA PatchStatusStep ==
    ASSUME TypeInv, NEW m \in Machines, PatchStatus(m)
    PROVE  /\ UNCHANGED <<cache, vms, cluster, bootstrap>>
           /\ OthersKept(m)
           /\ scope[m].pc \in PatchPCs /\ scope[m].part = "status"
           /\ \E err \in BOOLEAN :
                 StatusSent(m, scope[m], err) /\ Resumed(m, scope[m], err)
  <1>1. PICK s : s = scope[m]
    OBVIOUS
  <1> DEFINE failed == [s EXCEPT !.patchErr = TRUE]
             new == MergeStatus(s.before, s.obj, api[m])
             released == s.obj.deleting /\ ~s.obj.finalizer /\ ~api[m].exists
  <1>2. s \in Scopes /\ s.patchErr \in BOOLEAN
    BY <1>1 DEF TypeInv, TypeOK, Scopes
  <1>3. /\ UNCHANGED <<cache, vms, cluster, bootstrap>>
        /\ s.pc \in PatchPCs /\ s.part = "status"
    BY <1>1 DEF PatchStatus
  <1>4. failed \in Scopes /\ failed.patchErr = TRUE
    BY <1>2 DEF Scopes
  <1>5. /\ failed.pc = s.pc /\ failed.obj = s.obj /\ failed.before = s.before
        /\ failed.fd = s.fd /\ failed.uid = s.uid /\ failed.state = s.state
        /\ failed.result = s.result
    BY <1>2 DEF Scopes
  <1> HIDE DEF failed, new, released
  <1>6. ASSUME NEW err \in BOOLEAN, Resumed(m, failed, err)
        PROVE  Resumed(m, s, err)
    <2>1. CASE s.pc = "Deferred"
      BY <1>5, <1>6, <2>1 DEF Resumed
    <2>2. CASE s.pc # "Deferred"
      <3>1. PatchDone(failed, scope'[m], err) => PatchDone(s, scope'[m], err)
        BY <1>5 DEF PatchDone, KnownVM
      <3>2. QED
        BY <1>5, <1>6, <2>2, <3>1 DEF Resumed
    <2>3. QED
      BY <2>1, <2>2
  <1>7. \/ ~ChangesStatus(s) /\ Resume(m, s) /\ UNCHANGED api
        \/ ChangesStatus(s) /\ api[m].exists /\ Accepted(m, new) /\ Resume(m, s)
        \/ ChangesStatus(s) /\ Rejected(m) /\ released /\ Resume(m, s)
        \/ ChangesStatus(s) /\ Rejected(m) /\ Resume(m, failed)
    BY <1>1 DEF PatchStatus, failed, new, released
  <1>8. CASE ~ChangesStatus(s) /\ Resume(m, s) /\ UNCHANGED api
    <2>1. StatusSent(m, s, s.patchErr)
      BY <1>8 DEF StatusSent, Unsent
    <2>2. QED
      BY <1>1, <1>2, <1>3, <1>8, <2>1, ResumeStep DEF OthersKept
  <1>9. CASE ChangesStatus(s) /\ api[m].exists /\ Accepted(m, new) /\ Resume(m, s)
    <2>1. StatusSent(m, s, s.patchErr)
      BY <1>9, AcceptedFields DEF StatusSent, Sent, new
    <2>2. QED
      BY <1>1, <1>2, <1>3, <1>9, <2>1, ResumeStep, AcceptedFields DEF OthersKept
  <1>10. CASE ChangesStatus(s) /\ Rejected(m) /\ released /\ Resume(m, s)
    <2>1. StatusSent(m, s, s.patchErr)
      BY <1>10, RejectedFields DEF StatusSent, Unsent, released
    <2>2. QED
      BY <1>1, <1>2, <1>3, <1>10, <2>1, ResumeStep, RejectedFields DEF OthersKept
  <1>11. CASE ChangesStatus(s) /\ Rejected(m) /\ Resume(m, failed)
    <2>1. StatusSent(m, s, TRUE)
      BY <1>11, RejectedFields DEF StatusSent
    <2>2. Resumed(m, s, TRUE)
      BY <1>3, <1>4, <1>5, <1>6, <1>11, ResumeStep
    <2>3. OthersKept(m)
      BY <1>3, <1>4, <1>5, <1>11, ResumeStep, RejectedFields DEF OthersKept
    <2>4. QED
      BY <1>1, <1>3, <2>1, <2>2, <2>3
  <1>12. QED
    BY <1>7, <1>8, <1>9, <1>10, <1>11

-----------------------------------------------------------------------------
(* What a stored request changes in the object.                            *)

LEMMA StoredFields ==
    ASSUME NEW a
    PROVE  \/ a.deleting /\ ~a.finalizer /\ Stored(a) = GoneObject /\ ~Stored(a).exists
           \/ ~(a.deleting /\ ~a.finalizer) /\ Stored(a) = a
  BY DEF Stored, GoneObject, NewObject

LEMMA ConditionsFields ==
    ASSUME NEW b, NEW o, NEW a \in Objects
    PROVE  LET c == MergeConditions(b, o, a)
           IN  /\ c.exists = a.exists /\ c.deleting = a.deleting
               /\ c.finalizer = a.finalizer /\ c.edited = a.edited
               /\ c.providerID = a.providerID
               /\ c.ready = a.ready /\ c.vmState = a.vmState
               /\ c.cond = Merge(b.cond, o.cond, a.cond)
  BY DEF MergeConditions, Objects

LEMMA MergedFields ==
    ASSUME NEW b, NEW o, NEW a \in Objects
    PROVE  LET c == MergeObject(b, o, a)
           IN  /\ c.exists = a.exists /\ c.deleting = a.deleting
               /\ c.finalizer = Merge(b.finalizer, o.finalizer, a.finalizer)
               /\ c.edited = a.edited
               /\ c.providerID = Merge(b.providerID, o.providerID, a.providerID)
               /\ c.ready = a.ready /\ c.vmState = a.vmState /\ c.cond = a.cond
  BY DEF MergeObject, Objects

LEMMA StatusFields ==
    ASSUME NEW b, NEW o, NEW a \in Objects
    PROVE  LET c == MergeStatus(b, o, a)
           IN  /\ c.exists = a.exists /\ c.deleting = a.deleting
               /\ c.finalizer = a.finalizer /\ c.edited = a.edited
               /\ c.providerID = a.providerID /\ c.cond = a.cond
               /\ c.ready = Merge(b.ready, o.ready, a.ready)
               /\ c.vmState = Merge(b.vmState, o.vmState, a.vmState)
  BY DEF MergeStatus, Objects

LEMMA ParsedFields ==
    ASSUME NEW o \in Objects, NEW st
    PROVE  /\ ParsedObject(o, st).deleting = o.deleting
           /\ ParsedObject(o, st).finalizer = o.finalizer
           /\ ParsedObject(o, st).providerID = o.providerID
           /\ ParsedResult(st) \in {"done", "requeue", "error"}
           /\ ParsedResult(st) = "done" => ParsedObject(o, st).ready
  <1>1. \A v : LET p == [o EXCEPT !.vmState = v]
               IN  /\ p.deleting = o.deleting /\ p.finalizer = o.finalizer
                   /\ p.providerID = o.providerID
                   /\ SetReady(p).ready = TRUE
                   /\ SetReady(p).deleting = o.deleting
                   /\ SetReady(p).finalizer = o.finalizer
                   /\ SetReady(p).providerID = o.providerID
                   /\ \A r : /\ SetNotReady(p, r).deleting = o.deleting
                             /\ SetNotReady(p, r).finalizer = o.finalizer
                             /\ SetNotReady(p, r).providerID = o.providerID
    BY DEF SetReady, SetNotReady, Objects
  <1>2. QED
    BY <1>1 DEF ParsedObject, ParsedResult

\* The changes a reconcile makes to its object besides the provider ID.
LEMMA SameProviderID ==
    ASSUME NEW o \in Objects, NEW m
    PROVE  /\ [o EXCEPT !.finalizer = TRUE].providerID = o.providerID
           /\ [o EXCEPT !.finalizer = FALSE].providerID = o.providerID
           /\ \A c : [o EXCEPT !.cond = c].providerID = o.providerID
           /\ \A r : SetNotReady(o, r).providerID = o.providerID
           /\ GetLabels(m, o).providerID = o.providerID
  BY DEF SetNotReady, GetLabels, Objects

-----------------------------------------------------------------------------
(* A step of the system, seen from one machine.                            *)

\* A step that leaves machine n alone, but for an event that queues it.
Apart(n) ==
    /\ api'[n] = api[n] /\ cache'[n] = cache[n] /\ scope'[n] = scope[n]
    /\ last'[n] = last[n] /\ (n \in queue => n \in queue')

\* Whatever ends a machine's wait queues it, if the informer knows it.
GatesKept(n) ==
    /\ Waits(n)' => Waits(n)
    /\ n \notin queue' /\ cache[n].exists =>
          /\ Waits(n) => Waits(n)'
          /\ cluster.gate \notin {"ok", "noCluster"} =>
                cluster'.gate \notin {"ok", "noCluster"}

LEMMA SameGates ==
    ASSUME UNCHANGED <<cluster, bootstrap>>, NEW n \in Machines
    PROVE  GatesKept(n)
  BY DEF GatesKept, Waits

LEMMA ReconcileStep ==
    ASSUME TypeInv, NEW m \in Machines, Reconcile(m)
    PROVE  OthersKept(m) /\ UNCHANGED <<cluster, bootstrap>>
  <1>1. CASE ReconcileIgnored(m) \/ ReconcileFailed(m)
    BY <1>1 DEF ReconcileIgnored, ReconcileFailed, OthersKept, TypeInv, TypeOK
  <1>2. CASE ReconcileDelete(m) \/ ReconcileNormal(m)
    BY <1>2, EntryStep
  <1>3. CASE GetNormal(m) \/ GetDelete(m)
    BY <1>3, GetNormalStep, GetDeleteStep
  <1>4. CASE Create(m)
    BY <1>4, CreateStep
  <1>5. CASE Delete(m)
    BY <1>5, DeleteStep
  <1>6. CASE PatchConditions(m)
    BY <1>6, PatchConditionsStep
  <1>7. CASE PatchObject(m)
    BY <1>7, PatchObjectStep
  <1>8. CASE PatchStatus(m)
    BY <1>8, PatchStatusStep
  <1>9. QED
    BY <1>1, <1>2, <1>3, <1>4, <1>5, <1>6, <1>7, <1>8 DEF Reconcile

\* A step is one of this machine's own, a restart, or leaves the machine alone.
LEMMA StepCases ==
    ASSUME TypeInv, NEW n \in Machines, [Next]_vars
    PROVE  /\ \/ Reconcile(n) \/ CacheSync(n) \/ UserDelete(n) \/ UserEdit(n)
              \/ Crash
              \/ Apart(n)
           /\ GatesKept(n)
  <1>1. CASE \E m \in Machines : Reconcile(m)
    <2>1. PICK m \in Machines : Reconcile(m)
      BY <1>1
    <2>2. OthersKept(m) /\ GatesKept(n)
      BY <2>1, ReconcileStep, SameGates
    <2>3. m # n => Apart(n)
      BY <2>2 DEF OthersKept, Apart
    <2>4. QED
      BY <2>1, <2>2, <2>3
  <1>2. CASE \E m \in Machines : CacheSync(m) \/ Enqueue(m)
    <2>1. PICK m \in Machines : CacheSync(m) \/ Enqueue(m)
      BY <1>2
    <2>2. GatesKept(n)
      BY <2>1, SameGates DEF CacheSync, Enqueue
    <2>3. Enqueue(m) \/ m # n => Apart(n)
      BY <2>1 DEF CacheSync, Enqueue, Apart, TypeInv, TypeOK
    <2>4. QED
      BY <2>1, <2>2, <2>3
  <1>3. CASE Crash
    BY <1>3, SameGates DEF Crash
  <1>4. CASE \E m \in Machines : UserDelete(m) \/ UserEdit(m)
    <2>1. PICK m \in Machines : UserDelete(m) \/ UserEdit(m)
      BY <1>4
    <2>2. GatesKept(n)
      BY <2>1, SameGates DEF UserDelete, UserEdit
    <2>3. m # n => Apart(n)
      BY <2>1 DEF UserDelete, UserEdit, Apart, TypeInv, TypeOK
    <2>4. QED
      BY <2>1, <2>2, <2>3
  <1>5. CASE \E m \in Machines : BootstrapStep(m)
    <2>1. PICK m \in Machines : BootstrapStep(m)
      BY <1>5
    <2>2. Apart(n)
      BY <2>1 DEF BootstrapStep, Watched, Apart
    <2>3. /\ UNCHANGED cluster
          /\ bootstrap'[n] = "none" => bootstrap[n] = "none"
          /\ bootstrap[n] = "none" /\ bootstrap'[n] # "none" /\ cache[n].exists =>
                n \in queue'
      BY <2>1 DEF BootstrapStep, Watched, TypeInv, TypeOK
    <2>4. GatesKept(n)
      BY <2>3 DEF GatesKept, Waits
    <2>5. QED
      BY <2>2, <2>4
  <1>6. CASE \/ CloseGate \/ OpenGate \/ InfrastructureReady \/ PlacementChanged
             \/ CredentialsLost \/ CredentialsRestored
    <2>1. Apart(n) /\ UNCHANGED bootstrap
      BY <1>6 DEF CloseGate, OpenGate, InfrastructureReady, PlacementChanged,
                  CredentialsLost, CredentialsRestored, Watched, Apart
    <2>2. /\ cluster.infraReady => cluster'.infraReady
          /\ ~cluster.infraReady /\ cluster'.infraReady /\ cache[n].exists => n \in queue'
          /\ cluster.gate \notin {"ok", "noCluster"} /\ cache[n].exists =>
                cluster'.gate \notin {"ok", "noCluster"} \/ n \in queue'
      BY <1>6 DEF CloseGate, OpenGate, InfrastructureReady, PlacementChanged,
                  CredentialsLost, CredentialsRestored, Watched, TypeInv, TypeOK
    <2>3. GatesKept(n)
      BY <2>1, <2>2 DEF GatesKept, Waits
    <2>4. QED
      BY <2>1, <2>3
  <1>7. CASE Flintlock \/ UNCHANGED vars
    <2>1. Apart(n) /\ UNCHANGED <<cluster, bootstrap>>
      BY <1>7 DEF Flintlock, VMStarts, VMRemoved, VMFails, VMDeletedByOperator, VMMoves,
                  vars, Apart
    <2>2. QED
      BY <2>1, SameGates
  <1>8. QED
    BY <1>1, <1>2, <1>3, <1>4, <1>5, <1>6, <1>7 DEF Next, Environment

-----------------------------------------------------------------------------
(* The microVMs.                                                           *)

\* The states a microVM may move to once it has been created.
Moved == KnownStates \cup {"REMOVED"}

\* A step creates a microVM, moves one that a host knows, or changes none.
LEMMA VMsStep ==
    ASSUME TypeInv, [Next]_vars
    PROVE  \/ UNCHANGED vms
           \/ \E n \in Machines, u \in UIDs : Create(n) /\ VMCreated(n, u)
           \/ \E u \in UIDs, to \in Moved :
                 /\ vms[u].state \in KnownStates
                 /\ vms' = [vms EXCEPT ![u].state = to]
  <1>1. ASSUME NEW n \in Machines, Create(n)
        PROVE  UNCHANGED vms \/ \E u \in UIDs : VMCreated(n, u)
    BY <1>1 DEF Create
  <1>2. ASSUME NEW n \in Machines, Delete(n)
        PROVE  \/ UNCHANGED vms
               \/ \E u \in UIDs, to \in Moved :
                     /\ vms[u].state \in KnownStates
                     /\ vms' = [vms EXCEPT ![u].state = to]
    BY <1>2, DeleteStep, PresentType DEF VMDeleting, Moved, KnownStates, LiveStates
  <1>3. CASE Flintlock
    <2>1. PICK u \in UIDs, from \in SUBSET KnownStates, to \in Moved :
                VMMoves(u, from, to)
      BY <1>3 DEF Flintlock, VMStarts, VMRemoved, VMFails, VMDeletedByOperator,
                  KnownStates, LiveStates, Moved
    <2>2. QED
      BY <2>1 DEF VMMoves
  <1>4. CASE \E m \in Machines : Reconcile(m) /\ ~Create(m) /\ ~Delete(m)
    BY <1>4 DEF Reconcile, ReconcileIgnored, ReconcileFailed, ReconcileDelete,
                ReconcileNormal, Enter, GetNormal, GetDelete, PatchConditions,
                PatchObject, PatchStatus
  <1>5. CASE Environment
    BY <1>5 DEF Environment, UserDelete, UserEdit, BootstrapStep, CloseGate, OpenGate,
                InfrastructureReady, PlacementChanged, CredentialsLost,
                CredentialsRestored
  <1>6. QED
    BY <1>1, <1>2, <1>3, <1>4, <1>5 DEF Next, CacheSync, Enqueue, Crash, vars

-----------------------------------------------------------------------------
(* Where a host comes from: the failure domains of the cluster, the         *)
(* machine's own failure domain, or a provider ID that is already there.    *)

LEMMA ChosenIn ==
    ASSUME NEW m \in Machines, NEW o, NEW L, HostSources(L), IdIn(o.providerID, L)
    PROVE  GetFailureDomain(m, o) \subseteq L
  BY DEF GetFailureDomain, ChosenDomain, HostSources, IdIn

LEMMA EntryHosts ==
    ASSUME TypeInv, NEW m \in Machines, NEW L, HostSources(L), HostsOf(m, L),
           \/ ReconcileIgnored(m) \/ ReconcileFailed(m)
           \/ ReconcileDelete(m) \/ ReconcileNormal(m)
    PROVE  HostsOf(m, L)'
  <1>1. CASE ReconcileIgnored(m) \/ ReconcileFailed(m)
    BY <1>1 DEF ReconcileIgnored, ReconcileFailed, HostsOf, HostsInScope
  <1>2. CASE ReconcileDelete(m) \/ ReconcileNormal(m)
    <2>1. PICK t, o : t = scope'[m] /\ o = cache[m]
      OBVIOUS
    <2>2. UNCHANGED <<api, cache>> /\ Entered(m, t, o) /\ o \in Objects
      BY <1>2, <2>1, EntryStep DEF TypeInv, TypeOK
    <2>3. IdIn(o.providerID, L) /\ GetFailureDomain(m, o) \subseteq L
      BY <2>1, ChosenIn DEF HostsOf
    <2>4. /\ [o EXCEPT !.finalizer = TRUE].providerID = o.providerID
          /\ \A c : [o EXCEPT !.cond = c].providerID = o.providerID
      BY <2>2, SameProviderID
    <2>5. t.obj.providerID = o.providerID /\ t.before = o
      <3>1. /\ t.before = o
            /\ \/ t.obj = o \/ t.obj = [o EXCEPT !.finalizer = TRUE]
               \/ \E c : t.obj = [o EXCEPT !.cond = c]
        BY <2>2 DEF Entered, Returned, Patching
      <3>2. CASE t.obj = [o EXCEPT !.finalizer = TRUE]
        BY <2>4, <3>1, <3>2, Zenon
      <3>3. CASE \E c : t.obj = [o EXCEPT !.cond = c]
        BY <2>4, <3>1, <3>3, Zenon
      <3>4. QED
        BY <3>1, <3>2, <3>3
    <2>6. t.pc # "Deferred" => t.fd \in L
      BY <2>2, <2>3 DEF Entered, Returned, Patching
    <2>7. QED
      BY <2>1, <2>2, <2>3, <2>5, <2>6 DEF HostsOf, HostsInScope
  <1>3. QED
    BY <1>1, <1>2

LEMMA CallHosts ==
    ASSUME TypeInv, NEW m \in Machines, NEW L, HostsOf(m, L),
           GetNormal(m) \/ GetDelete(m) \/ Create(m) \/ Delete(m)
    PROVE  HostsOf(m, L)'
  <1>1. PICK s, t : s = scope[m] /\ t = scope'[m]
    OBVIOUS
  <1>2. s.obj \in Objects /\ s \in Scopes
    BY <1>1, ScopeOperators DEF TypeInv, TypeOK
  <1>3. /\ [s.obj EXCEPT !.finalizer = TRUE].providerID = s.obj.providerID
        /\ [s.obj EXCEPT !.finalizer = FALSE].providerID = s.obj.providerID
        /\ \A r : SetNotReady(s.obj, r).providerID = s.obj.providerID
        /\ GetLabels(m, s.obj).providerID = s.obj.providerID
        /\ \A u : SetProviderID(GetLabels(m, s.obj), s.fd, u).providerID
                      = [host |-> s.fd, uid |-> u]
    <2>1. GetLabels(m, s.obj) \in Objects
      BY <1>2, ObjectOperators
    <2>2. QED
      BY <1>2, <2>1, SameProviderID DEF SetProviderID, Objects
  <1>4. /\ UNCHANGED <<api, cache>> /\ s.pc \notin {"Idle", "Deferred"}
        /\ t.before = s.before
        /\ t.pc # "Deferred" => t.fd = s.fd
        /\ \/ t.obj.providerID = s.obj.providerID
           \/ t.obj.providerID.host = s.fd
    <2>1. CASE GetNormal(m)
      <3>1. UNCHANGED <<api, cache>> /\ s.pc = "GetNormal" /\ GetNormalDone(s, t)
        BY <1>1, <2>1, GetNormalStep
      <3>2. QED
        BY <1>3, <3>1 DEF GetNormalDone, Returned, Patching
    <2>2. CASE GetDelete(m)
      <3>1. UNCHANGED <<api, cache>> /\ s.pc = "GetDelete" /\ GetDeleteDone(s, t)
        BY <1>1, <2>2, GetDeleteStep
      <3>2. /\ t.before = s.before /\ t.fd = s.fd
            /\ \/ t.obj = s.obj \/ t.obj = [s.obj EXCEPT !.finalizer = FALSE]
               \/ t.obj = SetNotReady(s.obj, "Deleting")
        BY <3>1 DEF GetDeleteDone, Returned, Patching
      <3>3. t.obj.providerID = s.obj.providerID
        BY <1>3, <3>2, Zenon
      <3>4. QED
        BY <3>1, <3>2, <3>3
    <2>3. CASE Create(m)
      <3>1. UNCHANGED <<api, cache>> /\ s.pc = "Create" /\ CreateDone(m, s, t)
        BY <1>1, <2>3, CreateStep
      <3>2. /\ t.before = s.before /\ t.fd = s.fd
            /\ \/ t.obj = s.obj \/ t.obj = GetLabels(m, s.obj)
               \/ \E u : t.obj = SetProviderID(GetLabels(m, s.obj), s.fd, u)
        BY <3>1 DEF CreateDone, Returned, Patching
      <3>3. CASE t.obj = GetLabels(m, s.obj)
        <4>1. t.obj.providerID = s.obj.providerID
          BY <1>3, <3>3, Zenon
        <4>2. QED
          BY <3>1, <3>2, <4>1
      <3>4. CASE \E u : t.obj = SetProviderID(GetLabels(m, s.obj), s.fd, u)
        <4>1. PICK u : t.obj = SetProviderID(GetLabels(m, s.obj), s.fd, u)
          BY <3>4
        <4>2. t.obj.providerID = [host |-> s.fd, uid |-> u]
          BY <1>3, <4>1, Zenon
        <4>3. QED
          BY <3>1, <3>2, <4>2
      <3>5. QED
        BY <3>1, <3>2, <3>3, <3>4
    <2>4. CASE Delete(m)
      <3>1. UNCHANGED <<api, cache>> /\ s.pc = "Delete" /\ DeleteDone(s, t)
        BY <1>1, <2>4, DeleteStep
      <3>2. QED
        BY <1>3, <3>1 DEF DeleteDone, Returned
    <2>5. QED
      BY <2>1, <2>2, <2>3, <2>4
  <1>5. QED
    BY <1>1, <1>4 DEF HostsOf, HostsInScope, IdIn

\* A request stores the provider ID of the scope or keeps what was stored.
LEMMA RequestHosts ==
    ASSUME NEW m \in Machines, api[m] \in Objects, NEW L, IdIn(api[m].providerID, L),
           NEW was, NEW err, NEW b, NEW o, IdIn(o.providerID, L),
           \/ Unsent(m, was, err) \/ Lost(m)
           \/ Sent(m, MergeConditions(b, o, api[m]), was, err)
           \/ Sent(m, MergeObject(b, o, api[m]), was, err)
           \/ Sent(m, MergeStatus(b, o, api[m]), was, err)
    PROVE  IdIn(api'[m].providerID, L)
  <1>1. GoneObject.providerID = NoID
    BY DEF GoneObject, NewObject
  <1>2. QED
    BY <1>1, StoredFields, ConditionsFields, MergedFields, StatusFields
       DEF Unsent, Lost, Sent, IdIn, Merge

LEMMA PatchHosts ==
    ASSUME TypeInv, NEW m \in Machines, NEW L, HostsOf(m, L),
           PatchConditions(m) \/ PatchObject(m) \/ PatchStatus(m)
    PROVE  HostsOf(m, L)'
  <1>1. PICK s, t : s = scope[m] /\ t = scope'[m]
    OBVIOUS
  <1>2. s.obj \in Objects /\ s \in Scopes /\ api[m] \in Objects
    BY <1>1, ScopeOperators DEF TypeInv, TypeOK
  <1>3. CASE PatchConditions(m) \/ PatchObject(m)
    <2>1. /\ UNCHANGED cache /\ s.pc \in PatchPCs
          /\ PartDone(s, t, "object") \/ PartDone(s, t, "status")
          /\ \/ Unsent(m, s.patchErr, t.patchErr) \/ Lost(m)
             \/ Sent(m, MergeConditions(s.before, s.obj, api[m]), s.patchErr, t.patchErr)
             \/ Sent(m, MergeObject(s.before, s.obj, api[m]), s.patchErr, t.patchErr)
      BY <1>1, <1>3, PatchConditionsStep, PatchObjectStep
    <2>2. HostsInScope(s, L) /\ s.pc # "Idle"
      BY <1>1, <2>1 DEF HostsOf, PatchPCs
    <2>3. IdIn(api'[m].providerID, L)
      BY <1>2, <2>1, <2>2, RequestHosts DEF HostsOf, HostsInScope
    <2>4. HostsInScope(t, L)
      BY <2>1, <2>2 DEF PartDone, HostsInScope
    <2>5. QED
      BY <1>1, <2>1, <2>3, <2>4 DEF HostsOf
  <1>4. CASE PatchStatus(m)
    <2>1. PICK err \in BOOLEAN :
             /\ UNCHANGED cache /\ s.pc \in PatchPCs
             /\ StatusSent(m, s, err) /\ Resumed(m, s, err)
      BY <1>1, <1>4, PatchStatusStep
    <2>2. HostsInScope(s, L) /\ s.pc # "Idle"
      BY <1>1, <2>1 DEF HostsOf, PatchPCs
    <2>3. IdIn(api'[m].providerID, L)
      BY <1>2, <2>1, <2>2, RequestHosts DEF StatusSent, HostsOf, HostsInScope
    <2>4. t.pc # "Idle" => HostsInScope(t, L)
      <3>1. CASE s.pc = "Deferred"
        BY <1>1, <2>1, <3>1 DEF Resumed, IdleScope
      <3>2. CASE s.pc # "Deferred"
        <4>1. PatchDone(s, t, err)
          BY <1>1, <2>1, <3>2 DEF Resumed
        <4>2. /\ ParsedObject(s.obj, s.state).providerID = s.obj.providerID
              /\ SetProviderID(s.obj, s.fd, s.uid).providerID = [host |-> s.fd, uid |-> s.uid]
          BY <1>2, ParsedFields DEF SetProviderID, Objects
        <4>3. /\ t.before = s.before
              /\ t.pc # "Deferred" => t.fd = s.fd
              /\ \/ t.obj.providerID = s.obj.providerID
                 \/ t.obj.providerID.host = s.fd
          BY <4>1, <4>2 DEF PatchDone, Returned, Patching
        <4>4. QED
          BY <2>2, <3>2, <4>3 DEF HostsInScope, IdIn
      <3>3. QED
        BY <3>1, <3>2
    <2>5. QED
      BY <1>1, <2>1, <2>3, <2>4 DEF HostsOf
  <1>5. QED
    BY <1>3, <1>4

\* A step brings in no host but from those sources.
LEMMA NextHosts ==
    ASSUME TypeInv, NEW L, HostSources(L), HostsIn(L), [Next]_vars
    PROVE  HostsIn(L)'
  <1>1. ASSUME NEW m \in Machines PROVE HostsOf(m, L)'
    <2>1. HostsOf(m, L) /\ api[m] \in Objects
      BY DEF HostsIn, TypeInv, TypeOK
    <2>2. CASE Reconcile(m)
      BY <2>1, <2>2, EntryHosts, CallHosts, PatchHosts DEF Reconcile
    <2>3. CASE CacheSync(m)
      BY <2>1, <2>3 DEF CacheSync, HostsOf, TypeInv, TypeOK
    <2>4. CASE UserDelete(m) \/ UserEdit(m)
      <3>1. UNCHANGED <<cache, scope>>
        BY <2>4 DEF UserDelete, UserEdit
      <3>2. api'[m].providerID \in {api[m].providerID, NoID}
        <4>1. CASE UserDelete(m)
          <5>1. PICK a : a = [api[m] EXCEPT !.deleting = TRUE]
            OBVIOUS
          <5>2. a.providerID = api[m].providerID /\ api'[m] = Stored(a)
            BY <2>1, <4>1, <5>1 DEF UserDelete, Objects, TypeInv, TypeOK
          <5>3. GoneObject.providerID = NoID
            BY DEF GoneObject, NewObject
          <5>4. QED
            BY <5>2, <5>3, StoredFields
        <4>2. CASE UserEdit(m)
          BY <2>1, <4>2 DEF UserEdit, Objects, TypeInv, TypeOK
        <4>3. QED
          BY <2>4, <4>1, <4>2
      <3>3. QED
        BY <2>1, <3>1, <3>2 DEF HostsOf, IdIn
    <2>5. CASE Crash
      BY <2>1, <2>5 DEF Crash, HostsOf, IdleScope
    <2>6. CASE Apart(m)
      BY <2>1, <2>6 DEF Apart, HostsOf
    <2>7. QED
      BY <2>2, <2>3, <2>4, <2>5, <2>6, StepCases
  <1>2. ASSUME NEW u \in UIDs, vms'[u].state # "UNUSED" PROVE vms'[u].host \in L
    <2>1. vms \in [UIDs -> VMs] /\ (vms[u].state # "UNUSED" => vms[u].host \in L)
      BY DEF HostsIn, TypeInv, TypeOK
    <2>2. CASE UNCHANGED vms
      BY <1>2, <2>1, <2>2
    <2>3. ASSUME NEW n \in Machines, NEW v \in UIDs, Create(n), VMCreated(n, v)
          PROVE  vms'[u].host \in L
      <3>1. scope[n].fd \in L
        BY <2>3 DEF Create, HostsIn, HostsOf, HostsInScope
      <3>2. vms'[v].host = scope[n].fd /\ (u # v => vms'[u] = vms[u])
        BY <2>1, <2>3 DEF VMCreated
      <3>3. QED
        BY <1>2, <2>1, <3>1, <3>2
    <2>4. ASSUME NEW v \in UIDs, NEW to \in Moved, vms[v].state \in KnownStates,
                 vms' = [vms EXCEPT ![v].state = to]
          PROVE  vms'[u].host \in L
      <3>1. vms'[u].host = vms[u].host /\ (u # v => vms'[u] = vms[u])
        BY <2>1, <2>4 DEF VMs
      <3>2. vms[v].state # "UNUSED"
        BY <2>4 DEF KnownStates, LiveStates
      <3>3. QED
        BY <1>2, <2>1, <3>1, <3>2
    <2>5. QED
      BY <2>2, <2>3, <2>4, VMsStep
  <1>3. QED
    BY <1>1, <1>2 DEF HostsIn
=============================================================================
