---------------------- MODULE MachineRefinementProofs ----------------------
(***************************************************************************)
(* MachineController implements MachineLifecycle, for every instance and   *)
(* every combination of failures.                                          *)
(***************************************************************************)
EXTENDS MachineRefinement, MachineProofs, MachineSteps

\* A reconcile that has a provider ID to store is past the Patch that stored
\* the finalizer, so the two never appear in one request.
RecordOK(m) ==
    /\ scope[m].pc # "Idle" /\ scope[m].obj.providerID # scope[m].before.providerID
    /\ api[m].exists
    => api[m].finalizer

RecordInv == \A m \in Machines : RecordOK(m)

-----------------------------------------------------------------------------
(* The mapping.                                                            *)

LEMMA LifecycleFields ==
    ASSUME NEW a
    PROVE  LET o == LifecycleObject(a)
           IN  /\ o.exists = a.exists /\ o.deleting = a.deleting
               /\ o.protected = a.finalizer /\ o.ready = a.ready
               /\ o.uid = GetInstanceID(a)
  BY DEF LifecycleObject

LEMMA LifecycleGone == LifecycleObject(GoneObject) = Lifecycle!Gone
  <1> DEFINE g == Lifecycle!Gone
  <1>1. /\ GoneObject.exists = FALSE /\ GoneObject.deleting = FALSE
        /\ GoneObject.finalizer = FALSE /\ GoneObject.ready = FALSE
        /\ GetInstanceID(GoneObject) = NoUID
    BY DEF GoneObject, NewObject, GetInstanceID
  <1>2. /\ g.exists = FALSE /\ g.deleting = FALSE /\ g.protected = FALSE
        /\ g.ready = FALSE /\ g.uid = NoUID
    BY DEF Lifecycle!Gone, Lifecycle!Fresh
  <1>3. g = [exists |-> g.exists, deleting |-> g.deleting, protected |-> g.protected,
             ready |-> g.ready, uid |-> g.uid]
    <2> DEFINE Views == [exists : BOOLEAN, deleting : BOOLEAN, protected : BOOLEAN,
                         ready : BOOLEAN, uid : {NoUID}]
    <2>1. Lifecycle!Fresh \in Views
      BY DEF Lifecycle!Fresh
    <2>2. g \in Views
      BY <2>1 DEF Lifecycle!Gone
    <2> HIDE DEF g
    <2>3. QED
      BY <2>2
  <1> HIDE DEF g
  <1>4. /\ GoneObject.exists = g.exists /\ GoneObject.deleting = g.deleting
        /\ GoneObject.finalizer = g.protected /\ GoneObject.ready = g.ready
        /\ GetInstanceID(GoneObject) = g.uid
    BY <1>1, <1>2
  <1>5. LifecycleObject(GoneObject) = g
    BY <1>3, <1>4 DEF LifecycleObject
  <1>6. QED
    BY <1>5 DEF g

LEMMA VMFields ==
    ASSUME NEW v
    PROVE  LET l == LifecycleVM(v)
           IN  /\ l = [owner |-> v.owner, phase |-> l.phase]
               /\ v.state = "UNUSED" => l.phase = "unused"
               /\ v.state \in LiveStates => l.phase = "present"
               /\ v.state = "DELETING" => l.phase = "condemned"
               /\ v.state = "REMOVED" => l.phase = "gone"
  BY DEF LifecycleVM, LiveStates

LEMMA InitLifecycle == Init => Lifecycle!Init
  <1> SUFFICES ASSUME Init PROVE Lifecycle!Init
    OBVIOUS
  <1>1. LifecycleObject(NewObject) = Lifecycle!Fresh
    BY DEF LifecycleObject, NewObject, GetInstanceID, Lifecycle!Fresh
  <1>2. \A u \in UIDs : LifecycleVM(vms[u]) = [owner |-> NoMachine, phase |-> "unused"]
    <2>1. \A u \in UIDs : vms[u].state = "UNUSED" /\ vms[u].owner = NoMachine
      BY DEF Init
    <2>2. QED
      BY <2>1, VMFields
  <1>3. QED
    BY <1>1, <1>2 DEF Init, Lifecycle!Init

\* A step that changes one object.
LEMMA ObjectStep ==
    ASSUME NEW m \in Machines, UNCHANGED vms,
           \A n \in Machines \ {m} : api'[n] = api[n],
           NEW o, LifecycleObject(api'[m]) = o
    PROVE  Lifecycle!Becomes(m, o)
  BY DEF Lifecycle!Becomes

\* A step that changes one microVM.
LEMMA VMStep ==
    ASSUME NEW u \in UIDs, UNCHANGED api,
           \A v \in UIDs \ {u} : vms'[v] = vms[v],
           NEW from, NEW to, LifecycleVM(vms[u]).phase = from,
           LifecycleVM(vms'[u]) = [LifecycleVM(vms[u]) EXCEPT !.phase = to]
    PROVE  Lifecycle!Advance(u, from, to)
  BY DEF Lifecycle!Advance

\* A step the lifecycle does not see.
LEMMA Unseen ==
    ASSUME \A m \in Machines : LifecycleObject(api'[m]) = LifecycleObject(api[m]),
           \A u \in UIDs : LifecycleVM(vms'[u]) = LifecycleVM(vms[u])
    PROVE  UNCHANGED Lifecycle!lifecycleVars
  BY DEF Lifecycle!lifecycleVars

\* Two objects that the lifecycle tells apart in at most one field.
LEMMA SameView ==
    ASSUME NEW a, NEW b, b.exists = a.exists, b.deleting = a.deleting,
           b.finalizer = a.finalizer, b.ready = a.ready, b.providerID = a.providerID
    PROVE  LifecycleObject(b) = LifecycleObject(a)
  BY DEF LifecycleObject, GetInstanceID

LEMMA ReadyView ==
    ASSUME NEW a, NEW b, NEW r, b.exists = a.exists, b.deleting = a.deleting,
           b.finalizer = a.finalizer, b.ready = r, b.providerID = a.providerID
    PROVE  LifecycleObject(b) = [LifecycleObject(a) EXCEPT !.ready = r]
  BY DEF LifecycleObject, GetInstanceID

LEMMA UIDView ==
    ASSUME NEW a, NEW b, b.exists = a.exists, b.deleting = a.deleting,
           b.finalizer = a.finalizer, b.ready = a.ready
    PROVE  LifecycleObject(b) = [LifecycleObject(a) EXCEPT !.uid = GetInstanceID(b)]
  BY DEF LifecycleObject

LEMMA ProtectedView ==
    ASSUME NEW a, NEW b, NEW f, b.exists = a.exists, b.deleting = a.deleting,
           b.finalizer = f, b.ready = a.ready, b.providerID = a.providerID
    PROVE  LifecycleObject(b) = [LifecycleObject(a) EXCEPT !.protected = f]
  BY DEF LifecycleObject, GetInstanceID

LEMMA DeletingView ==
    ASSUME NEW a, NEW b, NEW d, b.exists = a.exists, b.deleting = d,
           b.finalizer = a.finalizer, b.ready = a.ready, b.providerID = a.providerID
    PROVE  LifecycleObject(b) = [LifecycleObject(a) EXCEPT !.deleting = d]
  BY DEF LifecycleObject, GetInstanceID

-----------------------------------------------------------------------------
(* Steps that change a stored object.                                      *)

LifecycleStep == [Lifecycle!Next]_(Lifecycle!lifecycleVars)

\* Only machine m's object changes, and no microVM.
OneObject(m) == UNCHANGED vms /\ \A n \in Machines \ {m} : api'[n] = api[n]

LEMMA UnseenObject ==
    ASSUME NEW m \in Machines, OneObject(m),
           LifecycleObject(api'[m]) = LifecycleObject(api[m])
    PROVE  LifecycleStep
  BY Unseen DEF OneObject, LifecycleStep

LEMMA PatchConditionsRefines ==
    ASSUME IInv, NEW m \in Machines, PatchConditions(m)
    PROVE  LifecycleStep
  <1>1. PICK a : a = MergeConditions(scope[m].before, scope[m].obj, api[m])
    OBVIOUS
  <1>2. OneObject(m) /\ (api'[m] = api[m] \/ api'[m] = Stored(a))
    BY <1>1, PatchConditionsStep DEF IInv, OneObject, OthersKept, Unsent, Sent, Lost
  <1>3. api[m] \in Objects /\ StoreOK(m)
    BY DEF IInv, SafetyInv, TypeInv, TypeOK
  <1>4. CASE api'[m] = Stored(a)
    <2>1. /\ a.exists = api[m].exists /\ a.deleting = api[m].deleting
          /\ a.finalizer = api[m].finalizer /\ a.providerID = api[m].providerID
          /\ a.ready = api[m].ready
      BY <1>1, <1>3, ConditionsFields
    <2>2. api'[m] = a
      BY <1>3, <1>4, <2>1, StoredFields DEF StoreOK
    <2>3. QED
      BY <1>2, <2>1, <2>2, SameView, UnseenObject
  <1>5. QED
    BY <1>2, <1>4, UnseenObject

\* A request for the status: readiness comes and goes, protected and recorded.
LEMMA PatchStatusRefines ==
    ASSUME IInv, NEW m \in Machines, PatchStatus(m)
    PROVE  LifecycleStep
  <1>1. PICK s : s = scope[m]
    OBVIOUS
  <1>2. PICK a : a = MergeStatus(s.before, s.obj, api[m])
    OBVIOUS
  <1>3. /\ OneObject(m) /\ s.pc \in PatchPCs
        /\ api'[m] = api[m] \/ (api[m].exists /\ api'[m] = Stored(a))
    BY <1>1, <1>2, PatchStatusStep
       DEF IInv, OneObject, OthersKept, StatusSent, Unsent, Sent, Lost
  <1>4. /\ api[m] \in Objects /\ StoreOK(m) /\ ScopeCore(m, s)
        /\ s.obj \in Objects /\ s.before \in Objects
    BY <1>1, <1>3, RunningScope DEF PatchPCs
  <1>5. CASE api[m].exists /\ api'[m] = Stored(a)
    <2>1. /\ a.exists = api[m].exists /\ a.deleting = api[m].deleting
          /\ a.finalizer = api[m].finalizer /\ a.providerID = api[m].providerID
          /\ a.ready = Merge(s.before.ready, s.obj.ready, api[m].ready)
      BY <1>2, <1>4, StatusFields
    <2>2. api'[m] = a
      BY <1>4, <1>5, <2>1, StoredFields DEF StoreOK
    <2>3. CASE a.ready = api[m].ready
      BY <1>3, <2>1, <2>2, <2>3, SameView, UnseenObject
    <2>4. CASE a.ready # api[m].ready
      <3>1. a.ready = s.obj.ready
        BY <2>1, <2>4 DEF Merge
      <3>2. a.ready \in BOOLEAN
        BY <1>4, <3>1 DEF Objects
      <3> DEFINE o == [LifecycleObject(api[m]) EXCEPT !.ready = a.ready]
      <3>3. Lifecycle!Becomes(m, o)
        <4>1. LifecycleObject(api'[m]) = o
          BY <2>1, <2>2, ReadyView
        <4>2. QED
          BY <1>3, <4>1, ObjectStep DEF OneObject
      <3>4. CASE a.ready = TRUE
        <4>1. api[m].finalizer /\ api[m].providerID # NoID
          BY <1>4, <1>5, <3>1, <3>4 DEF ScopeCore
        <4>2. GetInstanceID(api[m]) # NoUID
          BY <1>4, <4>1, SentinelAssumption DEF GetInstanceID, Objects, ProviderIDs
        <4>3. Lifecycle!Becomes(m, [LifecycleObject(api[m]) EXCEPT !.ready = TRUE])
          BY <3>4, <3>3
        <4>4. Lifecycle!SetReady(m)
          BY <1>5, <4>1, <4>2, <4>3, LifecycleFields DEF Lifecycle!SetReady
        <4>5. QED
          BY <4>4 DEF LifecycleStep, Lifecycle!Next
      <3>5. CASE a.ready = FALSE
        <4>1. Lifecycle!Becomes(m, [LifecycleObject(api[m]) EXCEPT !.ready = FALSE])
          BY <3>5, <3>3
        <4>2. Lifecycle!SetNotReady(m)
          BY <1>5, <4>1, LifecycleFields DEF Lifecycle!SetNotReady
        <4>3. QED
          BY <4>2 DEF LifecycleStep, Lifecycle!Next
      <3>6. QED
        BY <3>2, <3>4, <3>5
    <2>5. QED
      BY <2>3, <2>4
  <1>6. QED
    BY <1>3, <1>5, UnseenObject

\* What a request for metadata and spec can store.  The finalizer and the
\* provider ID never change in one request, and the finalizer goes only with
\* the object.
Keeps(a, b) == a.exists = b.exists /\ a.deleting = b.deleting /\ a.ready = b.ready
Asked(m, id, a) ==
    \/ a.finalizer = api[m].finalizer /\ a.providerID = api[m].providerID
    \/ ~api[m].finalizer /\ a.finalizer = TRUE /\ a.providerID = api[m].providerID
    \/ /\ api[m].finalizer /\ a.finalizer = api[m].finalizer
       /\ a.providerID = id /\ id # NoID
    \/ api[m].deleting /\ api[m].finalizer /\ ~a.finalizer

LEMMA ObjectRequest ==
    ASSUME IInv, NEW m \in Machines, NEW s, s = scope[m], s.pc # "Idle", RecordOK(m),
           NEW a, a = MergeObject(s.before, s.obj, api[m]),
           NEW was, NEW err, Sent(m, a, was, err)
    PROVE  Keeps(a, api[m]) /\ Asked(m, s.obj.providerID, a)
  <1>1. /\ api[m] \in Objects /\ StoreOK(m) /\ ScopeCore(m, s)
        /\ s.obj \in Objects /\ s.before \in Objects
    BY RunningScope
  <1>2. /\ Keeps(a, api[m])
        /\ a.finalizer = Merge(s.before.finalizer, s.obj.finalizer, api[m].finalizer)
        /\ a.providerID = Merge(s.before.providerID, s.obj.providerID, api[m].providerID)
    BY <1>1, MergedFields DEF Keeps
  <1>3. /\ s.obj.finalizer \in BOOLEAN /\ s.before.finalizer \in BOOLEAN
        /\ api[m].finalizer \in BOOLEAN
    BY <1>1 DEF Objects
  <1>4. a.finalizer \in BOOLEAN
    BY <1>2, <1>3 DEF Merge
  <1>5. CASE ~a.finalizer /\ api[m].finalizer
    <2>1. ~s.obj.finalizer /\ s.before.finalizer
      BY <1>2, <1>3, <1>5 DEF Merge
    <2>2. api[m].deleting
      BY <1>1, <2>1 DEF ScopeCore, Precedes, Sent
    <2>3. QED
      BY <1>2, <1>5, <2>2 DEF Asked
  <1>6. CASE a.finalizer /\ ~api[m].finalizer
    <2>1. s.obj.providerID = s.before.providerID
      BY <1>6 DEF RecordOK, Sent
    <2>2. a.providerID = api[m].providerID
      BY <1>2, <2>1 DEF Merge
    <2>3. QED
      BY <1>2, <1>4, <1>6, <2>2 DEF Asked
  <1>7. CASE a.finalizer = api[m].finalizer
    <2>1. CASE a.providerID = api[m].providerID
      BY <1>2, <1>7, <2>1 DEF Asked
    <2>2. CASE a.providerID # api[m].providerID
      <3>1. a.providerID = s.obj.providerID /\ s.obj.providerID # s.before.providerID
        BY <1>2, <2>2 DEF Merge
      <3>2. api[m].finalizer
        BY <3>1 DEF RecordOK, Sent
      <3>3. s.obj.providerID # NoID
        BY <1>1, <3>1 DEF ScopeCore
      <3>4. QED
        BY <1>2, <1>7, <3>1, <3>2, <3>3 DEF Asked
    <2>3. QED
      BY <2>1, <2>2
  <1>8. QED
    BY <1>3, <1>4, <1>5, <1>6, <1>7

\* An object whose finalizer stays is stored as it is.
LEMMA StoredWhole ==
    ASSUME NEW m \in Machines, StoreOK(m), NEW a, Keeps(a, api[m]),
           api[m].finalizer => a.finalizer
    PROVE  Stored(a) = a
  BY DEF Keeps, Stored, StoreOK

LEMMA PatchObjectRefines ==
    ASSUME IInv, NEW m \in Machines, RecordOK(m), PatchObject(m)
    PROVE  LifecycleStep
  <1>1. PICK s : s = scope[m]
    OBVIOUS
  <1>2. PICK a : a = MergeObject(s.before, s.obj, api[m])
    OBVIOUS
  <1>3. /\ OneObject(m) /\ s.pc \in PatchPCs
        /\ api'[m] = api[m] \/ \E was, err : Sent(m, a, was, err)
    BY <1>1, <1>2, PatchObjectStep DEF IInv, OneObject, OthersKept, Unsent, Lost
  <1>4. s.pc # "Idle"
    BY <1>3 DEF PatchPCs
  <1>5. StoreOK(m) /\ ScopeCore(m, s) /\ s.obj \in Objects
    BY <1>1, <1>4, RunningScope
  <1>6. CASE api'[m] = api[m]
    BY <1>3, <1>6, UnseenObject
  <1>7. ASSUME NEW was, NEW err, Sent(m, a, was, err)
        PROVE  LifecycleStep
    <2> DEFINE o == LifecycleObject(api[m])
    <2>1. Keeps(a, api[m]) /\ Asked(m, s.obj.providerID, a)
      BY <1>1, <1>2, <1>4, <1>7, ObjectRequest
    <2>2. /\ api'[m] = Stored(a)
          /\ (api[m].finalizer => a.finalizer) => api'[m] = a
      BY <1>5, <1>7, <2>1, StoredWhole DEF Sent
    <2>3. a.finalizer = api[m].finalizer =>
             LifecycleObject(a) = [o EXCEPT !.uid = GetInstanceID(a)]
      BY <2>1, UIDView DEF Keeps
    <2>4. CASE a.finalizer = api[m].finalizer /\ a.providerID = api[m].providerID
      <3>1. api'[m] = a
        BY <2>2, <2>4
      <3>2. LifecycleObject(api'[m]) = o
        BY <2>1, <2>4, <3>1, SameView DEF Keeps
      <3>3. QED
        BY <1>3, <3>2, UnseenObject
    <2>5. CASE /\ ~api[m].finalizer /\ a.finalizer = TRUE
               /\ a.providerID = api[m].providerID
      <3>1. api'[m] = a
        BY <2>2, <2>5
      <3>2. LifecycleObject(api'[m]) = [o EXCEPT !.protected = a.finalizer]
        BY <2>1, <2>5, <3>1, ProtectedView DEF Keeps
      <3>3. Lifecycle!Becomes(m, [o EXCEPT !.protected = a.finalizer])
        BY <1>3, <3>2, ObjectStep DEF OneObject
      <3>4. Lifecycle!Becomes(m, [o EXCEPT !.protected = TRUE])
        BY <2>5, <3>3
      <3>5. ~api[m].deleting /\ api[m].exists
        BY <1>5, <1>7, <2>5 DEF StoreOK, Sent
      <3>6. Lifecycle!Protect(m)
        BY <2>5, <3>4, <3>5, LifecycleFields DEF Lifecycle!Protect
      <3>7. QED
        BY <3>6 DEF LifecycleStep, Lifecycle!Next
    <2>6. CASE /\ api[m].finalizer /\ a.finalizer = api[m].finalizer
               /\ a.providerID = s.obj.providerID /\ s.obj.providerID # NoID
      <3>1. PICK u \in UIDs : u = a.providerID.uid
        BY <1>5, <2>6 DEF Objects, ProviderIDs
      <3>2. GetInstanceID(a) = u /\ vms[u].owner = m
        BY <1>5, <2>6, <3>1 DEF GetInstanceID, ScopeCore, Owns
      <3>3. api'[m] = a
        BY <2>2, <2>6
      <3>4. LifecycleObject(api'[m]) = [o EXCEPT !.uid = u]
        BY <2>3, <2>6, <3>2, <3>3
      <3>5. Lifecycle!Becomes(m, [o EXCEPT !.uid = u])
        BY <1>3, <3>4, ObjectStep DEF OneObject
      <3>6. LifecycleVM(vms[u]).owner = m
        BY <3>2 DEF LifecycleVM
      <3>7. Lifecycle!Record(m, u)
        BY <1>7, <2>6, <3>5, <3>6, LifecycleFields DEF Lifecycle!Record, Sent
      <3>8. QED
        BY <3>7 DEF LifecycleStep, Lifecycle!Next
    <2>7. CASE api[m].deleting /\ api[m].finalizer /\ ~a.finalizer
      <3>1. api'[m] = GoneObject
        BY <2>1, <2>2, <2>7, StoredFields DEF Keeps
      <3>2. Lifecycle!Becomes(m, Lifecycle!Gone)
        BY <1>3, <3>1, LifecycleGone, ObjectStep DEF OneObject
      <3>3. Lifecycle!Release(m)
        BY <1>7, <2>7, <3>2, LifecycleFields DEF Lifecycle!Release, Sent
      <3>4. QED
        BY <3>3 DEF LifecycleStep, Lifecycle!Next
    <2>8. QED
      BY <2>1, <2>4, <2>5, <2>6, <2>7 DEF Asked
  <1>8. QED
    BY <1>3, <1>6, <1>7

LEMMA UserRefines ==
    ASSUME IInv, NEW m \in Machines, UserDelete(m) \/ UserEdit(m)
    PROVE  LifecycleStep
  <1>1. api[m] \in Objects /\ StoreOK(m)
    BY DEF IInv, SafetyInv, TypeInv, TypeOK
  <1>2. OneObject(m)
    BY DEF UserDelete, UserEdit, OneObject, IInv, TypeInv, TypeOK
  <1>3. CASE UserEdit(m)
    <2>1. api'[m] = [api[m] EXCEPT !.edited = TRUE]
      BY <1>3 DEF UserEdit, IInv, TypeInv, TypeOK
    <2>2. /\ api'[m].exists = api[m].exists /\ api'[m].deleting = api[m].deleting
          /\ api'[m].finalizer = api[m].finalizer /\ api'[m].ready = api[m].ready
          /\ api'[m].providerID = api[m].providerID
      BY <1>1, <2>1 DEF Objects
    <2>3. QED
      BY <1>2, <2>2, SameView, UnseenObject
  <1>4. CASE UserDelete(m)
    <2> DEFINE o == LifecycleObject(api[m])
    <2>1. PICK a : a = [api[m] EXCEPT !.deleting = TRUE]
      OBVIOUS
    <2>2. /\ a.exists = api[m].exists /\ a.deleting = TRUE
          /\ a.finalizer = api[m].finalizer /\ a.ready = api[m].ready
          /\ a.providerID = api[m].providerID
      BY <1>1, <2>1 DEF Objects
    <2>3. api'[m] = Stored(a) /\ api[m].exists /\ ~api[m].deleting
      BY <1>4, <2>1 DEF UserDelete, IInv, TypeInv, TypeOK
    <2>4. LifecycleObject(a) = [o EXCEPT !.deleting = TRUE]
      <3>1. LifecycleObject(a) = [o EXCEPT !.deleting = a.deleting]
        BY <2>2, DeletingView
      <3>2. QED
        BY <2>2, <3>1
    <2>5. CASE api[m].finalizer
      <3>1. api'[m] = a
        BY <2>2, <2>3, <2>5 DEF Stored
      <3>2. Lifecycle!Becomes(m, [o EXCEPT !.deleting = TRUE])
        BY <1>2, <2>4, <3>1, ObjectStep DEF OneObject
      <3>3. Lifecycle!RequestDelete(m)
        BY <2>3, <2>5, <3>2, LifecycleFields DEF Lifecycle!RequestDelete
      <3>4. QED
        BY <3>3 DEF LifecycleStep, Lifecycle!Next
    <2>6. CASE ~api[m].finalizer
      <3>1. api'[m] = GoneObject
        BY <2>2, <2>3, <2>6 DEF Stored
      <3>2. Lifecycle!Becomes(m, Lifecycle!Gone)
        BY <1>2, <3>1, LifecycleGone, ObjectStep DEF OneObject
      <3>3. Lifecycle!RequestDelete(m)
        BY <2>3, <2>6, <3>2, LifecycleFields DEF Lifecycle!RequestDelete
      <3>4. QED
        BY <3>3 DEF LifecycleStep, Lifecycle!Next
    <2>7. QED
      BY <2>5, <2>6
  <1>5. QED
    BY <1>3, <1>4

-----------------------------------------------------------------------------
(* Steps that change a microVM.                                            *)

LEMMA CreateRefines ==
    ASSUME IInv, NEW m \in Machines, Create(m)
    PROVE  LifecycleStep
  <1>1. UNCHANGED api /\ scope[m].pc = "Create" /\ CreateDone(m, scope[m], scope'[m])
    BY CreateStep DEF IInv
  <1>2. CASE UNCHANGED vms
    BY <1>1, <1>2, Unseen DEF LifecycleStep
  <1>3. CASE \E u \in UIDs : VMCreated(m, u)
    <2>1. PICK u \in UIDs : VMCreated(m, u)
      BY <1>3
    <2>2. /\ vms[u].state = "UNUSED" /\ vms'[u].state = "PENDING" /\ vms'[u].owner = m
          /\ \A v \in UIDs \ {u} : vms'[v] = vms[v]
      BY <2>1 DEF VMCreated, IInv, TypeInv, TypeOK
    <2>3. /\ LifecycleVM(vms[u]).phase = "unused"
          /\ LifecycleVM(vms'[u]) = [owner |-> m, phase |-> "present"]
      BY <2>2, VMFields DEF LiveStates
    <2>4. api[m].exists /\ api[m].finalizer
      BY <1>1, RunningScope DEF ScopeCall
    <2>5. Lifecycle!Make(m, u)
      BY <1>1, <2>2, <2>3, <2>4, LifecycleFields DEF Lifecycle!Make
    <2>6. QED
      BY <2>5 DEF LifecycleStep, Lifecycle!Next
  <1>4. QED
    BY <1>1, <1>2, <1>3 DEF CreateDone

\* One microVM changes its state.
LEMMA StateMoves ==
    ASSUME IInv, NEW u \in UIDs, NEW to, UNCHANGED api,
           vms' = [vms EXCEPT ![u].state = to]
    PROVE  /\ vms'[u].state = to
           /\ LifecycleVM(vms'[u]).phase = LifecycleVM(vms[u]).phase
                 => UNCHANGED Lifecycle!lifecycleVars
           /\ \A from, p : /\ LifecycleVM(vms[u]).phase = from
                           /\ LifecycleVM(vms'[u]).phase = p
                           => Lifecycle!Advance(u, from, p)
  <1>1. /\ vms'[u].state = to /\ vms'[u].owner = vms[u].owner
        /\ \A v \in UIDs \ {u} : vms'[v] = vms[v]
    BY DEF IInv, TypeInv, TypeOK, VMs
  <1>2. \A p : LifecycleVM(vms'[u]).phase = p =>
                  LifecycleVM(vms'[u]) = [LifecycleVM(vms[u]) EXCEPT !.phase = p]
    BY <1>1 DEF LifecycleVM
  <1>3. LifecycleVM(vms'[u]).phase = LifecycleVM(vms[u]).phase
           => LifecycleVM(vms'[u]) = LifecycleVM(vms[u])
    BY <1>1 DEF LifecycleVM
  <1>4. LifecycleVM(vms'[u]).phase = LifecycleVM(vms[u]).phase
           => UNCHANGED Lifecycle!lifecycleVars
    <2> SUFFICES ASSUME LifecycleVM(vms'[u]).phase = LifecycleVM(vms[u]).phase
                 PROVE  UNCHANGED Lifecycle!lifecycleVars
      OBVIOUS
    <2>1. \A v \in UIDs : LifecycleVM(vms'[v]) = LifecycleVM(vms[v])
      BY <1>1, <1>3
    <2>2. QED
      BY <2>1, Unseen
  <1>5. QED
    BY <1>1, <1>2, <1>4, VMStep

\* reconcileDelete condemns only what belongs to a machine that is deleted.
LEMMA DeleteRefines ==
    ASSUME IInv, NEW m \in Machines, Delete(m)
    PROVE  LifecycleStep
  <1>1. PICK s : s = scope[m]
    OBVIOUS
  <1>2. /\ UNCHANGED api /\ s.pc = "Delete"
        /\ UNCHANGED vms \/ (Present(s) /\ VMDeleting(s))
    BY <1>1, DeleteStep DEF IInv
  <1>3. CASE UNCHANGED vms
    BY <1>2, <1>3, Unseen DEF LifecycleStep
  <1>4. CASE Present(s) /\ VMDeleting(s)
    <2>1. PICK u \in UIDs : u = GetInstanceID(s.obj)
      BY <1>4, PresentType
    <2>2. vms' = [vms EXCEPT ![u].state = "DELETING"] /\ vms[u].state \in KnownStates
      BY <1>4, <2>1, PresentType DEF VMDeleting
    <2>3. vms'[u].state = "DELETING"
      BY <1>2, <2>2, StateMoves
    <2>4. LifecycleVM(vms'[u]).phase = "condemned"
      BY <2>3, VMFields
    <2>5. CASE vms[u].state = "DELETING"
      <3>1. LifecycleVM(vms[u]).phase = "condemned"
        BY <2>5, VMFields
      <3>2. QED
        BY <1>2, <2>2, <2>4, <3>1, StateMoves DEF LifecycleStep
    <2>6. CASE vms[u].state \in LiveStates
      <3>1. LifecycleVM(vms[u]).phase = "present"
        BY <2>6, VMFields
      <3>2. Lifecycle!Advance(u, "present", "condemned")
        BY <1>2, <2>2, <2>4, <3>1, StateMoves
      <3>3. ScopeCore(m, s) /\ s.obj.deleting
        BY <1>1, <1>2, RunningScope DEF ScopeCall, DeletePCs
      <3>4. s.obj.providerID # NoID /\ s.obj.providerID.uid = u
        BY <2>1, SentinelAssumption DEF GetInstanceID
      <3>5. vms[u].owner = m /\ (api[m].deleting \/ ~api[m].exists)
        BY <3>3, <3>4 DEF ScopeCore, Owns, Precedes
      <3>6. LifecycleVM(vms[u]).owner = m /\ m # NoMachine
        BY <3>5, SentinelAssumption DEF LifecycleVM
      <3>7. Lifecycle!Condemn(u)
        BY <3>2, <3>5, <3>6, LifecycleFields DEF Lifecycle!Condemn
      <3>8. QED
        BY <3>7 DEF LifecycleStep, Lifecycle!Next
    <2>7. QED
      BY <2>2, <2>5, <2>6 DEF KnownStates
  <1>5. QED
    BY <1>2, <1>3, <1>4

LEMMA FlintlockRefines ==
    ASSUME IInv, Flintlock
    PROVE  LifecycleStep
  <1>1. PICK u \in UIDs : VMStarts(u) \/ VMRemoved(u) \/ VMFails(u)
                          \/ VMDeletedByOperator(u)
    BY DEF Flintlock
  <1>2. CASE VMStarts(u) \/ VMFails(u)
    <2>1. PICK to \in LiveStates : /\ vms' = [vms EXCEPT ![u].state = to]
                                   /\ vms[u].state \in LiveStates /\ UNCHANGED api
      BY <1>2 DEF VMStarts, VMFails, VMMoves, LiveStates
    <2>2. vms'[u].state \in LiveStates
      BY <2>1, StateMoves
    <2>3. LifecycleVM(vms[u]).phase = LifecycleVM(vms'[u]).phase
      BY <2>1, <2>2, VMFields
    <2>4. QED
      BY <2>1, <2>3, StateMoves DEF LifecycleStep
  <1>3. CASE VMRemoved(u)
    <2>1. /\ vms' = [vms EXCEPT ![u].state = "REMOVED"]
          /\ vms[u].state = "DELETING" /\ UNCHANGED api
      BY <1>3 DEF VMRemoved, VMMoves
    <2>2. vms'[u].state = "REMOVED"
      BY <2>1, StateMoves
    <2>3. LifecycleVM(vms[u]).phase = "condemned" /\ LifecycleVM(vms'[u]).phase = "gone"
      BY <2>1, <2>2, VMFields
    <2>4. Lifecycle!Vanish(u)
      BY <2>1, <2>3, StateMoves DEF Lifecycle!Vanish
    <2>5. QED
      BY <2>4 DEF LifecycleStep, Lifecycle!Next
  <1>4. CASE VMDeletedByOperator(u)
    <2>1. /\ vms' = [vms EXCEPT ![u].state = "DELETING"] /\ "operator" \in Faults
          /\ vms[u].state \in LiveStates /\ UNCHANGED api
      BY <1>4 DEF VMDeletedByOperator, VMMoves, Fault
    <2>2. vms'[u].state = "DELETING"
      BY <2>1, StateMoves
    <2>3. /\ LifecycleVM(vms[u]).phase = "present"
          /\ LifecycleVM(vms'[u]).phase = "condemned"
      BY <2>1, <2>2, VMFields
    <2>4. Lifecycle!Advance(u, "present", "condemned")
      BY <2>1, <2>3, StateMoves
    <2>5. Lifecycle!Condemn(u)
      BY <2>1, <2>4 DEF Lifecycle!Condemn
    <2>6. QED
      BY <2>5 DEF LifecycleStep, Lifecycle!Next
  <1>5. QED
    BY <1>1, <1>2, <1>3, <1>4

LEMMA NextRefines ==
    ASSUME IInv, RecordInv, [Next]_vars
    PROVE  LifecycleStep
  <1>1. CASE \E m \in Machines : Reconcile(m)
    <2>1. PICK m \in Machines : Reconcile(m)
      BY <1>1
    <2>2. CASE \/ ReconcileIgnored(m) \/ ReconcileFailed(m) \/ ReconcileDelete(m)
               \/ ReconcileNormal(m) \/ GetNormal(m) \/ GetDelete(m)
      <3>1. UNCHANGED <<api, vms>>
        BY <2>2 DEF ReconcileIgnored, ReconcileFailed, ReconcileDelete, ReconcileNormal,
                    Enter, GetNormal, GetDelete
      <3>2. QED
        BY <3>1, Unseen DEF LifecycleStep
    <2>3. QED
      BY <2>1, <2>2, CreateRefines, DeleteRefines, PatchConditionsRefines,
         PatchObjectRefines, PatchStatusRefines DEF Reconcile, RecordInv
  <1>2. CASE Environment
    <2>1. CASE \E m \in Machines : UserDelete(m) \/ UserEdit(m)
      BY <2>1, UserRefines
    <2>2. CASE UNCHANGED <<api, vms>>
      BY <2>2, Unseen DEF LifecycleStep
    <2>3. QED
      BY <1>2, <2>1, <2>2
         DEF Environment, BootstrapStep, CloseGate, OpenGate, InfrastructureReady,
             PlacementChanged, CredentialsLost, CredentialsRestored
  <1>3. CASE (\E m \in Machines : CacheSync(m) \/ Enqueue(m)) \/ Crash \/ UNCHANGED vars
    <2>1. UNCHANGED <<api, vms>>
      BY <1>3 DEF CacheSync, Enqueue, Crash, vars
    <2>2. QED
      BY <2>1, Unseen DEF LifecycleStep
  <1>4. QED
    BY <1>1, <1>2, <1>3, FlintlockRefines DEF Next

-----------------------------------------------------------------------------
(* RecordInv is inductive, and the theorem.                                *)

\* A step of a reconcile that keeps the provider ID it has in hand, or that
\* has just put one there.
LEMMA RecordKept ==
    ASSUME IInv', NEW m \in Machines, RecordOK(m),
           scope[m].pc # "Idle", scope'[m].before = scope[m].before,
           \/ scope'[m].pc = "PatchProviderID"
           \/ scope'[m].obj.providerID = scope[m].obj.providerID,
           api'[m].exists => api[m].exists /\ (api[m].finalizer => api'[m].finalizer)
    PROVE  RecordOK(m)'
  <1>1. CASE scope'[m].pc = "PatchProviderID"
    <2>1. ScopeCall(m, scope[m])'
      BY <1>1 DEF IInv, SafetyInv, ScopeOK
    <2>2. QED
      BY <1>1, <2>1 DEF ScopeCall, RecordOK
  <1>2. CASE scope'[m].obj.providerID = scope[m].obj.providerID
    BY <1>2 DEF RecordOK
  <1>3. QED
    BY <1>1, <1>2

LEMMA EntryRecords ==
    ASSUME IInv, NEW m \in Machines, ReconcileDelete(m) \/ ReconcileNormal(m)
    PROVE  RecordOK(m)'
  <1>1. Entered(m, scope'[m], cache[m]) /\ cache[m] \in Objects
    BY EntryStep DEF IInv, TypeInv, TypeOK
  <1>2. PICK t, o : t = scope'[m] /\ o = cache[m]
    OBVIOUS
  <1>3. t.before = o /\ t.obj.providerID = o.providerID
    <2>1. /\ [o EXCEPT !.finalizer = TRUE].providerID = o.providerID
          /\ [o EXCEPT !.cond = "WaitingForClusterInfra"].providerID = o.providerID
          /\ [o EXCEPT !.cond = "WaitingForBootstrapData"].providerID = o.providerID
      BY <1>1, <1>2, SameProviderID
    <2>2. QED
      BY <1>1, <1>2, <2>1 DEF Entered, Returned, Patching
  <1>4. QED
    BY <1>2, <1>3 DEF RecordOK

LEMMA CallRecords ==
    ASSUME IInv, IInv', NEW m \in Machines, RecordOK(m),
           GetNormal(m) \/ GetDelete(m) \/ Create(m) \/ Delete(m)
    PROVE  RecordOK(m)'
  <1>1. PICK s, t : s = scope[m] /\ t = scope'[m]
    OBVIOUS
  <1>2. s.obj \in Objects /\ TypeInv
    BY <1>1, ScopeOperators DEF IInv, TypeInv, TypeOK
  <1>3. /\ UNCHANGED api /\ s.pc # "Idle" /\ t.before = s.before
        /\ t.pc = "PatchProviderID" \/ t.obj.providerID = s.obj.providerID
    <2>1. CASE GetNormal(m)
      BY <1>1, <1>2, <2>1, GetNormalStep, SameProviderID
         DEF GetNormalDone, Returned, Patching
    <2>2. CASE GetDelete(m)
      <3>1. UNCHANGED api /\ s.pc = "GetDelete" /\ GetDeleteDone(s, t)
        BY <1>1, <1>2, <2>2, GetDeleteStep
      <3>2. /\ [s.obj EXCEPT !.finalizer = FALSE].providerID = s.obj.providerID
            /\ SetNotReady(s.obj, "Deleting").providerID = s.obj.providerID
        BY <1>2, SameProviderID
      <3>3. QED
        BY <3>1, <3>2 DEF GetDeleteDone, Returned, Patching
    <2>3. CASE Create(m)
      <3>1. UNCHANGED api /\ s.pc = "Create" /\ CreateDone(m, s, t)
        BY <1>1, <1>2, <2>3, CreateStep
      <3>2. GetLabels(m, s.obj).providerID = s.obj.providerID
        BY <1>2, SameProviderID
      <3>3. QED
        BY <3>1, <3>2 DEF CreateDone, Returned, Patching
    <2>4. CASE Delete(m)
      <3>1. UNCHANGED api /\ s.pc = "Delete" /\ DeleteDone(s, t)
        BY <1>1, <1>2, <2>4, DeleteStep
      <3>2. SetNotReady(s.obj, "DeleteFailed").providerID = s.obj.providerID
        BY <1>2, SameProviderID
      <3>3. QED
        BY <3>1, <3>2 DEF DeleteDone, Returned
    <2>5. QED
      BY <2>1, <2>2, <2>3, <2>4
  <1>4. QED
    BY <1>1, <1>3, RecordKept

LEMMA PatchRecords ==
    ASSUME IInv, IInv', NEW m \in Machines, RecordOK(m),
           PatchConditions(m) \/ PatchObject(m) \/ PatchStatus(m)
    PROVE  RecordOK(m)'
  <1>1. PICK s, t : s = scope[m] /\ t = scope'[m]
    OBVIOUS
  <1>2. TypeInv /\ api[m] \in Objects /\ s.obj \in Objects
    BY <1>1, ScopeOperators DEF IInv, TypeInv, TypeOK
  <1>3. CASE PatchConditions(m)
    <2>1. /\ s.pc # "Idle" /\ PartDone(s, t, "object")
          /\ \/ api'[m] = api[m]
             \/ /\ api[m].exists
                /\ api'[m] = Stored(MergeConditions(s.before, s.obj, api[m]))
      BY <1>1, <1>2, <1>3, PatchConditionsStep DEF Unsent, Sent, Lost, PatchPCs
    <2>2. api'[m].exists => api[m].exists /\ (api[m].finalizer => api'[m].finalizer)
      BY <1>2, <2>1, ConditionsFields, StoredFields
    <2>3. QED
      BY <1>1, <2>1, <2>2, RecordKept DEF PartDone
  <1>4. CASE PatchObject(m)
    <2> DEFINE a == MergeObject(s.before, s.obj, api[m])
    <2>1. /\ s.pc # "Idle" /\ PartDone(s, t, "status")
          /\ api'[m] = api[m] \/ \E was, err : Sent(m, a, was, err)
      BY <1>1, <1>2, <1>4, PatchObjectStep DEF Unsent, Lost, PatchPCs
    <2>2. api'[m].exists => api[m].exists /\ (api[m].finalizer => api'[m].finalizer)
      <3> SUFFICES ASSUME NEW was, NEW err, Sent(m, a, was, err), api'[m].exists
                   PROVE  api[m].exists /\ (api[m].finalizer => api'[m].finalizer)
        BY <2>1
      <3>1. Keeps(a, api[m]) /\ Asked(m, s.obj.providerID, a)
        BY <1>1, <2>1, ObjectRequest
      <3>2. api[m].exists /\ api'[m] = Stored(a)
        BY DEF Sent
      <3> HIDE DEF a
      <3>3. api'[m] = a /\ ~(a.deleting /\ ~a.finalizer)
        BY <3>2, StoredFields
      <3>4. api[m].deleting => a.deleting
        BY <3>1 DEF Keeps
      <3>5. api[m].finalizer => a.finalizer
        BY <3>1, <3>3, <3>4 DEF Asked
      <3>6. QED
        BY <3>2, <3>3, <3>5
    <2>3. QED
      BY <1>1, <2>1, <2>2, RecordKept DEF PartDone
  <1>5. CASE PatchStatus(m)
    <2>1. PICK err \in BOOLEAN :
             /\ s.pc \in PatchPCs
             /\ StatusSent(m, s, err) /\ Resumed(m, s, err)
      BY <1>1, <1>2, <1>5, PatchStatusStep
    <2>2. \/ api'[m] = api[m]
          \/ api[m].exists /\ api'[m] = Stored(MergeStatus(s.before, s.obj, api[m]))
      BY <2>1 DEF StatusSent, Unsent, Sent, Lost
    <2>3. api'[m].exists => api[m].exists /\ (api[m].finalizer => api'[m].finalizer)
      BY <1>2, <2>2, StatusFields, StoredFields
    <2>4. CASE s.pc = "Deferred"
      BY <2>1, <2>4 DEF Resumed, RecordOK, IdleScope
    <2>5. CASE s.pc # "Deferred"
      <3>1. PatchDone(s, t, err)
        BY <1>1, <2>1, <2>5 DEF Resumed
      <3>2. /\ t.before = s.before
            /\ t.pc = "PatchProviderID" \/ t.obj.providerID = s.obj.providerID
        BY <1>2, <3>1, ParsedFields DEF PatchDone, Returned, Patching
      <3>3. s.pc # "Idle"
        BY <2>1 DEF PatchPCs
      <3>4. QED
        BY <1>1, <2>3, <3>2, <3>3, RecordKept
    <2>6. QED
      BY <2>4, <2>5
  <1>6. QED
    BY <1>3, <1>4, <1>5

LEMMA NextRecords ==
    ASSUME IInv, IInv', RecordInv, [Next]_vars
    PROVE  RecordInv'
  <1> SUFFICES ASSUME NEW m \in Machines PROVE RecordOK(m)'
    BY DEF RecordInv
  <1>1. RecordOK(m) /\ TypeInv /\ api[m] \in Objects
    BY DEF RecordInv, IInv, TypeInv, TypeOK
  <1>2. CASE Reconcile(m)
    <2>1. CASE ReconcileIgnored(m) \/ ReconcileFailed(m)
      BY <1>1, <2>1 DEF ReconcileIgnored, ReconcileFailed, RecordOK
    <2>2. QED
      BY <1>1, <1>2, <2>1, EntryRecords, CallRecords, PatchRecords DEF Reconcile
  <1>3. CASE Apart(m)
    BY <1>1, <1>3 DEF Apart, RecordOK
  <1>4. CASE CacheSync(m)
    BY <1>1, <1>4 DEF CacheSync, RecordOK
  <1>5. CASE Crash
    BY <1>5 DEF Crash, RecordOK, IdleScope
  <1>6. CASE UserDelete(m) \/ UserEdit(m)
    <2>1. UNCHANGED scope
      BY <1>6 DEF UserDelete, UserEdit
    <2>2. api'[m].exists => api[m].exists /\ (api[m].finalizer => api'[m].finalizer)
      <3>1. CASE UserEdit(m)
        BY <1>1, <3>1 DEF UserEdit, Objects, IInv, TypeInv, TypeOK
      <3>2. CASE UserDelete(m)
        <4>1. PICK a : a = [api[m] EXCEPT !.deleting = TRUE]
          OBVIOUS
        <4>2. a.finalizer = api[m].finalizer /\ api'[m] = Stored(a) /\ api[m].exists
          BY <1>1, <3>2, <4>1 DEF UserDelete, Objects, IInv, TypeInv, TypeOK
        <4>3. QED
          BY <4>2, StoredFields
      <3>3. QED
        BY <1>6, <3>1, <3>2
    <2>3. QED
      BY <1>1, <2>1, <2>2 DEF RecordOK
  <1>7. QED
    BY <1>1, <1>2, <1>3, <1>4, <1>5, <1>6, StepCases

\* Every behaviour of the controller, with any number of machines, hosts and
\* workers, a cache of any age and any mix of failures, is a behaviour of the
\* lifecycle once reconciles, caches and patches are hidden: a finalizer or a
\* provider ID is never taken back, no microVM is made for a machine without a
\* finalizer, and reconcileDelete condemns only what a deleted machine owns.
THEOREM LifecycleTheorem == Spec => ImplementsLifecycle
  <1>1. Init => IInv /\ RecordInv
    <2>1. Init => RecordInv
      BY DEF Init, RecordInv, RecordOK, IdleScope
    <2>2. QED
      BY <2>1, InitTypeInv, InitSafe DEF IInv
  <1>2. IInv /\ RecordInv /\ [Next]_vars => (IInv /\ RecordInv)'
    <2>1. IInv /\ [Next]_vars => IInv'
      BY NextTypeInv, NextSafe DEF IInv
    <2>2. QED
      BY <2>1, NextRecords
  <1>3. IInv /\ RecordInv /\ [Next]_vars => [Lifecycle!Next]_(Lifecycle!lifecycleVars)
    BY NextRefines DEF LifecycleStep
  <1>4. QED
    BY <1>1, <1>2, <1>3, InitLifecycle, PTL
       DEF Spec, ImplementsLifecycle, Lifecycle!Spec
=============================================================================
