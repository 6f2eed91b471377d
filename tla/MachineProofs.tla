--------------------------- MODULE MachineProofs ---------------------------
(* MachineController has its types and is safe, for every value of its constants. *)
EXTENDS MachineInvariant, TLAPS

-----------------------------------------------------------------------------
(* Types of the operators on objects and scopes.                           *)

LEMMA ConstantObjects ==
    NewObject \in Objects /\ GoneObject \in Objects /\ IdleScope \in Scopes
  BY DEF NewObject, GoneObject, IdleScope, Objects, Scopes, VMStates, Reasons,
         Calls, PatchPCs, Parts, Results

LEMMA ObjectOperators ==
    ASSUME NEW o \in Objects
    PROVE  /\ SetReady(o) \in Objects
           /\ \A r \in Reasons : SetNotReady(o, r) \in Objects
           /\ \A h \in Hosts, u \in UIDs : SetProviderID(o, h, u) \in Objects
           /\ \A m : GetLabels(m, o) \in Objects
           /\ \A b \in BOOLEAN : [o EXCEPT !.finalizer = b] \in Objects
           /\ \A r \in Reasons : [o EXCEPT !.cond = r] \in Objects
           /\ \A v \in VMStates : [o EXCEPT !.vmState = v] \in Objects
           /\ Stored(o) \in Objects
           /\ Stored([o EXCEPT !.deleting = TRUE]) \in Objects
  <1>1. SetReady(o) \in Objects
    BY DEF SetReady, Objects, Reasons
  <1>2. \A r \in Reasons : SetNotReady(o, r) \in Objects
    BY DEF SetNotReady, Objects
  <1>3. \A h \in Hosts, u \in UIDs : SetProviderID(o, h, u) \in Objects
    BY DEF SetProviderID, Objects, ProviderIDs
  <1>4. \A m : GetLabels(m, o) \in Objects
    BY DEF GetLabels, Objects
  <1>5. /\ \A b \in BOOLEAN : [o EXCEPT !.finalizer = b] \in Objects
        /\ \A r \in Reasons : [o EXCEPT !.cond = r] \in Objects
        /\ \A v \in VMStates : [o EXCEPT !.vmState = v] \in Objects
    BY DEF Objects
  <1>6. Stored(o) \in Objects /\ Stored([o EXCEPT !.deleting = TRUE]) \in Objects
    <2>1. [o EXCEPT !.deleting = TRUE] \in Objects
      BY DEF Objects
    <2>2. QED
      BY <2>1, ConstantObjects DEF Stored
  <1>7. QED
    BY <1>1, <1>2, <1>3, <1>4, <1>5, <1>6

LEMMA ParsedTypes ==
    ASSUME NEW o \in Objects, NEW st
    PROVE  ParsedObject(o, st) \in Objects /\ ParsedResult(st) \in Results
  <1>1. \A v \in VMStates : [o EXCEPT !.vmState = v] \in Objects
    BY ObjectOperators
  <1>2. ParsedObject(o, st) \in Objects
    BY <1>1, ObjectOperators DEF ParsedObject, VMStates, Reasons
  <1>3. QED
    BY <1>2 DEF ParsedResult, Results

LEMMA MergeTypes ==
    ASSUME NEW b \in Objects, NEW o \in Objects, NEW a \in Objects
    PROVE  /\ MergeConditions(b, o, a) \in Objects
           /\ MergeObject(b, o, a) \in Objects
           /\ MergeStatus(b, o, a) \in Objects
  BY DEF MergeConditions, MergeObject, MergeStatus, Merge, Objects

LEMMA ScopeOperators ==
    ASSUME NEW s \in Scopes
    PROVE  /\ \A r \in Results : Return(s, r) \in Scopes
           /\ \A p \in Calls : StartPatch(s, p) \in Scopes
           /\ \A o \in Objects : [s EXCEPT !.obj = o] \in Scopes
           /\ \A p \in Calls : [s EXCEPT !.pc = p] \in Scopes
           /\ \A h \in Hosts : [s EXCEPT !.fd = h] \in Scopes
           /\ \A p \in Parts : [s EXCEPT !.part = p] \in Scopes
           /\ [s EXCEPT !.patchErr = TRUE] \in Scopes
           /\ \A u \in UIDs, st \in KnownStates :
                 [s EXCEPT !.uid = u, !.state = st] \in Scopes
           /\ s.obj \in Objects /\ s.before \in Objects
  BY DEF Return, StartPatch, Scopes, Calls, PatchPCs, Parts

LEMMA TypedOperators ==
    ASSUME NEW s \in Scopes
    PROVE  /\ \A r \in Results : TypedScope(Return(s, r))
           /\ \A p \in {"PatchProviderID", "PatchNotReady"} :
                 s.fd \in Hosts => TypedScope(StartPatch(s, p))
           /\ s.fd \in Hosts /\ (KnownVM(s) => s.uid \in UIDs)
                 => TypedScope(StartPatch(s, "PatchFinalizer"))
           /\ \A p \in {"GetDelete", "Create", "Delete"} :
                 s.fd \in Hosts => TypedScope([s EXCEPT !.pc = p])
  <1>1. ASSUME NEW r \in Results PROVE TypedScope(Return(s, r))
    <2>1. Return(s, r) \in Scopes
      BY ScopeOperators
    <2>2. Return(s, r).pc = "Deferred"
      BY DEF Return, Scopes
    <2>3. QED
      BY <2>1, <2>2 DEF TypedScope
  <1>2. ASSUME NEW p \in {"PatchProviderID", "PatchNotReady"}, s.fd \in Hosts
        PROVE  TypedScope(StartPatch(s, p))
    <2>1. StartPatch(s, p) \in Scopes
      BY ScopeOperators DEF Calls, PatchPCs
    <2>2. StartPatch(s, p).pc = p /\ StartPatch(s, p).fd = s.fd
      BY DEF StartPatch, Scopes
    <2>3. QED
      BY <1>2, <2>1, <2>2 DEF TypedScope
  <1>5. ASSUME s.fd \in Hosts, KnownVM(s) => s.uid \in UIDs
        PROVE  TypedScope(StartPatch(s, "PatchFinalizer"))
    <2> DEFINE t == StartPatch(s, "PatchFinalizer")
    <2>1. t \in Scopes
      BY ScopeOperators DEF Calls, PatchPCs
    <2>2. /\ t.pc = "PatchFinalizer"
          /\ t.fd = s.fd /\ t.uid = s.uid /\ t.state = s.state
      BY DEF StartPatch, Scopes
    <2>3. QED
      BY <1>5, <2>1, <2>2 DEF TypedScope, KnownVM
  <1>3. \A p \in {"GetDelete", "Create", "Delete"} :
              s.fd \in Hosts => TypedScope([s EXCEPT !.pc = p])
    BY ScopeOperators DEF TypedScope, Scopes, Calls
  <1>4. QED
    BY <1>1, <1>2, <1>3, <1>5

LEMMA IdleTyped == TypedScope(IdleScope)
  BY ConstantObjects DEF TypedScope, IdleScope

LEMMA AfterPatchTyped ==
    ASSUME NEW s, TypedScope(s), s.pc \in PatchPCs \ {"Deferred"}
    PROVE  TypedScope(AfterPatch(s))
  <1> USE DEF PatchPCs
  <1>1. s \in Scopes /\ s.fd \in Hosts /\ s.obj \in Objects
    BY ScopeOperators DEF TypedScope
  <1>2. CASE s.patchErr
    BY <1>1, <1>2, TypedOperators DEF AfterPatch, Results
  <1>3. CASE ~s.patchErr /\ s.pc = "PatchFinalizer" /\ ~KnownVM(s)
    BY <1>1, <1>3, TypedOperators DEF AfterPatch, Continue
  <1>4. CASE ~s.patchErr /\ s.pc = "PatchFinalizer" /\ KnownVM(s)
    <2> DEFINE t == [s EXCEPT !.obj = SetProviderID(@, s.fd, s.uid)]
    <2>1. t \in Scopes /\ t.fd \in Hosts
      BY <1>1, <1>4, ObjectOperators, ScopeOperators DEF TypedScope, Scopes
    <2>2. QED
      BY <1>4, <2>1, TypedOperators DEF AfterPatch, Continue
  <1>5. CASE ~s.patchErr /\ s.pc = "PatchProviderID"
    <2> DEFINE t == [s EXCEPT !.obj = ParsedObject(@, s.state)]
    <2>1. t \in Scopes
      BY <1>1, ParsedTypes, ScopeOperators
    <2>2. QED
      BY <1>1, <1>5, <2>1, ParsedTypes, TypedOperators DEF AfterPatch, Continue
  <1>6. CASE ~s.patchErr /\ s.pc = "PatchNotReady"
    BY <1>1, <1>6, TypedOperators DEF AfterPatch, Continue, Results
  <1>7. QED
    BY <1>2, <1>3, <1>4, <1>5, <1>6

LEMMA GotoTyped ==
    ASSUME TypeInv, NEW m \in Machines, NEW s, TypedScope(s), Goto(m, s)
    PROVE  scope' \in [Machines -> Scopes] /\ ScopeTyped'
  BY DEF TypeInv, TypeOK, ScopeTyped, TypedScope, Goto, KnownVM

-----------------------------------------------------------------------------
(* Type correctness, action by action.                                     *)

LEMMA InitTypeInv == Init => TypeInv
  <1> SUFFICES ASSUME Init PROVE TypeInv
    OBVIOUS
  <1>1. TypeOK
    BY ConstantObjects, ConstantsAssumption
       DEF Init, TypeOK, VMs, KnownStates, LiveStates, Results
  <1>2. ScopeTyped
    BY IdleTyped DEF Init, ScopeTyped
  <1>3. QED
    BY <1>1, <1>2 DEF TypeInv

LEMMA FaultType ==
    ASSUME budget \in Nat, NEW f, Fault(f) \/ NoFault
    PROVE  budget' \in Nat
  BY DEF Fault, NoFault

LEMMA NewScopeType ==
    ASSUME NEW o \in Objects
    PROVE  NewMachineScope(o) \in Scopes
  BY ConstantObjects DEF NewMachineScope, Scopes

LEMMA FailureDomainType ==
    ASSUME TypeInv, NEW m \in Machines, NEW o \in Objects
    PROVE  GetFailureDomain(m, o) \subseteq Hosts
  BY ConstantsAssumption, SentinelAssumption
     DEF TypeInv, TypeOK, GetFailureDomain, ChosenDomain, Objects, ProviderIDs

\* The steps of Reconcile that touch only the scope, the queue and last.
LEMMA EntryTyped ==
    ASSUME TypeInv, NEW m \in Machines,
           \/ ReconcileIgnored(m) \/ ReconcileFailed(m)
           \/ ReconcileDelete(m) \/ ReconcileNormal(m)
    PROVE  TypeInv'
  <1> USE DEF TypeInv
  <1>1. CASE ReconcileIgnored(m) \/ ReconcileFailed(m)
    BY <1>1 DEF ReconcileIgnored, ReconcileFailed, TypeOK, ScopeTyped, TypedScope,
                KnownVM, Results
  <1> DEFINE o == cache[m]
             s == NewMachineScope(o)
  <1>2. o \in Objects /\ s \in Scopes
    BY NewScopeType DEF TypeOK
  <1>3. GetFailureDomain(m, o) \subseteq Hosts
    BY <1>2, FailureDomainType
  <1> HIDE DEF s
  <1>5. ~KnownVM(s)
    BY DEF s, NewMachineScope, IdleScope, KnownVM
  <1>4. ASSUME NEW h \in Hosts
        PROVE  /\ \A p \in {"GetNormal", "GetDelete"} :
                     TypedScope([s EXCEPT !.pc = p, !.fd = h])
               /\ TypedScope(StartPatch([s EXCEPT !.fd = h, !.obj.finalizer = TRUE],
                                        "PatchFinalizer"))
    <2>1. \A p \in {"GetNormal", "GetDelete"} :
             TypedScope([s EXCEPT !.pc = p, !.fd = h])
      BY <1>2, <1>5 DEF TypedScope, Scopes, Calls, KnownVM
    <2> DEFINE t == [s EXCEPT !.fd = h, !.obj.finalizer = TRUE]
    <2>2. s.obj \in Objects
      BY <1>2, ScopeOperators
    <2>3. [s.obj EXCEPT !.finalizer = TRUE] \in Objects
      BY <2>2 DEF Objects
    <2>4. t \in Scopes /\ t.fd = h /\ t.state = s.state
      BY <1>2, <2>3 DEF Scopes
    <2>5. TypedScope(StartPatch(t, "PatchFinalizer"))
      BY <1>5, <2>4, TypedOperators DEF KnownVM
    <2>6. QED
      BY <2>1, <2>5
  <1>6. \A r \in Results : TypedScope(Return(s, r))
    BY <1>2, TypedOperators
  <1>7. \A c \in Reasons : TypedScope(Return([s EXCEPT !.obj.cond = c], "waiting"))
    <2> TAKE c \in Reasons
    <2>1. s.obj \in Objects
      BY <1>2, ScopeOperators
    <2>2. [s.obj EXCEPT !.cond = c] \in Objects
      BY <2>1 DEF Objects
    <2>3. [s EXCEPT !.obj.cond = c] \in Scopes
      BY <1>2, <2>2 DEF Scopes
    <2>4. QED
      BY <2>3, TypedOperators DEF Results
  <1>8. CASE ReconcileDelete(m)
    <2>1. \E t : TypedScope(t) /\ Goto(m, t)
      BY <1>3, <1>4, <1>6, <1>8 DEF ReconcileDelete, s, Results
    <2>2. scope' \in [Machines -> Scopes] /\ ScopeTyped'
      BY <2>1, GotoTyped
    <2>3. QED
      BY <1>8, <2>2 DEF ReconcileDelete, Enter, TypeOK
  <1>9. CASE ReconcileNormal(m)
    <2>1. \E t : TypedScope(t) /\ Goto(m, t)
      BY <1>3, <1>4, <1>6, <1>7, <1>9 DEF ReconcileNormal, s, Results, Reasons
    <2>2. scope' \in [Machines -> Scopes] /\ ScopeTyped'
      BY <2>1, GotoTyped
    <2>3. QED
      BY <1>9, <2>2 DEF ReconcileNormal, Enter, TypeOK
  <1>10. QED
    BY <1>1, <1>8, <1>9

LEMMA InstanceIDType ==
    ASSUME NEW o \in Objects, GetInstanceID(o) # NoUID
    PROVE  GetInstanceID(o) \in UIDs
  BY DEF GetInstanceID, Objects, ProviderIDs

LEMMA PresentType ==
    ASSUME NEW s, Present(s)
    PROVE  /\ GetInstanceID(s.obj) \in UIDs
           /\ vms[GetInstanceID(s.obj)].host = s.fd
           /\ vms[GetInstanceID(s.obj)].state \in KnownStates
  BY DEF Present

\* The two Get calls: only the scope and the budget change.
LEMMA GetTyped ==
    ASSUME TypeInv, NEW m \in Machines, GetNormal(m) \/ GetDelete(m)
    PROVE  TypeInv'
  <1> USE DEF TypeInv
  <1> DEFINE s == scope[m]
  <1>1. TypedScope(s) /\ s \in Scopes /\ s.obj \in Objects /\ s.fd \in Hosts
    <2>1. TypedScope(s) /\ s.pc \in {"GetNormal", "GetDelete"}
      BY DEF ScopeTyped, GetNormal, GetDelete
    <2>2. QED
      BY <2>1, ScopeOperators DEF TypedScope
  <1>2. budget' \in Nat
    BY FaultType DEF GetNormal, GetDelete, GetErrors, GetNotFound, GetFound, TypeOK
  <1> HIDE DEF s
  <1>3. TypedScope(Return(s, "error"))
    BY <1>1, TypedOperators DEF Results
  <1> DEFINE guarded == StartPatch([s EXCEPT !.obj.finalizer = TRUE], "PatchFinalizer")
             uid == GetInstanceID(s.obj)
             found == [guarded EXCEPT !.uid = uid, !.state = vms[uid].state]
  <1>4. [s EXCEPT !.obj.finalizer = TRUE] \in Scopes
    <2>1. [s.obj EXCEPT !.finalizer = TRUE] \in Objects
      BY <1>1 DEF Objects
    <2>2. QED
      BY <1>1, <2>1 DEF Scopes
  <1>5. guarded \in Scopes /\ guarded.fd = s.fd /\ guarded.state = s.state
        /\ guarded.pc = "PatchFinalizer" /\ guarded.uid = s.uid
    <2>1. guarded \in Scopes
      BY <1>4, ScopeOperators DEF Calls, PatchPCs
    <2>2. QED
      BY <1>1, <2>1 DEF StartPatch, Scopes
  <1> HIDE DEF guarded
  <1>6. CASE GetNormal(m)
    <2>1. TypedScope(guarded)
      <3>1. ~KnownVM(s)
        BY <1>1, <1>6 DEF TypedScope, GetNormal, s
      <3>2. QED
        BY <1>1, <1>5, <3>1 DEF TypedScope, KnownVM
    <2>2. ASSUME GetFound(s) PROVE TypedScope(found)
      <3>1. uid \in UIDs /\ vms[uid].state \in KnownStates
        BY <2>2, PresentType DEF GetFound
      <3>2. found \in Scopes /\ found.fd = s.fd /\ found.uid = uid
            /\ found.pc = "PatchFinalizer"
        BY <1>5, <3>1 DEF Scopes
      <3>3. QED
        BY <1>1, <3>1, <3>2 DEF TypedScope
    <2>3. \E t : TypedScope(t) /\ Goto(m, t)
      BY <1>3, <1>6, <2>1, <2>2 DEF GetNormal, s, guarded
    <2>4. scope' \in [Machines -> Scopes] /\ ScopeTyped'
      BY <2>3, GotoTyped
    <2>5. QED
      BY <1>2, <1>6, <2>4 DEF GetNormal, TypeOK
  <1>7. CASE GetDelete(m)
    <2> DEFINE released == [s EXCEPT !.obj.finalizer = FALSE]
               marked == [s EXCEPT !.obj = SetNotReady(@, "Deleting"),
                                   !.uid = uid, !.state = vms[uid].state]
    <2>1. TypedScope(Return(released, "done"))
      <3>1. [s.obj EXCEPT !.finalizer = FALSE] \in Objects
        BY <1>1 DEF Objects
      <3>2. released \in Scopes
        BY <1>1, <3>1 DEF Scopes
      <3>3. QED
        BY <3>2, TypedOperators DEF Results
    <2>2. ASSUME GetFound(s) PROVE TypedScope(StartPatch(marked, "PatchNotReady"))
      <3>1. uid \in UIDs /\ vms[uid].state \in KnownStates
        BY <2>2, PresentType DEF GetFound
      <3>2. SetNotReady(s.obj, "Deleting") \in Objects
        BY <1>1, ObjectOperators DEF Reasons
      <3>3. marked \in Scopes /\ marked.fd = s.fd
        BY <1>1, <3>1, <3>2 DEF Scopes
      <3>4. QED
        BY <1>1, <3>3, TypedOperators
    <2>3. \E t : TypedScope(t) /\ Goto(m, t)
      BY <1>3, <1>7, <2>1, <2>2 DEF GetDelete, s
    <2>4. scope' \in [Machines -> Scopes] /\ ScopeTyped'
      BY <2>3, GotoTyped
    <2>5. QED
      BY <1>2, <1>7, <2>4 DEF GetDelete, TypeOK
  <1>8. QED
    BY <1>6, <1>7

LEMMA CreateTyped ==
    ASSUME TypeInv, NEW m \in Machines, Create(m)
    PROVE  TypeInv'
  <1> USE DEF TypeInv
  <1> DEFINE s == scope[m]
             labelled == [s EXCEPT !.obj = GetLabels(m, @)]
             known(u) == [labelled EXCEPT !.uid = u, !.state = "PENDING",
                                          !.obj = SetProviderID(@, s.fd, u)]
  <1>1. TypedScope(s) /\ s \in Scopes /\ s.obj \in Objects /\ s.fd \in Hosts
    <2>1. TypedScope(s) /\ s.pc = "Create"
      BY DEF ScopeTyped, Create
    <2>2. QED
      BY <2>1, ScopeOperators DEF TypedScope
  <1>2. budget' \in Nat
    BY FaultType DEF Create, TypeOK
  <1>3. vms' \in [UIDs -> VMs]
    <2>1. ASSUME NEW u \in UIDs, VMCreated(m, u) PROVE vms' \in [UIDs -> VMs]
      BY <1>1, <2>1 DEF VMCreated, TypeOK, VMs, Objects, KnownStates, LiveStates
    <2>2. QED
      BY <2>1 DEF Create, TypeOK
  <1> HIDE DEF s
  <1>4. labelled \in Scopes /\ labelled.fd = s.fd /\ labelled.obj \in Objects
    <2>1. GetLabels(m, s.obj) \in Objects
      BY <1>1, ObjectOperators
    <2>2. QED
      BY <1>1, <2>1 DEF Scopes
  <1> HIDE DEF labelled
  <1>5. ASSUME NEW u \in UIDs PROVE TypedScope(StartPatch(known(u), "PatchProviderID"))
    <2>1. SetProviderID(labelled.obj, s.fd, u) \in Objects
      BY <1>1, <1>4, ObjectOperators
    <2>2. known(u) \in Scopes /\ known(u).fd = s.fd
      BY <1>4, <2>1 DEF Scopes, KnownStates, LiveStates
    <2>3. QED
      BY <1>1, <2>2, TypedOperators
  <1>6. TypedScope(Return(s, "error")) /\ TypedScope(Return(labelled, "error"))
    BY <1>1, <1>4, TypedOperators DEF Results
  <1>7. \E t : TypedScope(t) /\ Goto(m, t)
    BY <1>5, <1>6 DEF Create, s, labelled
  <1>8. scope' \in [Machines -> Scopes] /\ ScopeTyped'
    BY <1>7, GotoTyped
  <1>9. QED
    BY <1>2, <1>3, <1>8 DEF Create, TypeOK

LEMMA DeleteTyped ==
    ASSUME TypeInv, NEW m \in Machines, Delete(m)
    PROVE  TypeInv'
  <1> USE DEF TypeInv
  <1> DEFINE s == scope[m]
             failed == [s EXCEPT !.obj = SetNotReady(@, "DeleteFailed")]
  <1>1. TypedScope(s) /\ s \in Scopes /\ s.obj \in Objects
    BY ScopeOperators DEF ScopeTyped, TypedScope
  <1>2. budget' \in Nat
    BY FaultType DEF Delete, TypeOK
  <1>3. vms' \in [UIDs -> VMs]
    BY DEF Delete, VMDeleting, TypeOK, VMs, KnownStates
  <1> HIDE DEF s
  <1>4. TypedScope(Return(s, "requeue"))
    BY <1>1, TypedOperators DEF Results
  <1>5. TypedScope(Return(failed, "error"))
    <2>1. SetNotReady(s.obj, "DeleteFailed") \in Objects
      BY <1>1, ObjectOperators DEF Reasons
    <2>2. failed \in Scopes
      BY <1>1, <2>1 DEF Scopes
    <2>3. QED
      BY <2>2, TypedOperators DEF Results
  <1>6. \E t : TypedScope(t) /\ Goto(m, t)
    BY <1>4, <1>5 DEF Delete, s
  <1>7. scope' \in [Machines -> Scopes] /\ ScopeTyped'
    BY <1>6, GotoTyped
  <1>8. QED
    BY <1>2, <1>3, <1>7 DEF Delete, TypeOK

\* What the API server has after a request of a Patch, accepted or not.
LEMMA RequestTyped ==
    ASSUME TypeInv, NEW m \in Machines, NEW a \in Objects,
           \/ Accepted(m, a)
           \/ Rejected(m)
           \/ Conflict(m)
           \/ UNCHANGED api /\ NoFault
    PROVE  api' \in [Machines -> Objects] /\ budget' \in Nat
  <1>1. Stored(a) \in Objects
    BY ObjectOperators
  <1>2. api' \in [Machines -> Objects]
    BY <1>1 DEF Accepted, Rejected, Conflict, TypeInv, TypeOK
  <1>3. budget' \in Nat
    BY FaultType DEF Accepted, Rejected, Conflict, TypeInv, TypeOK
  <1>4. QED
    BY <1>2, <1>3

LEMMA PartTyped ==
    ASSUME NEW s, TypedScope(s), NEW p \in Parts
    PROVE  /\ TypedScope([s EXCEPT !.part = p])
           /\ TypedScope([s EXCEPT !.patchErr = TRUE])
           /\ TypedScope([[s EXCEPT !.part = p] EXCEPT !.patchErr = TRUE])
  BY DEF TypedScope, Scopes, KnownVM

LEMMA PatchTyped ==
    ASSUME TypeInv, NEW m \in Machines, PatchConditions(m) \/ PatchObject(m)
    PROVE  TypeInv'
  <1> USE DEF TypeInv
  <1> DEFINE s == scope[m]
  <1>1. TypedScope(s) /\ s.obj \in Objects /\ s.before \in Objects /\ api[m] \in Objects
    BY ScopeOperators DEF ScopeTyped, TypedScope, TypeOK
  <1>2. /\ MergeConditions(s.before, s.obj, api[m]) \in Objects
        /\ MergeObject(s.before, s.obj, api[m]) \in Objects
    BY <1>1, MergeTypes
  <1>3. api' \in [Machines -> Objects] /\ budget' \in Nat
    <2>1. CASE PatchConditions(m)
      BY <1>1, <1>2, <2>1, RequestTyped DEF PatchConditions
    <2>2. CASE PatchObject(m)
      BY <1>1, <1>2, <2>2, RequestTyped DEF PatchObject
    <2>3. QED
      BY <2>1, <2>2
  <1> HIDE DEF s
  <1>4. \A p \in Parts : /\ TypedScope([s EXCEPT !.part = p])
                         /\ TypedScope([[s EXCEPT !.part = p] EXCEPT !.patchErr = TRUE])
    BY <1>1, PartTyped
  <1>5. \E t : TypedScope(t) /\ Goto(m, t)
    BY <1>4 DEF PatchConditions, PatchObject, s, Parts
  <1>6. scope' \in [Machines -> Scopes] /\ ScopeTyped'
    BY <1>5, GotoTyped
  <1>7. QED
    BY <1>3, <1>6 DEF PatchConditions, PatchObject, TypeOK

LEMMA ResumeTyped ==
    ASSUME TypeInv, NEW m \in Machines, NEW s, TypedScope(s), s.pc \in PatchPCs,
           Resume(m, s)
    PROVE  /\ scope' \in [Machines -> Scopes] /\ ScopeTyped'
           /\ queue' \subseteq Machines
           /\ last' \in [Machines -> Results \cup {"patchLost"}]
  <1> USE DEF TypeInv
  <1>1. CASE s.pc = "Deferred"
    <2>1. scope' \in [Machines -> Scopes] /\ ScopeTyped'
      BY <1>1, IdleTyped, GotoTyped DEF Resume, Finish
    <2>2. s.result \in Results
      BY DEF TypedScope, Scopes
    <2>3. QED
      BY <1>1, <2>1, <2>2 DEF Resume, Finish, TypeOK
  <1>2. CASE s.pc # "Deferred"
    <2>1. scope' \in [Machines -> Scopes] /\ ScopeTyped'
      BY <1>2, AfterPatchTyped, GotoTyped DEF Resume
    <2>2. QED
      BY <1>2, <2>1 DEF Resume, TypeOK
  <1>3. QED
    BY <1>1, <1>2

LEMMA PatchStatusTyped ==
    ASSUME TypeInv, NEW m \in Machines, PatchStatus(m)
    PROVE  TypeInv'
  <1> USE DEF TypeInv
  <1> DEFINE s == scope[m]
             failed == [s EXCEPT !.patchErr = TRUE]
  <1>1. TypedScope(s) /\ s.obj \in Objects /\ s.before \in Objects /\ api[m] \in Objects
    BY ScopeOperators DEF ScopeTyped, TypedScope, TypeOK
  <1>2. MergeStatus(s.before, s.obj, api[m]) \in Objects
    BY <1>1, MergeTypes
  <1>3. api' \in [Machines -> Objects] /\ budget' \in Nat
    BY <1>1, <1>2, RequestTyped DEF PatchStatus
  <1>4. s.pc \in PatchPCs
    BY DEF PatchStatus
  <1> HIDE DEF s
  <1>5. TypedScope(failed) /\ failed.pc \in PatchPCs
    BY <1>1, <1>4, PartTyped DEF TypedScope, Scopes, Parts
  <1>6. Resume(m, s) \/ Resume(m, failed)
    BY DEF PatchStatus, s
  <1> HIDE DEF failed
  <1>7. /\ scope' \in [Machines -> Scopes] /\ ScopeTyped'
        /\ queue' \subseteq Machines
        /\ last' \in [Machines -> Results \cup {"patchLost"}]
    BY <1>1, <1>4, <1>5, <1>6, ResumeTyped
  <1>8. QED
    BY <1>3, <1>7 DEF PatchStatus, TypeOK

\* The informer, the queue, a crash, and everything outside the controller.
LEMMA OtherTyped ==
    ASSUME TypeInv,
           \/ \E m \in Machines : CacheSync(m) \/ Enqueue(m)
           \/ Crash \/ Environment \/ Flintlock
           \/ UNCHANGED vars
    PROVE  TypeInv'
  <1> USE DEF TypeInv
  <1>1. CASE \E m \in Machines : CacheSync(m) \/ Enqueue(m)
    BY <1>1 DEF CacheSync, Enqueue, TypeOK, ScopeTyped, TypedScope, KnownVM
  <1>2. CASE Crash
    <2>1. TypeOK'
      BY <1>2, FaultType, ConstantObjects DEF Crash, TypeOK, Results
    <2>2. ScopeTyped'
      BY <1>2, IdleTyped DEF Crash, ScopeTyped
    <2>3. QED
      BY <2>1, <2>2
  <1>3. CASE Environment
    <2>1. ScopeTyped'
      BY <1>3 DEF Environment, UserDelete, UserEdit, BootstrapStep, CloseGate, OpenGate,
                  InfrastructureReady, PlacementChanged, CredentialsLost,
                  CredentialsRestored, ScopeTyped, TypedScope, KnownVM
    <2>2. ASSUME NEW m \in Machines, UserDelete(m) PROVE TypeOK'
      <3>1. Stored([api[m] EXCEPT !.deleting = TRUE]) \in Objects
        BY ObjectOperators DEF TypeOK
      <3>2. QED
        BY <2>2, <3>1 DEF UserDelete, TypeOK
    <2>3. ASSUME NEW m \in Machines, BootstrapStep(m) PROVE TypeOK'
      <3>1. queue' \subseteq Machines
        BY <2>3 DEF BootstrapStep, Watched, TypeOK
      <3>2. bootstrap' \in [Machines -> {"none", "named", "data"}]
        BY <2>3 DEF BootstrapStep, TypeOK
      <3>3. QED
        BY <2>3, <3>1, <3>2 DEF BootstrapStep, TypeOK
    <2>6. ASSUME NEW m \in Machines, UserEdit(m) PROVE TypeOK'
      <3>1. ASSUME NEW a \in Objects PROVE [a EXCEPT !.edited = TRUE] \in Objects
        BY DEF Objects
      <3>3. api[m] \in Objects
        BY DEF TypeOK
      <3>2. QED
        BY <2>6, <3>1, <3>3, FaultType DEF UserEdit, TypeOK
    <2>4. ASSUME \/ CloseGate \/ OpenGate \/ InfrastructureReady \/ PlacementChanged
                 \/ CredentialsLost \/ CredentialsRestored
          PROVE  TypeOK'
      <3>1. budget' \in Nat
        BY <2>4, FaultType DEF CloseGate, OpenGate, InfrastructureReady,
             PlacementChanged, CredentialsLost, CredentialsRestored, TypeOK
      <3>2. cluster' \in [gate : Gates, infraReady : BOOLEAN,
                          fds : SUBSET Hosts, creds : BOOLEAN]
        <4>1. CASE CloseGate \/ OpenGate
          BY <4>1, ConstantsAssumption DEF CloseGate, OpenGate, TypeOK
        <4>2. CASE InfrastructureReady
          <5>1. PICK S \in SUBSET Hosts :
                    cluster' = [cluster EXCEPT !.infraReady = TRUE, !.fds = S]
            BY <4>2 DEF InfrastructureReady
          <5>2. QED
            BY <5>1 DEF TypeOK
        <4>5. CASE PlacementChanged
          <5>1. PICK S \in SUBSET Hosts : cluster' = [cluster EXCEPT !.fds = S]
            BY <4>5 DEF PlacementChanged
          <5>2. QED
            BY <5>1 DEF TypeOK
        <4>3. CASE CredentialsLost \/ CredentialsRestored
          BY <4>3 DEF CredentialsLost, CredentialsRestored, TypeOK
        <4>4. QED
          BY <2>4, <4>1, <4>2, <4>3, <4>5
      <3>3. queue' \subseteq Machines
        BY <2>4 DEF CloseGate, OpenGate, InfrastructureReady, PlacementChanged,
                    CredentialsLost, CredentialsRestored, Watched, TypeOK
      <3>4. QED
        BY <2>4, <3>1, <3>2, <3>3
           DEF CloseGate, OpenGate, InfrastructureReady, PlacementChanged,
               CredentialsLost, CredentialsRestored, TypeOK
    <2>5. QED
      BY <1>3, <2>1, <2>2, <2>3, <2>4, <2>6 DEF Environment
  <1>4. CASE Flintlock
    <2>1. budget' \in Nat
      BY <1>4, FaultType DEF Flintlock, VMStarts, VMRemoved, VMFails,
                             VMDeletedByOperator, TypeOK
    <2>2. /\ \E u \in UIDs, to \in KnownStates \cup {"REMOVED"} :
                vms' = [vms EXCEPT ![u].state = to]
          /\ UNCHANGED <<api, cache, queue, scope, last, cluster, bootstrap>>
      BY <1>4 DEF Flintlock, VMStarts, VMRemoved, VMFails, VMDeletedByOperator,
                  VMMoves, KnownStates, LiveStates
    <2>3. QED
      BY <2>1, <2>2 DEF TypeOK, VMs, ScopeTyped, TypedScope, KnownVM
  <1>5. CASE UNCHANGED vars
    BY <1>5 DEF vars, TypeOK, ScopeTyped, TypedScope, KnownVM
  <1>6. QED
    BY <1>1, <1>2, <1>3, <1>4, <1>5

LEMMA NextTypeInv == TypeInv /\ [Next]_vars => TypeInv'
  BY EntryTyped, GetTyped, CreateTyped, DeleteTyped, PatchTyped, PatchStatusTyped,
     OtherTyped
     DEF Next, Reconcile

\* The state of the controller, the API server, the cache and the hosts always
\* has its type: in particular SetProviderID only ever writes a host the
\* failure domain resolved to and a UID a host handed out.
THEOREM TypeCorrect == Spec => []TypeOK
  <1>1. TypeInv => TypeOK
    BY DEF TypeInv
  <1>2. QED
    BY <1>1, InitTypeInv, NextTypeInv, PTL DEF Spec

-----------------------------------------------------------------------------
(* SafetyInv is inductive, and what follows from it.                       *)

IInv == TypeInv /\ SafetyInv

\* A microVM some machine owns keeps its owner and its host.
OwnershipKept ==
    \A u \in UIDs : vms[u].owner # NoMachine =>
        vms'[u].owner = vms[u].owner /\ vms'[u].host = vms[u].host

\* The stored object may disappear, but never loses what the copies had seen.
Evolves(m) ==
    api'[m].exists => /\ api[m].exists
                      /\ api[m].deleting => api'[m].deleting
                      /\ api[m].finalizer => api'[m].finalizer
                      /\ api[m].providerID # NoID => api'[m].providerID # NoID

-----------------------------------------------------------------------------
(* How the parts of the invariant react to changes of api and vms.         *)

LEMMA OwnsKept ==
    ASSUME OwnershipKept, NEW m \in Machines, NEW id \in ProviderIDs \cup {NoID},
           Owns(m, id)
    PROVE  Owns(m, id)'
  BY SentinelAssumption DEF OwnershipKept, Owns, ProviderIDs

LEMMA PrecedesKept ==
    ASSUME NEW m \in Machines, Evolves(m), NEW old, Precedes(old, m)
    PROVE  Precedes(old, m)'
  BY DEF Evolves, Precedes

LEMMA ProviderIDType ==
    ASSUME NEW o \in Objects
    PROVE  o.providerID \in ProviderIDs \cup {NoID}
  BY DEF Objects

\* A machine nothing of which changes, while other microVMs come and go.
LEMMA Frame ==
    ASSUME IInv, NEW m \in Machines, OwnershipKept,
           api'[m] = api[m], cache'[m] = cache[m], scope'[m] = scope[m]
    PROVE  StoreOK(m)' /\ ScopeOK(m, scope[m])'
  <1> USE DEF IInv, TypeInv, SafetyInv
  <1>1. /\ api[m] \in Objects /\ cache[m] \in Objects
        /\ scope[m] \in Scopes /\ TypedScope(scope[m])
    BY DEF TypeOK, ScopeTyped
  <1>2. scope[m].obj \in Objects
    BY <1>1, ScopeOperators
  <1>3. StoreOK(m) /\ ScopeOK(m, scope[m])
    OBVIOUS
  <1>4. /\ Owns(m, api[m].providerID)' /\ Owns(m, cache[m].providerID)'
        /\ scope[m].pc # "Idle" => Owns(m, scope[m].obj.providerID)'
    <2>1. Owns(m, api[m].providerID) /\ Owns(m, cache[m].providerID)
      BY <1>3 DEF StoreOK
    <2>2. scope[m].pc # "Idle" => Owns(m, scope[m].obj.providerID)
      BY <1>3 DEF ScopeOK, ScopeCore
    <2>3. QED
      BY <1>1, <1>2, <2>1, <2>2, ProviderIDType, SentinelAssumption
         DEF OwnershipKept, Owns, ProviderIDs
  <1>5. StoreOK(m)'
    BY <1>3, <1>4 DEF StoreOK, Precedes, Guarded
  <1>6. scope[m].pc # "Idle" => ScopeCore(m, scope[m])'
    BY <1>3, <1>4 DEF ScopeOK, ScopeCore, Precedes, Guarded
  <1>7. scope[m].pc # "Idle" => ScopeCall(m, scope[m])'
    <2>1. scope[m].pc = "PatchFinalizer" /\ KnownVM(scope[m]) =>
             vms'[scope[m].uid].owner = m /\ vms'[scope[m].uid].host = scope[m].fd
      BY <1>1, <1>3, SentinelAssumption
         DEF ScopeOK, ScopeCall, TypedScope, OwnershipKept
    <2>2. QED
      BY <1>3, <2>1 DEF ScopeOK, ScopeCall, KnownVM
  <1>8. QED
    BY <1>5, <1>6, <1>7 DEF ScopeOK

\* One machine takes a step; it is enough to look at that machine.
LEMMA OneMachine ==
    ASSUME IInv, NEW m \in Machines, OwnershipKept, VMInv',
           \A n \in Machines \ {m} : /\ api'[n] = api[n] /\ cache'[n] = cache[n]
                                     /\ scope'[n] = scope[n],
           StoreOK(m)', ScopeOK(m, scope[m])'
    PROVE  SafetyInv'
  <1>1. ASSUME NEW n \in Machines PROVE StoreOK(n)' /\ ScopeOK(n, scope[n])'
    <2>1. CASE n = m
      BY <2>1
    <2>2. CASE n # m
      BY <2>2, Frame
    <2>3. QED
      BY <2>1, <2>2
  <1>2. QED
    BY <1>1 DEF SafetyInv

LEMMA UnchangedVMs ==
    ASSUME IInv, UNCHANGED vms
    PROVE  OwnershipKept /\ VMInv'
  BY DEF OwnershipKept, VMInv, IInv, SafetyInv

\* A step that only moves one machine's scope on.
LEMMA ScopeStep ==
    ASSUME IInv, NEW m \in Machines, UNCHANGED <<api, cache, vms>>,
           NEW t, Goto(m, t), ScopeOK(m, t)
    PROVE  SafetyInv'
  <1>1. scope'[m] = t /\ \A n \in Machines \ {m} : scope'[n] = scope[n]
    BY DEF Goto, IInv, TypeInv, TypeOK
  <1>2. StoreOK(m)'
    BY DEF IInv, SafetyInv, StoreOK, Precedes, Guarded, Owns
  <1>3. ScopeOK(m, scope[m])'
    BY <1>1 DEF ScopeOK, ScopeCore, ScopeCall, Precedes, Guarded, Owns, KnownVM
  <1>4. QED
    BY <1>1, <1>2, <1>3, UnchangedVMs, OneMachine

\* Returning keeps the copies and leaves no further call but the deferred Patch.
LEMMA ReturnOK ==
    ASSUME NEW m \in Machines, NEW s \in Scopes, ScopeCore(m, s), NEW r
    PROVE  ScopeOK(m, Return(s, r))
  <1>1. /\ Return(s, r).pc = "Deferred"
        /\ Return(s, r).obj = s.obj /\ Return(s, r).before = s.before
    BY DEF Return, Scopes
  <1>2. ScopeCore(m, Return(s, r))
    BY <1>1 DEF ScopeCore
  <1>3. QED
    BY <1>1, <1>2 DEF ScopeOK, ScopeCall, DeletePCs, NormalPCs

\* A fresh copy of the cache is a sound start for a reconcile.
LEMMA NewScopeOK ==
    ASSUME IInv, NEW m \in Machines, cache[m].exists
    PROVE  ScopeCore(m, NewMachineScope(cache[m]))
  <1>1. /\ NewMachineScope(cache[m]).obj = cache[m]
        /\ NewMachineScope(cache[m]).before = cache[m]
    BY DEF NewMachineScope, IdleScope
  <1>2. StoreOK(m)
    BY DEF IInv, SafetyInv
  <1>3. QED
    BY <1>1, <1>2 DEF StoreOK, ScopeCore, Precedes

-----------------------------------------------------------------------------
(* The invariant, action by action.                                        *)

LEMMA InitSafe == Init => SafetyInv
  <1> SUFFICES ASSUME Init PROVE SafetyInv
    OBVIOUS
  <1>1. VMInv
    BY DEF Init, VMInv
  <1>2. ASSUME NEW m \in Machines PROVE StoreOK(m) /\ ScopeOK(m, scope[m])
    BY DEF Init, StoreOK, ScopeOK, Precedes, Guarded, Owns, NewObject, IdleScope
  <1>3. QED
    BY <1>1, <1>2 DEF SafetyInv

LEMMA EntrySafe ==
    ASSUME IInv, NEW m \in Machines,
           \/ ReconcileIgnored(m) \/ ReconcileFailed(m)
           \/ ReconcileDelete(m) \/ ReconcileNormal(m)
    PROVE  SafetyInv'
  <1>1. CASE ReconcileIgnored(m) \/ ReconcileFailed(m)
    <2>1. UNCHANGED <<api, cache, scope, vms>>
      BY <1>1 DEF ReconcileIgnored, ReconcileFailed
    <2>2. StoreOK(m)' /\ ScopeOK(m, scope[m])'
      BY <2>1, UnchangedVMs, Frame
    <2>3. QED
      BY <2>1, <2>2, UnchangedVMs, OneMachine
  <1> DEFINE s == NewMachineScope(cache[m])
  <1>2. ASSUME Enter(m)
        PROVE  /\ s \in Scopes /\ ScopeCore(m, s) /\ ~KnownVM(s)
               /\ s.obj = cache[m] /\ s.before = cache[m]
               /\ UNCHANGED <<api, cache, vms>>
    <2>1. cache[m].exists /\ cache[m] \in Objects
      BY <1>2 DEF Enter, IInv, TypeInv, TypeOK
    <2>2. QED
      BY <1>2, <2>1, NewScopeType, NewScopeOK
         DEF Enter, NewMachineScope, IdleScope, KnownVM
  <1> HIDE DEF s
  <1>3. CASE ReconcileDelete(m)
    <2>1. Enter(m) /\ cache[m].deleting
      BY <1>3 DEF ReconcileDelete
    <2>2. \A r : ScopeOK(m, Return(s, r))
      BY <1>2, <2>1, ReturnOK
    <2>3. ASSUME NEW h PROVE ScopeOK(m, [s EXCEPT !.pc = "GetDelete", !.fd = h])
      <3> DEFINE t == [s EXCEPT !.pc = "GetDelete", !.fd = h]
      <3>1. t.pc = "GetDelete" /\ t.obj = s.obj /\ t.before = s.before
        BY <1>2, <2>1 DEF Scopes
      <3> HIDE DEF t
      <3>2. ScopeCore(m, t)
        BY <1>2, <2>1, <3>1 DEF ScopeCore
      <3>3. ScopeCall(m, t)
        BY <1>2, <2>1, <3>1 DEF ScopeCall, NormalPCs
      <3>4. QED
        BY <3>2, <3>3 DEF ScopeOK, t
    <2>4. \E t : Goto(m, t) /\ ScopeOK(m, t)
      BY <1>3, <2>2, <2>3 DEF ReconcileDelete, s
    <2>5. QED
      BY <1>2, <2>1, <2>4, ScopeStep
  <1>4. CASE ReconcileNormal(m)
    <2>1. Enter(m) /\ ~cache[m].deleting
      BY <1>4 DEF ReconcileNormal
    <2>2. \A r : ScopeOK(m, Return(s, r))
      BY <1>2, <2>1, ReturnOK
    <2>3. ASSUME NEW h PROVE ScopeOK(m, [s EXCEPT !.pc = "GetNormal", !.fd = h])
      <3> DEFINE t == [s EXCEPT !.pc = "GetNormal", !.fd = h]
      <3>1. t.pc = "GetNormal" /\ t.obj = s.obj /\ t.before = s.before
        BY <1>2, <2>1 DEF Scopes
      <3> HIDE DEF t
      <3>2. ScopeCore(m, t)
        BY <1>2, <2>1, <3>1 DEF ScopeCore
      <3>3. ScopeCall(m, t)
        BY <1>2, <2>1, <3>1 DEF ScopeCall, DeletePCs
      <3>4. QED
        BY <3>2, <3>3 DEF ScopeOK, t
    <2>4. ASSUME NEW c
          PROVE  ScopeOK(m, Return([s EXCEPT !.obj.cond = c], "waiting"))
      <3> DEFINE w == [s EXCEPT !.obj.cond = c]
                 t == Return(w, "waiting")
      <3>1. /\ w.before = s.before /\ w.obj.deleting = s.obj.deleting
            /\ w.obj.providerID = s.obj.providerID /\ w.obj.ready = s.obj.ready
            /\ w.obj.finalizer = s.obj.finalizer
        BY <1>2, <2>1 DEF Scopes, Objects
      <3>2. t.pc = "Deferred" /\ t.before = w.before /\ t.obj = w.obj
        BY <1>2, <2>1 DEF Return, Scopes
      <3> HIDE DEF t, w
      <3>3. ScopeCore(m, t)
        BY <1>2, <2>1, <3>1, <3>2 DEF ScopeCore
      <3>4. QED
        BY <3>2, <3>3 DEF ScopeOK, ScopeCall, DeletePCs, NormalPCs, t, w
    <2>5. ASSUME NEW h
          PROVE  ScopeOK(m, StartPatch([s EXCEPT !.fd = h, !.obj.finalizer = TRUE],
                                       "PatchFinalizer"))
      <3> DEFINE t == StartPatch([s EXCEPT !.fd = h, !.obj.finalizer = TRUE],
                                 "PatchFinalizer")
      <3>1. /\ t.pc = "PatchFinalizer" /\ t.part = "conditions"
            /\ t.before = s.before /\ t.obj.deleting = s.obj.deleting
            /\ t.obj.providerID = s.obj.providerID /\ t.obj.ready = s.obj.ready
            /\ t.obj.finalizer = TRUE /\ t.state = s.state
        BY <1>2, <2>1 DEF StartPatch, Scopes, Objects
      <3> HIDE DEF t
      <3>2. ScopeCore(m, t)
        BY <1>2, <2>1, <3>1 DEF ScopeCore
      <3>3. ScopeCall(m, t)
        BY <1>2, <2>1, <3>1 DEF ScopeCall, DeletePCs, KnownVM
      <3>4. QED
        BY <3>2, <3>3 DEF ScopeOK, t
    <2>6. \E t : Goto(m, t) /\ ScopeOK(m, t)
      BY <1>4, <2>2, <2>3, <2>4, <2>5 DEF ReconcileNormal, s
    <2>7. QED
      BY <1>2, <2>1, <2>6, ScopeStep
  <1>5. QED
    BY <1>1, <1>3, <1>4

\* The scope of a running reconcile, as every later action finds it.
LEMMA RunningScope ==
    ASSUME IInv, NEW m \in Machines, scope[m].pc # "Idle"
    PROVE  /\ scope[m] \in Scopes /\ TypedScope(scope[m])
           /\ scope[m].obj \in Objects /\ scope[m].before \in Objects
           /\ ScopeCore(m, scope[m]) /\ ScopeCall(m, scope[m])
           /\ StoreOK(m) /\ api[m] \in Objects
  <1>1. scope[m] \in Scopes /\ TypedScope(scope[m]) /\ api[m] \in Objects
    BY DEF IInv, TypeInv, TypeOK, ScopeTyped
  <1>2. QED
    BY <1>1, ScopeOperators DEF IInv, SafetyInv, ScopeOK

LEMMA GetNormalSafe ==
    ASSUME IInv, NEW m \in Machines, GetNormal(m)
    PROVE  SafetyInv'
  <1> DEFINE s == scope[m]
             guarded == StartPatch([s EXCEPT !.obj.finalizer = TRUE], "PatchFinalizer")
             uid == GetInstanceID(s.obj)
             found == [guarded EXCEPT !.uid = uid, !.state = vms[uid].state]
  <1>1. s.pc = "GetNormal" /\ UNCHANGED <<api, cache, vms>>
    BY DEF GetNormal
  <1>2. /\ s \in Scopes /\ TypedScope(s) /\ s.obj \in Objects
        /\ ScopeCore(m, s) /\ ScopeCall(m, s)
    BY <1>1, RunningScope
  <1>3. ~s.obj.deleting /\ ~KnownVM(s)
    BY <1>1, <1>2 DEF ScopeCall, NormalPCs, TypedScope
  <1>4. /\ guarded.pc = "PatchFinalizer" /\ guarded.part = "conditions"
        /\ guarded.before = s.before /\ guarded.obj.deleting = s.obj.deleting
        /\ guarded.obj.providerID = s.obj.providerID
        /\ guarded.obj.ready = s.obj.ready
        /\ guarded.obj.finalizer = TRUE /\ guarded.state = s.state
        /\ guarded.fd = s.fd
    BY <1>2 DEF StartPatch, Scopes, Objects
  <1>5. /\ found.pc = "PatchFinalizer" /\ found.part = "conditions"
        /\ found.before = s.before /\ found.obj.deleting = s.obj.deleting
        /\ found.obj.providerID = s.obj.providerID
        /\ found.obj.ready = s.obj.ready /\ found.obj.finalizer = TRUE
        /\ found.fd = s.fd /\ found.uid = uid
    BY <1>2 DEF StartPatch, Scopes, Objects
  <1> HIDE DEF s, guarded, found
  <1>6. ScopeOK(m, Return(s, "error"))
    BY <1>2, ReturnOK
  <1>7. ScopeOK(m, guarded)
    <2>1. ScopeCore(m, guarded)
      BY <1>2, <1>3, <1>4 DEF ScopeCore
    <2>2. ScopeCall(m, guarded)
      BY <1>3, <1>4 DEF ScopeCall, DeletePCs, KnownVM
    <2>3. QED
      BY <2>1, <2>2 DEF ScopeOK
  <1>8. ASSUME GetFound(s) PROVE ScopeOK(m, found)
    <2>1. uid \in UIDs /\ vms[uid].host = s.fd
      BY <1>8, PresentType DEF GetFound
    <2>2. vms[uid].owner = m
      BY <1>2, <2>1, SentinelAssumption DEF ScopeCore, Owns, GetInstanceID
    <2>3. ScopeCore(m, found)
      BY <1>2, <1>3, <1>5 DEF ScopeCore
    <2>4. ScopeCall(m, found)
      BY <1>3, <1>5, <2>1, <2>2 DEF ScopeCall, DeletePCs
    <2>5. QED
      BY <2>3, <2>4 DEF ScopeOK
  <1>9. \E t : Goto(m, t) /\ ScopeOK(m, t)
    BY <1>6, <1>7, <1>8 DEF GetNormal, s, guarded, found
  <1>10. QED
    BY <1>1, <1>9, ScopeStep

LEMMA GetDeleteSafe ==
    ASSUME IInv, NEW m \in Machines, GetDelete(m)
    PROVE  SafetyInv'
  <1> DEFINE s == scope[m]
             uid == GetInstanceID(s.obj)
             released == Return([s EXCEPT !.obj.finalizer = FALSE], "done")
             marked == StartPatch([s EXCEPT !.obj = SetNotReady(@, "Deleting"),
                                            !.uid = uid, !.state = vms[uid].state],
                                  "PatchNotReady")
  <1>1. s.pc = "GetDelete" /\ UNCHANGED <<api, cache, vms>>
    BY DEF GetDelete
  <1>2. s \in Scopes /\ s.obj \in Objects /\ ScopeCore(m, s) /\ ScopeCall(m, s)
    BY <1>1, RunningScope
  <1>3. s.obj.deleting
    BY <1>1, <1>2 DEF ScopeCall, DeletePCs
  <1>4. /\ released.pc = "Deferred"
        /\ released.before = s.before /\ released.obj.deleting = s.obj.deleting
        /\ released.obj.providerID = s.obj.providerID
        /\ released.obj.ready = s.obj.ready
    BY <1>2 DEF Return, Scopes, Objects
  <1>5. /\ marked.pc = "PatchNotReady"
        /\ marked.before = s.before /\ marked.obj.deleting = s.obj.deleting
        /\ marked.obj.providerID = s.obj.providerID /\ marked.obj.ready = FALSE
    BY <1>2 DEF StartPatch, SetNotReady, Scopes, Objects
  <1> HIDE DEF s, released, marked
  <1>6. ScopeOK(m, Return(s, "error"))
    BY <1>2, ReturnOK
  <1>7. ScopeOK(m, released)
    <2>1. ScopeCore(m, released)
      BY <1>2, <1>3, <1>4 DEF ScopeCore
    <2>2. QED
      BY <1>4, <2>1 DEF ScopeOK, ScopeCall, DeletePCs, NormalPCs
  <1>8. ScopeOK(m, marked)
    <2>1. ScopeCore(m, marked)
      BY <1>2, <1>3, <1>5 DEF ScopeCore
    <2>2. QED
      BY <1>3, <1>5, <2>1 DEF ScopeOK, ScopeCall, NormalPCs
  <1>9. \E t : Goto(m, t) /\ ScopeOK(m, t)
    BY <1>6, <1>7, <1>8 DEF GetDelete, s, released, marked
  <1>10. QED
    BY <1>1, <1>9, ScopeStep

\* A step that changes one machine's scope and the microVMs, but no object.
LEMMA HostStep ==
    ASSUME IInv, NEW m \in Machines, UNCHANGED <<api, cache>>,
           OwnershipKept, VMInv', NEW t, Goto(m, t), ScopeOK(m, t)'
    PROVE  SafetyInv'
  <1>1. scope'[m] = t /\ \A n \in Machines \ {m} : scope'[n] = scope[n]
    BY DEF Goto, IInv, TypeInv, TypeOK
  <1>2. StoreOK(m)'
    <2>1. api[m] \in Objects /\ cache[m] \in Objects /\ StoreOK(m)
      BY DEF IInv, TypeInv, TypeOK, SafetyInv
    <2>2. Owns(m, api[m].providerID)' /\ Owns(m, cache[m].providerID)'
      BY <2>1, ProviderIDType, SentinelAssumption
         DEF StoreOK, Owns, OwnershipKept, ProviderIDs
    <2>3. QED
      BY <2>1, <2>2 DEF StoreOK, Precedes, Guarded
  <1>3. ScopeOK(m, scope[m])'
    BY <1>1 DEF ScopeOK, ScopeCore, ScopeCall, Precedes, Guarded, Owns, KnownVM
  <1>4. QED
    BY <1>1, <1>2, <1>3, OneMachine

\* The core of a scope survives steps of the hosts.
LEMMA CoreKept ==
    ASSUME NEW m \in Machines, UNCHANGED <<api, cache>>, OwnershipKept,
           NEW s, s.obj \in Objects, ScopeCore(m, s)
    PROVE  ScopeCore(m, s)'
  <1>1. Owns(m, s.obj.providerID)'
    BY ProviderIDType, SentinelAssumption
       DEF ScopeCore, Owns, OwnershipKept, ProviderIDs
  <1>2. QED
    BY <1>1 DEF ScopeCore, Precedes, Guarded

\* ReturnOK in the state after the step.
LEMMA ReturnOKAfter ==
    ASSUME NEW m \in Machines, NEW s \in Scopes, ScopeCore(m, s)', NEW r
    PROVE  ScopeOK(m, Return(s, r))'
  <1>1. /\ Return(s, r).pc = "Deferred"
        /\ Return(s, r).obj = s.obj /\ Return(s, r).before = s.before
    BY DEF Return, Scopes
  <1>2. ScopeCore(m, Return(s, r))'
    BY <1>1 DEF ScopeCore
  <1>3. QED
    BY <1>1, <1>2 DEF ScopeOK, ScopeCall, DeletePCs, NormalPCs

LEMMA CreateSafe ==
    ASSUME IInv, NEW m \in Machines, Create(m)
    PROVE  SafetyInv'
  <1>1. PICK s : s = scope[m]
    OBVIOUS
  <1> DEFINE labelled == [s EXCEPT !.obj = GetLabels(m, @)]
             known(u) == [labelled EXCEPT !.uid = u, !.state = "PENDING",
                                          !.obj = SetProviderID(@, s.fd, u)]
  <1>2. s.pc = "Create" /\ UNCHANGED <<api, cache>>
    BY <1>1 DEF Create
  <1>3. /\ s \in Scopes /\ s.obj \in Objects /\ ScopeCore(m, s) /\ ScopeCall(m, s)
        /\ StoreOK(m)
    BY <1>1, <1>2, RunningScope
  <1>4. OwnershipKept /\ VMInv'
    <2>1. ASSUME NEW u \in UIDs, VMCreated(m, u) PROVE OwnershipKept /\ VMInv'
      BY <2>1 DEF VMCreated, OwnershipKept, VMInv, IInv, TypeInv, TypeOK, SafetyInv
    <2>2. QED
      BY <2>1, UnchangedVMs DEF Create
  <1>5. /\ labelled \in Scopes /\ labelled.obj \in Objects
        /\ labelled.before = s.before /\ labelled.obj.deleting = s.obj.deleting
        /\ labelled.obj.providerID = s.obj.providerID
        /\ labelled.obj.ready = s.obj.ready
        /\ labelled.obj.finalizer = s.obj.finalizer
    <2>1. GetLabels(m, s.obj) \in Objects
      BY <1>3, ObjectOperators
    <2>2. labelled \in Scopes /\ labelled.obj = GetLabels(m, s.obj)
          /\ labelled.before = s.before
      BY <1>3, <2>1 DEF Scopes
    <2>3. QED
      BY <1>3, <2>1, <2>2 DEF GetLabels, Objects
  <1> HIDE DEF labelled
  <1>6. ScopeCore(m, s)' /\ ScopeCore(m, labelled)'
    <2>1. ScopeCore(m, labelled)
      BY <1>3, <1>5 DEF ScopeCore
    <2>2. QED
      BY <1>2, <1>3, <1>4, <1>5, <2>1, CoreKept
  <1>7. ScopeOK(m, Return(s, "error"))' /\ ScopeOK(m, Return(labelled, "error"))'
    BY <1>3, <1>5, <1>6, ReturnOKAfter
  <1>8. ASSUME NEW u \in UIDs, VMCreated(m, u)
        PROVE  ScopeOK(m, StartPatch(known(u), "PatchProviderID"))'
    <2> DEFINE t == StartPatch(known(u), "PatchProviderID")
               id == [host |-> s.fd, uid |-> u]
    <2>1. /\ t.pc = "PatchProviderID" /\ t.part = "conditions"
          /\ t.before = s.before /\ t.obj.deleting = s.obj.deleting
          /\ t.obj.providerID = id /\ t.obj.ready = s.obj.ready
          /\ t.obj.finalizer = s.obj.finalizer
      BY <1>5 DEF StartPatch, SetProviderID, Scopes, Objects
    <2>2. id # NoID /\ s.fd \in Hosts
      <3>1. s.fd \in Hosts
        BY <1>1, <1>2, RunningScope DEF TypedScope
      <3>2. QED
        BY <3>1, SentinelAssumption DEF ProviderIDs
    <2>3. Owns(m, id)'
      BY <1>1, <1>8 DEF VMCreated, Owns, IInv, TypeInv, TypeOK
    <2>4. /\ ~s.obj.deleting /\ s.obj.finalizer /\ api[m].exists /\ api[m].finalizer
      BY <1>2, <1>3 DEF ScopeCall, NormalPCs
    <2> HIDE DEF t
    <2>5. s.obj.ready => api[m].finalizer /\ api[m].providerID # NoID
      BY <1>3, <2>4 DEF ScopeCore
    <2>6. ScopeCore(m, t)'
      BY <1>2, <1>6, <2>1, <2>2, <2>3, <2>4, <2>5 DEF ScopeCore, Precedes, Guarded
    <2>7. ScopeCall(m, t)'
      BY <1>2, <2>1, <2>2, <2>4 DEF ScopeCall, DeletePCs
    <2>8. QED
      BY <2>6, <2>7 DEF ScopeOK, t
  <1>9. \E t : Goto(m, t) /\ ScopeOK(m, t)'
    BY <1>1, <1>7, <1>8 DEF Create, labelled
  <1>10. QED
    BY <1>2, <1>4, <1>9, HostStep

LEMMA DeleteSafe ==
    ASSUME IInv, NEW m \in Machines, Delete(m)
    PROVE  SafetyInv'
  <1>1. PICK s : s = scope[m]
    OBVIOUS
  <1> DEFINE failed == [s EXCEPT !.obj = SetNotReady(@, "DeleteFailed")]
  <1>2. s.pc = "Delete" /\ UNCHANGED <<api, cache>>
    BY <1>1 DEF Delete
  <1>3. s \in Scopes /\ s.obj \in Objects /\ ScopeCore(m, s)
    BY <1>1, <1>2, RunningScope
  <1>4. OwnershipKept /\ VMInv'
    BY DEF Delete, VMDeleting, OwnershipKept, VMInv, IInv, TypeInv, TypeOK, VMs,
           SafetyInv
  <1>5. /\ failed \in Scopes /\ failed.obj \in Objects
        /\ failed.before = s.before /\ failed.obj.deleting = s.obj.deleting
        /\ failed.obj.providerID = s.obj.providerID /\ failed.obj.ready = FALSE
        /\ failed.obj.finalizer = s.obj.finalizer
    <2>1. SetNotReady(s.obj, "DeleteFailed") \in Objects
      BY <1>3, ObjectOperators DEF Reasons
    <2>2. failed \in Scopes /\ failed.obj = SetNotReady(s.obj, "DeleteFailed")
          /\ failed.before = s.before
      BY <1>3, <2>1 DEF Scopes
    <2>3. QED
      BY <1>3, <2>1, <2>2 DEF SetNotReady, Objects
  <1> HIDE DEF failed
  <1>6. ScopeCore(m, s)' /\ ScopeCore(m, failed)'
    <2>1. ScopeCore(m, failed)
      BY <1>3, <1>5 DEF ScopeCore
    <2>2. QED
      BY <1>2, <1>3, <1>4, <1>5, <2>1, CoreKept
  <1>7. ScopeOK(m, Return(s, "requeue"))' /\ ScopeOK(m, Return(failed, "error"))'
    BY <1>3, <1>5, <1>6, ReturnOKAfter
  <1>8. \E t : Goto(m, t) /\ ScopeOK(m, t)'
    BY <1>1, <1>7 DEF Delete, failed
  <1>9. QED
    BY <1>2, <1>4, <1>8, HostStep

-----------------------------------------------------------------------------
(* The requests of a Patch: the only steps of a reconcile that write the   *)
(* stored object.                                                          *)

\* A step that changes one machine's stored object and its scope.
LEMMA RequestStep ==
    ASSUME IInv, NEW m \in Machines, UNCHANGED <<cache, vms>>,
           \A n \in Machines \ {m} : api'[n] = api[n],
           NEW t, Goto(m, t), StoreOK(m)', ScopeOK(m, t)'
    PROVE  SafetyInv'
  <1>1. scope'[m] = t /\ \A n \in Machines \ {m} : scope'[n] = scope[n]
    BY DEF Goto, IInv, TypeInv, TypeOK
  <1>2. ScopeOK(m, scope[m])'
    BY <1>1 DEF ScopeOK, ScopeCore, ScopeCall, Precedes, Guarded, Owns, KnownVM
  <1>3. QED
    BY <1>1, <1>2, UnchangedVMs, OneMachine

\* What a request may do to the stored object: it only ever adds to it, keeps
\* what ReadyNamesOwnVM needs, and removes the object for a deleted machine only.
Sound(m, s) ==
    /\ Evolves(m)
    /\ Owns(m, api'[m].providerID)
    /\ api'[m].ready => api'[m].finalizer /\ api'[m].providerID # NoID
    /\ api'[m].deleting => api'[m].finalizer
    /\ api[m].exists /\ ~api'[m].exists => s.obj.deleting

LEMMA UnchangedSound ==
    ASSUME NEW m \in Machines, StoreOK(m), NEW s, api'[m] = api[m]
    PROVE  Sound(m, s)
  BY DEF Sound, Evolves, StoreOK

LEMMA GoneSound ==
    ASSUME NEW m \in Machines, NEW s, s.obj.deleting, api'[m] = GoneObject
    PROVE  Sound(m, s)
  BY DEF Sound, Evolves, Owns, GoneObject, NewObject

LEMMA ConditionsSound ==
    ASSUME NEW m \in Machines, NEW s, StoreOK(m), api[m] \in Objects,
           api'[m] = Stored(MergeConditions(s.before, s.obj, api[m]))
    PROVE  Sound(m, s)
  <1> DEFINE a == MergeConditions(s.before, s.obj, api[m])
  <1>1. /\ a.exists = api[m].exists /\ a.deleting = api[m].deleting
        /\ a.finalizer = api[m].finalizer /\ a.providerID = api[m].providerID
        /\ a.ready = api[m].ready
    BY DEF MergeConditions, Objects
  <1> HIDE DEF a
  <1>2. api'[m] = a
    BY <1>1 DEF Stored, StoreOK, a
  <1>3. QED
    BY <1>1, <1>2 DEF Sound, Evolves, StoreOK

LEMMA StatusSound ==
    ASSUME NEW m \in Machines, NEW s, StoreOK(m), api[m] \in Objects,
           ScopeCore(m, s), api[m].exists,
           api'[m] = Stored(MergeStatus(s.before, s.obj, api[m]))
    PROVE  Sound(m, s)
  <1> DEFINE a == MergeStatus(s.before, s.obj, api[m])
  <1>1. /\ a.exists = api[m].exists /\ a.deleting = api[m].deleting
        /\ a.finalizer = api[m].finalizer /\ a.providerID = api[m].providerID
        /\ a.ready = Merge(s.before.ready, s.obj.ready, api[m].ready)
    BY DEF MergeStatus, Objects
  <1>2. a.ready => s.obj.ready \/ api[m].ready
    BY <1>1 DEF Merge
  <1> HIDE DEF a
  <1>3. api'[m] = a
    BY <1>1 DEF Stored, StoreOK, a
  <1>4. QED
    BY <1>1, <1>2, <1>3 DEF Sound, Evolves, StoreOK, ScopeCore

\* The request for metadata and spec.  It drops the finalizer only when the
\* scope's copy was being deleted, and then the object is gone.
LEMMA ObjectSound ==
    ASSUME NEW m \in Machines, NEW s, StoreOK(m), api[m] \in Objects,
           s.obj \in Objects, s.before \in Objects, ScopeCore(m, s), api[m].exists,
           api'[m] = Stored(MergeObject(s.before, s.obj, api[m]))
    PROVE  /\ Sound(m, s)
           /\ ~s.obj.deleting /\ s.obj.finalizer => api'[m].exists /\ api'[m].finalizer
           /\ ~s.obj.deleting /\ s.obj.providerID # NoID => api'[m].providerID # NoID
  <1> DEFINE a == MergeObject(s.before, s.obj, api[m])
  <1>1. /\ a.exists = api[m].exists /\ a.deleting = api[m].deleting
        /\ a.finalizer = Merge(s.before.finalizer, s.obj.finalizer, api[m].finalizer)
        /\ a.providerID = Merge(s.before.providerID, s.obj.providerID, api[m].providerID)
        /\ a.ready = api[m].ready
    BY DEF MergeObject, Objects
  <1> HIDE DEF a
  <1>2. /\ s.obj.finalizer \in BOOLEAN /\ s.before.finalizer \in BOOLEAN
        /\ a.finalizer \in BOOLEAN
    BY <1>1 DEF Objects, Merge
  <1>3. ~s.obj.deleting /\ s.obj.finalizer => a.finalizer
    BY <1>1, <1>2 DEF Merge, ScopeCore, Precedes
  <1>4. s.obj.providerID # NoID \/ api[m].providerID # NoID => a.providerID # NoID
    BY <1>1 DEF Merge, ScopeCore, Precedes
  <1>5. Owns(m, a.providerID)
    BY <1>1 DEF Merge, ScopeCore, StoreOK
  <1>6. api[m].finalizer => a.finalizer \/ (s.obj.deleting /\ api[m].deleting)
    BY <1>1, <1>2 DEF Merge, ScopeCore, Precedes
  <1>7. CASE a.deleting /\ ~a.finalizer
    <2>1. api'[m] = GoneObject
      BY <1>7 DEF Stored, a
    <2>2. s.obj.deleting
      BY <1>1, <1>6, <1>7 DEF StoreOK
    <2>3. QED
      BY <2>1, <2>2, GoneSound
  <1>8. CASE ~(a.deleting /\ ~a.finalizer)
    <2>1. api'[m] = a
      BY <1>8 DEF Stored, a
    <2>2. Evolves(m)
      BY <1>1, <1>4, <1>6, <1>8, <2>1 DEF Evolves
    <2>3. api'[m].ready => api'[m].finalizer /\ api'[m].providerID # NoID
      BY <1>1, <1>4, <1>6, <1>8, <2>1 DEF StoreOK
    <2>4. Sound(m, s)
      BY <1>1, <1>5, <1>8, <2>1, <2>2, <2>3 DEF Sound
    <2>5. QED
      BY <1>1, <1>3, <1>4, <2>1, <2>4
  <1>9. QED
    BY <1>7, <1>8

\* After a sound request the stored object and the scope's copies still fit.
LEMMA SoundKept ==
    ASSUME IInv, NEW m \in Machines, NEW s, UNCHANGED <<cache, vms>>,
           ScopeCore(m, s), Sound(m, s)
    PROVE  StoreOK(m)' /\ ScopeCore(m, s)'
  <1>1. StoreOK(m)
    BY DEF IInv, SafetyInv
  <1>2. Owns(m, api[m].providerID)' /\ Owns(m, cache[m].providerID)'
        /\ Owns(m, s.obj.providerID)'
    BY <1>1 DEF Sound, StoreOK, ScopeCore, Owns
  <1>3. Precedes(cache[m], m)' /\ Precedes(s.before, m)'
    BY <1>1 DEF Sound, Evolves, StoreOK, ScopeCore, Precedes
  <1>4. Guarded(cache[m], m)' /\ Guarded(s.before, m)'
    BY <1>1 DEF Sound, StoreOK, ScopeCore, Guarded
  <1>5. StoreOK(m)'
    BY <1>1, <1>2, <1>3, <1>4 DEF StoreOK, Sound
  <1>6. ScopeCore(m, s)'
    BY <1>1, <1>2, <1>3, <1>4 DEF ScopeCore, Sound, Evolves
  <1>7. QED
    BY <1>5, <1>6

\* A request changes one stored object only.
LEMMA RequestFrame ==
    ASSUME IInv, NEW m \in Machines, NEW a,
           Accepted(m, a) \/ Rejected(m) \/ UNCHANGED api
    PROVE  /\ \A n \in Machines \ {m} : api'[n] = api[n]
           /\ api'[m] = api[m] \/ (Accepted(m, a) /\ api'[m] = Stored(a))
  BY DEF Accepted, Rejected, IInv, TypeInv, TypeOK

LEMMA PatchConditionsSafe ==
    ASSUME IInv, NEW m \in Machines, PatchConditions(m)
    PROVE  SafetyInv'
  <1>1. PICK s : s = scope[m]
    OBVIOUS
  <1> DEFINE a == MergeConditions(s.before, s.obj, api[m])
             next == [s EXCEPT !.part = "object"]
             failed == [next EXCEPT !.patchErr = TRUE]
  <1>2. s.pc \in PatchPCs /\ s.part = "conditions" /\ UNCHANGED <<cache, vms>>
    BY <1>1 DEF PatchConditions
  <1>3. /\ s \in Scopes /\ s.pc # "Idle" /\ ScopeCore(m, s) /\ ScopeCall(m, s)
        /\ StoreOK(m) /\ api[m] \in Objects
    BY <1>1, <1>2, RunningScope DEF PatchPCs
  <1>4. Accepted(m, a) \/ Rejected(m) \/ UNCHANGED api
    BY <1>1 DEF PatchConditions, Conflict
  <1>5. /\ \A n \in Machines \ {m} : api'[n] = api[n]
        /\ api'[m] = api[m] \/ api'[m] = Stored(a)
    BY <1>4, RequestFrame
  <1>6. Sound(m, s)
    BY <1>3, <1>5, UnchangedSound, ConditionsSound
  <1>7. StoreOK(m)' /\ ScopeCore(m, s)'
    BY <1>2, <1>3, <1>6, SoundKept
  <1>8. \E t \in {next, failed} : Goto(m, t)
    BY <1>1 DEF PatchConditions
  <1>9. \A t \in {next, failed} :
           /\ t.pc = s.pc /\ t.obj = s.obj /\ t.before = s.before /\ t.fd = s.fd
           /\ t.uid = s.uid /\ t.state = s.state /\ t.part = "object"
    BY <1>3 DEF Scopes
  <1> HIDE DEF next, failed
  <1>10. ASSUME NEW t \in {next, failed} PROVE ScopeOK(m, t)'
    <2>1. ScopeCore(m, t)'
      BY <1>7, <1>9 DEF ScopeCore
    <2>2. s.pc \in NormalPCs => (api[m].exists => api'[m].exists)
      BY <1>3, <1>6 DEF Sound, ScopeCall
    <2>3. ScopeCall(m, t)'
      BY <1>2, <1>3, <1>6, <1>9, <2>2
         DEF ScopeCall, Sound, Evolves, KnownVM, NormalPCs, PatchPCs
    <2>4. QED
      BY <2>1, <2>3 DEF ScopeOK
  <1>11. QED
    BY <1>2, <1>5, <1>7, <1>8, <1>10, RequestStep

LEMMA PatchObjectSafe ==
    ASSUME IInv, NEW m \in Machines, PatchObject(m)
    PROVE  SafetyInv'
  <1>1. PICK s : s = scope[m]
    OBVIOUS
  <1> DEFINE a == MergeObject(s.before, s.obj, api[m])
             next == [s EXCEPT !.part = "status"]
             failed == [next EXCEPT !.patchErr = TRUE]
  <1>2. s.pc \in PatchPCs /\ UNCHANGED <<cache, vms>>
    BY <1>1 DEF PatchObject
  <1>3. /\ s \in Scopes /\ s.pc # "Idle" /\ ScopeCore(m, s) /\ ScopeCall(m, s)
        /\ StoreOK(m) /\ api[m] \in Objects /\ s.obj \in Objects
        /\ s.before \in Objects
    BY <1>1, <1>2, RunningScope DEF PatchPCs
  <1>4. /\ \A n \in Machines \ {m} : api'[n] = api[n]
        /\ \/ api'[m] = api[m]
           \/ api[m].exists /\ api'[m] = Stored(a)
    <2>1. \/ Accepted(m, a) /\ api[m].exists
          \/ Rejected(m) \/ UNCHANGED api
      BY <1>1 DEF PatchObject
    <2>2. QED
      BY <2>1, RequestFrame DEF Accepted, Rejected
  <1>5. Sound(m, s)
    BY <1>3, <1>4, UnchangedSound, ObjectSound
  <1>6. StoreOK(m)' /\ ScopeCore(m, s)'
    BY <1>2, <1>3, <1>5, SoundKept
  <1>7. /\ next.pc = s.pc /\ next.obj = s.obj /\ next.before = s.before
        /\ next.fd = s.fd /\ next.uid = s.uid /\ next.state = s.state
    BY <1>3 DEF Scopes
  <1>8. /\ failed.pc = s.pc /\ failed.obj = s.obj /\ failed.before = s.before
        /\ failed.fd = s.fd /\ failed.uid = s.uid /\ failed.state = s.state
        /\ failed.patchErr = TRUE
    BY <1>3 DEF Scopes
  <1>9. \/ Goto(m, failed)
        \/ /\ Goto(m, next)
           /\ \/ ~ChangesObject(s) /\ api'[m] = api[m]
              \/ api[m].exists /\ api'[m] = Stored(a)
    <2>1. \/ Goto(m, failed)
          \/ ~ChangesObject(s) /\ UNCHANGED api /\ Goto(m, next)
          \/ Accepted(m, a) /\ api[m].exists /\ Goto(m, next)
      BY <1>1 DEF PatchObject
    <2>2. Accepted(m, a) => api'[m] = Stored(a)
      BY DEF Accepted, IInv, TypeInv, TypeOK
    <2>3. QED
      BY <2>1, <2>2
  <1> HIDE DEF a, next, failed
  <1>10. CASE Goto(m, failed)
    <2>1. ScopeCore(m, failed)'
      BY <1>6, <1>8 DEF ScopeCore
    <2>2. ScopeCall(m, failed)'
      BY <1>2, <1>3, <1>5, <1>8
         DEF ScopeCall, Sound, Evolves, KnownVM, NormalPCs, PatchPCs
    <2>3. QED
      BY <1>2, <1>4, <1>6, <1>10, <2>1, <2>2, RequestStep DEF ScopeOK
  \* The request succeeded, or had nothing to say that was not there already.
  <1>11. CASE /\ Goto(m, next)
              /\ \/ ~ChangesObject(s) /\ api'[m] = api[m]
                 \/ api[m].exists /\ api'[m] = Stored(a)
    <2>1. ~s.obj.deleting /\ s.obj.finalizer => api'[m].exists /\ api'[m].finalizer
      BY <1>3, <1>11, ObjectSound DEF ChangesObject, ScopeCore, Precedes, Guarded, a
    <2>2. /\ ~s.obj.deleting /\ s.obj.providerID # NoID /\ api[m].exists
          => api'[m].providerID # NoID
      BY <1>3, <1>11, ObjectSound DEF ChangesObject, ScopeCore, Precedes, a
    <2>3. ScopeCore(m, next)'
      BY <1>6, <1>7 DEF ScopeCore
    <2>4. ScopeCall(m, next)'
      BY <1>2, <1>3, <1>7, <2>1, <2>2 DEF ScopeCall, KnownVM, NormalPCs, PatchPCs
    <2>5. QED
      BY <1>2, <1>4, <1>6, <1>11, <2>3, <2>4, RequestStep DEF ScopeOK
  <1>12. QED
    BY <1>9, <1>10, <1>11

\* What the code after an explicit Patch starts from, in the state after it.
LEMMA AfterPatchOK ==
    ASSUME NEW m \in Machines, NEW s, TypedScope(s),
           s.pc \in PatchPCs \ {"Deferred"}, s.part = "status",
           ScopeCore(m, s)', ScopeCall(m, s)'
    PROVE  ScopeOK(m, AfterPatch(s))'
  <1> USE DEF PatchPCs
  <1>1. s \in Scopes /\ s.fd \in Hosts /\ s.obj \in Objects
    BY ScopeOperators DEF TypedScope
  <1>2. \A r : ScopeOK(m, Return(s, r))'
    BY <1>1, ReturnOKAfter
  <1>3. CASE s.patchErr
    BY <1>2, <1>3 DEF AfterPatch
  <1>4. CASE ~s.patchErr /\ s.pc = "PatchFinalizer" /\ ~KnownVM(s)
    <2> DEFINE t == [s EXCEPT !.pc = "Create"]
    <2>1. t.pc = "Create" /\ t.obj = s.obj /\ t.before = s.before
      BY <1>1 DEF Scopes
    <2>2. AfterPatch(s) = t
      BY <1>4 DEF AfterPatch, Continue
    <2> HIDE DEF t
    <2>3. ScopeCore(m, t)'
      BY <2>1 DEF ScopeCore
    <2>4. ScopeCall(m, t)'
      BY <1>4, <2>1 DEF ScopeCall, DeletePCs, NormalPCs
    <2>5. QED
      BY <2>2, <2>3, <2>4 DEF ScopeOK
  <1>5. CASE ~s.patchErr /\ s.pc = "PatchFinalizer" /\ KnownVM(s)
    <2> DEFINE id == [host |-> s.fd, uid |-> s.uid]
               t == StartPatch([s EXCEPT !.obj = SetProviderID(@, s.fd, s.uid)],
                               "PatchProviderID")
    <2>1. /\ t.pc = "PatchProviderID" /\ t.part = "conditions"
          /\ t.before = s.before /\ t.obj.deleting = s.obj.deleting
          /\ t.obj.providerID = id /\ t.obj.ready = s.obj.ready
          /\ t.obj.finalizer = s.obj.finalizer
      BY <1>1 DEF StartPatch, SetProviderID, Scopes, Objects
    <2>2. AfterPatch(s) = t
      BY <1>5 DEF AfterPatch, Continue
    <2>3. id # NoID
      BY <1>1, <1>5, SentinelAssumption DEF TypedScope, ProviderIDs
    <2>4. Owns(m, id)'
      BY <1>5 DEF ScopeCall, Owns
    <2> HIDE DEF t, id
    <2>5. ScopeCore(m, t)'
      BY <2>1, <2>3, <2>4 DEF ScopeCore
    <2>6. ScopeCall(m, t)'
      BY <1>5, <2>1, <2>3 DEF ScopeCall, DeletePCs, NormalPCs
    <2>7. QED
      BY <2>2, <2>5, <2>6 DEF ScopeOK
  <1>6. CASE ~s.patchErr /\ s.pc = "PatchProviderID"
    <2> DEFINE t == [s EXCEPT !.obj = ParsedObject(@, s.state)]
    <2>1. ParsedObject(s.obj, s.state) \in Objects
      BY <1>1, ParsedTypes
    <2>2. /\ ParsedObject(s.obj, s.state).deleting = s.obj.deleting
          /\ ParsedObject(s.obj, s.state).finalizer = s.obj.finalizer
          /\ ParsedObject(s.obj, s.state).providerID = s.obj.providerID
      BY <1>1 DEF ParsedObject, SetReady, SetNotReady, Objects
    <2>3. /\ t \in Scopes /\ t.before = s.before
          /\ t.obj = ParsedObject(s.obj, s.state)
      BY <1>1, <2>1 DEF Scopes
    <2>4. AfterPatch(s) = Return(t, ParsedResult(s.state))
      BY <1>6 DEF AfterPatch, Continue
    <2>5. /\ s.obj.providerID # NoID /\ s.obj.finalizer /\ ~s.obj.deleting
          /\ api'[m].finalizer /\ api'[m].providerID # NoID
      BY <1>6 DEF ScopeCall, NormalPCs
    <2> HIDE DEF t
    <2>6. ScopeCore(m, t)'
      BY <2>2, <2>3, <2>5 DEF ScopeCore
    <2>7. QED
      BY <2>3, <2>4, <2>6, ReturnOKAfter
  <1>7. CASE ~s.patchErr /\ s.pc = "PatchNotReady"
    <2> DEFINE t == [s EXCEPT !.pc = "Delete"]
    <2>1. t.pc = "Delete" /\ t.obj = s.obj /\ t.before = s.before
      BY <1>1 DEF Scopes
    <2>2. AfterPatch(s) \in {t, Return(s, "requeue")}
      BY <1>7 DEF AfterPatch, Continue
    <2> HIDE DEF t
    <2>3. ScopeCore(m, t)'
      BY <2>1 DEF ScopeCore
    <2>4. ScopeCall(m, t)'
      BY <1>7, <2>1 DEF ScopeCall, DeletePCs, NormalPCs
    <2>5. QED
      BY <1>2, <2>2, <2>3, <2>4 DEF ScopeOK
  <1>8. QED
    BY <1>3, <1>4, <1>5, <1>6, <1>7

LEMMA PatchStatusSafe ==
    ASSUME IInv, NEW m \in Machines, PatchStatus(m)
    PROVE  SafetyInv'
  <1>1. PICK s : s = scope[m]
    OBVIOUS
  <1> DEFINE a == MergeStatus(s.before, s.obj, api[m])
             failed == [s EXCEPT !.patchErr = TRUE]
  <1>2. s.pc \in PatchPCs /\ s.part = "status" /\ UNCHANGED <<cache, vms>>
    BY <1>1 DEF PatchStatus
  <1>3. /\ s \in Scopes /\ s.pc # "Idle" /\ ScopeCore(m, s) /\ ScopeCall(m, s)
        /\ StoreOK(m) /\ api[m] \in Objects /\ TypedScope(s)
    BY <1>1, <1>2, RunningScope DEF PatchPCs
  <1>4. /\ \A n \in Machines \ {m} : api'[n] = api[n]
        /\ \/ api'[m] = api[m]
           \/ api[m].exists /\ api'[m] = Stored(a)
    <2>1. \/ Accepted(m, a) /\ api[m].exists
          \/ Rejected(m) \/ UNCHANGED api
      BY <1>1 DEF PatchStatus
    <2>2. QED
      BY <2>1, RequestFrame DEF Accepted, Rejected
  <1>5. Sound(m, s)
    BY <1>3, <1>4, UnchangedSound, StatusSound
  <1>6. StoreOK(m)' /\ ScopeCore(m, s)'
    BY <1>2, <1>3, <1>5, SoundKept
  <1>7. ScopeCall(m, s)'
    BY <1>2, <1>3, <1>5 DEF ScopeCall, Sound, Evolves, KnownVM, NormalPCs, PatchPCs
  <1>8. /\ failed.pc = s.pc /\ failed.obj = s.obj /\ failed.before = s.before
        /\ failed.fd = s.fd /\ failed.uid = s.uid /\ failed.state = s.state
        /\ failed.patchErr = TRUE /\ failed.part = s.part
    BY <1>3 DEF Scopes
  <1>9. TypedScope(failed)
    BY <1>3, PartTyped DEF Parts
  <1>10. Resume(m, s) \/ Resume(m, failed)
    BY <1>1 DEF PatchStatus
  <1> HIDE DEF a, failed
  <1>11. ScopeCore(m, failed)' /\ ScopeCall(m, failed)'
    BY <1>6, <1>7, <1>8 DEF ScopeCore, ScopeCall, KnownVM
  <1>12. \E t : Goto(m, t) /\ ScopeOK(m, t)'
    <2>1. CASE s.pc = "Deferred"
      BY <1>8, <1>10, <2>1 DEF Resume, Finish, ScopeOK, IdleScope
    <2>2. CASE s.pc # "Deferred"
      <3>1. ScopeOK(m, AfterPatch(s))' /\ ScopeOK(m, AfterPatch(failed))'
        BY <1>2, <1>3, <1>6, <1>7, <1>8, <1>9, <1>11, <2>2, AfterPatchOK
      <3>2. QED
        BY <1>8, <1>10, <2>2, <3>1 DEF Resume
    <2>3. QED
      BY <2>1, <2>2
  <1>13. QED
    BY <1>2, <1>4, <1>6, <1>12, RequestStep

-----------------------------------------------------------------------------
(* Informer, process, users and hosts.                                     *)

LEMMA CacheSyncSafe ==
    ASSUME IInv, NEW m \in Machines, CacheSync(m)
    PROVE  SafetyInv'
  <1>1. /\ UNCHANGED <<api, scope, vms>> /\ cache'[m] = api[m]
        /\ \A n \in Machines \ {m} : cache'[n] = cache[n]
    BY DEF CacheSync, IInv, TypeInv, TypeOK
  <1>2. StoreOK(m) /\ ScopeOK(m, scope[m])
    BY DEF IInv, SafetyInv
  <1>3. StoreOK(m)'
    BY <1>1, <1>2 DEF StoreOK, Precedes, Guarded, Owns
  <1>4. scope[m].pc # "Idle" /\ scope[m].obj.deleting
           => cache'[m].deleting \/ ~cache'[m].exists
    BY <1>1, <1>2 DEF ScopeOK, ScopeCore, Precedes
  <1>5. ScopeOK(m, scope[m])'
    BY <1>1, <1>2, <1>4
       DEF ScopeOK, ScopeCore, ScopeCall, Precedes, Guarded, Owns, KnownVM
  <1>6. QED
    BY <1>1, <1>3, <1>5, UnchangedVMs, OneMachine

LEMMA CrashSafe ==
    ASSUME IInv, Crash
    PROVE  SafetyInv'
  <1>1. UNCHANGED <<api, vms>> /\ cache' = api
    BY DEF Crash
  <1>2. ASSUME NEW m \in Machines PROVE StoreOK(m)' /\ ScopeOK(m, scope[m])'
    <2>1. StoreOK(m)
      BY DEF IInv, SafetyInv
    <2>2. StoreOK(m)'
      BY <1>1, <2>1 DEF StoreOK, Precedes, Guarded, Owns
    <2>3. ScopeOK(m, scope[m])'
      BY DEF Crash, ScopeOK, IdleScope
    <2>4. QED
      BY <2>2, <2>3
  <1>3. QED
    BY <1>1, <1>2, UnchangedVMs DEF SafetyInv

\* An object without the finalizer goes at once; no copy of it can have had
\* the finalizer, and no reconcile can be past the Patch that adds it.
LEMMA UserDeleteSafe ==
    ASSUME IInv, NEW m \in Machines, UserDelete(m)
    PROVE  SafetyInv'
  <1>1. /\ UNCHANGED <<cache, scope, vms>> /\ api[m].exists
        /\ api'[m] = Stored([api[m] EXCEPT !.deleting = TRUE])
        /\ \A n \in Machines \ {m} : api'[n] = api[n]
    BY DEF UserDelete, IInv, TypeInv, TypeOK
  <1>2. StoreOK(m) /\ ScopeOK(m, scope[m]) /\ api[m] \in Objects
    BY DEF IInv, SafetyInv, TypeInv, TypeOK
  <1>3. CASE api[m].finalizer
    <2>1. /\ api'[m].exists /\ api'[m].deleting /\ api'[m].finalizer
          /\ api'[m].providerID = api[m].providerID /\ api'[m].ready = api[m].ready
      BY <1>1, <1>2, <1>3 DEF Stored, Objects
    <2>2. StoreOK(m)'
      BY <1>1, <1>2, <2>1 DEF StoreOK, Precedes, Guarded, Owns
    <2>3. ScopeOK(m, scope[m])'
      BY <1>1, <1>2, <1>3, <2>1
         DEF ScopeOK, ScopeCore, ScopeCall, Precedes, Guarded, Owns, KnownVM
    <2>4. QED
      BY <1>1, <2>2, <2>3, UnchangedVMs, OneMachine
  <1>4. CASE ~api[m].finalizer
    <2>1. api'[m] = GoneObject
      BY <1>1, <1>2, <1>4 DEF Stored, Objects
    <2>2. /\ ~api'[m].exists /\ ~api'[m].deleting /\ api'[m].providerID = NoID
          /\ ~api'[m].ready
      BY <2>1 DEF GoneObject, NewObject
    <2>3. ~cache[m].finalizer
      BY <1>1, <1>2, <1>4 DEF StoreOK, Precedes
    <2>4. StoreOK(m)'
      BY <1>1, <1>2, <2>2, <2>3 DEF StoreOK, Precedes, Guarded, Owns
    <2>5. scope[m].pc # "Idle" => ~scope[m].before.finalizer
      BY <1>1, <1>2, <1>4 DEF ScopeOK, ScopeCore, Precedes
    <2>6. scope[m].pc # "Idle" => ScopeCore(m, scope[m])'
      BY <1>1, <1>2, <2>2, <2>5 DEF ScopeOK, ScopeCore, Precedes, Guarded, Owns
    <2>7. scope[m].pc # "Idle" => ScopeCall(m, scope[m])'
      BY <1>1, <1>2, <1>4 DEF ScopeOK, ScopeCall, KnownVM
    <2>8. QED
      BY <1>1, <2>4, <2>6, <2>7, UnchangedVMs, OneMachine DEF ScopeOK
  <1>5. QED
    BY <1>3, <1>4

\* Steps that touch no object and no scope.
LEMMA QuietStep ==
    ASSUME IInv, UNCHANGED <<api, cache, scope>>, OwnershipKept, VMInv'
    PROVE  SafetyInv'
  BY Frame DEF SafetyInv

\* An edit of the spec touches nothing the invariant speaks of.
LEMMA UserEditSafe ==
    ASSUME IInv, NEW m \in Machines, UserEdit(m)
    PROVE  SafetyInv'
  <1>1. /\ UNCHANGED <<cache, scope, vms>> /\ api[m].exists
        /\ api'[m] = [api[m] EXCEPT !.edited = TRUE]
        /\ \A n \in Machines \ {m} : api'[n] = api[n]
    BY DEF UserEdit, IInv, TypeInv, TypeOK
  <1>2. StoreOK(m) /\ ScopeOK(m, scope[m]) /\ api[m] \in Objects
    BY DEF IInv, SafetyInv, TypeInv, TypeOK
  <1>3. /\ api'[m].exists = api[m].exists /\ api'[m].deleting = api[m].deleting
        /\ api'[m].finalizer = api[m].finalizer /\ api'[m].ready = api[m].ready
        /\ api'[m].providerID = api[m].providerID
    BY <1>1, <1>2 DEF Objects
  <1>4. StoreOK(m)'
    BY <1>1, <1>2, <1>3 DEF StoreOK, Precedes, Guarded, Owns
  <1>5. ScopeOK(m, scope[m])'
    BY <1>1, <1>2, <1>3
       DEF ScopeOK, ScopeCore, ScopeCall, Precedes, Guarded, Owns, KnownVM
  <1>6. QED
    BY <1>1, <1>4, <1>5, UnchangedVMs, OneMachine

LEMMA EnvironmentSafe ==
    ASSUME IInv, Environment
    PROVE  SafetyInv'
  <1>1. CASE \E m \in Machines : UserDelete(m) \/ UserEdit(m)
    BY <1>1, UserDeleteSafe, UserEditSafe
  <1>2. CASE UNCHANGED <<api, cache, scope, vms>>
    BY <1>2, UnchangedVMs, QuietStep
  <1>3. QED
    BY <1>1, <1>2
       DEF Environment, BootstrapStep, CloseGate, OpenGate, InfrastructureReady,
           PlacementChanged, CredentialsLost, CredentialsRestored

LEMMA FlintlockSafe ==
    ASSUME IInv, Flintlock
    PROVE  SafetyInv'
  <1>1. PICK u \in UIDs, from \in SUBSET KnownStates, to \in {"CREATED", "REMOVED",
                                                      "FAILED", "OTHER", "DELETING"} :
           VMMoves(u, from, to)
    BY DEF Flintlock, VMStarts, VMRemoved, VMFails, VMDeletedByOperator, KnownStates,
           LiveStates
  <1>2. OwnershipKept /\ VMInv'
    BY <1>1 DEF VMMoves, OwnershipKept, VMInv, IInv, TypeInv, TypeOK, VMs, SafetyInv
  <1>3. QED
    BY <1>1, <1>2, QuietStep DEF VMMoves

LEMMA NextSafe == IInv /\ [Next]_vars => SafetyInv'
  <1> SUFFICES ASSUME IInv, [Next]_vars PROVE SafetyInv'
    OBVIOUS
  <1>1. CASE \E m \in Machines : Reconcile(m)
    BY <1>1, EntrySafe, GetNormalSafe, CreateSafe, GetDeleteSafe, DeleteSafe,
       PatchConditionsSafe, PatchObjectSafe, PatchStatusSafe DEF Reconcile
  <1>2. CASE \E m \in Machines : CacheSync(m)
    BY <1>2, CacheSyncSafe
  <1>3. CASE (\E m \in Machines : Enqueue(m)) \/ UNCHANGED vars
    <2>1. UNCHANGED <<api, cache, scope, vms>>
      BY <1>3 DEF Enqueue, vars
    <2>2. QED
      BY <2>1, UnchangedVMs, QuietStep
  <1>4. QED
    BY <1>1, <1>2, <1>3, CrashSafe, EnvironmentSafe, FlintlockSafe DEF Next

-----------------------------------------------------------------------------
(* The theorems.                                                           *)

\* The inductive invariant holds for any number of machines, hosts, microVMs,
\* concurrent reconciles and failures, with a cache of any age.
THEOREM Safety == Spec => []SafetyInv
  <1>1. Init => IInv
    BY InitTypeInv, InitSafe DEF IInv
  <1>2. IInv /\ [Next]_vars => IInv'
    BY NextTypeInv, NextSafe DEF IInv
  <1>3. IInv => SafetyInv
    BY DEF IInv
  <1>4. QED
    BY <1>1, <1>2, <1>3, PTL DEF Spec

\* A machine the API server reports ready carries the finalizer, and its
\* provider ID names a microVM created for that very machine on the host the
\* ID names: no retry, lost answer, stale read or crash mixes two machines up.
THEOREM ReadyTheorem == Spec => []ReadyNamesOwnVM
  <1>1. SafetyInv => ReadyNamesOwnVM
    BY DEF SafetyInv, StoreOK, ReadyNamesOwnVM, Owns
  <1>2. QED
    BY <1>1, Safety, PTL

\* Only Create takes a microVM out of UNUSED, and it does so for its machine.
LEMMA OnlyCreate ==
    ASSUME IInv, [Next]_vars, NEW u \in UIDs,
           vms[u].state = "UNUSED", vms'[u].state # "UNUSED"
    PROVE  \E m \in Machines : Create(m) /\ vms'[u].owner = m
  <1>1. CASE \E m \in Machines : Create(m)
    <2>1. PICK m \in Machines : Create(m)
      BY <1>1
    <2>2. UNCHANGED vms \/ \E v \in UIDs : VMCreated(m, v)
      BY <2>1 DEF Create
    <2>3. PICK v \in UIDs : VMCreated(m, v)
      BY <2>2
    <2>4. vms'[u].owner = m
      BY <2>3 DEF VMCreated, IInv, TypeInv, TypeOK
    <2>5. QED
      BY <2>1, <2>4
  <1>2. CASE \E m \in Machines : Delete(m)
    BY <1>2, PresentType
       DEF Delete, VMDeleting, IInv, TypeInv, TypeOK, VMs, KnownStates, LiveStates
  <1>3. CASE Flintlock
    BY <1>3 DEF Flintlock, VMStarts, VMRemoved, VMFails, VMDeletedByOperator,
                VMMoves, LiveStates, IInv, TypeInv, TypeOK
  <1>4. CASE \E m \in Machines : Reconcile(m) /\ ~Create(m) /\ ~Delete(m)
    BY <1>4 DEF Reconcile, ReconcileIgnored, ReconcileFailed, ReconcileDelete,
                ReconcileNormal, Enter, GetNormal, GetDelete, PatchConditions,
                PatchObject, PatchStatus
  <1>5. CASE Environment
    BY <1>5 DEF Environment, UserDelete, UserEdit, BootstrapStep, CloseGate, OpenGate,
                InfrastructureReady, PlacementChanged, CredentialsLost,
                CredentialsRestored
  <1>6. QED
    BY <1>1, <1>2, <1>3, <1>4, <1>5 DEF Next, CacheSync, Enqueue, Crash, vars

\* When a host creates a microVM for a machine, the API server holds that
\* machine's object with the finalizer on it, so no deletion can pass unseen:
\* the Patch in reconcileNormal that must succeed before mvmSvc.Create is
\* enough, although it works from a cache of any age and without locking.
THEOREM FinalizerTheorem == Spec => FinalizerBeforeCreate
  <1> DEFINE Step ==
        \A u \in UIDs :
           vms[u].state = "UNUSED" /\ vms'[u].state # "UNUSED" =>
             \E m \in Machines : /\ vms'[u].owner = m
                                 /\ api[m].exists /\ api[m].finalizer
  <1>1. Init => IInv
    BY InitTypeInv, InitSafe DEF IInv
  <1>2. IInv /\ [Next]_vars => IInv'
    BY NextTypeInv, NextSafe DEF IInv
  <1>3. IInv /\ [Next]_vars => [Step]_vars
    <2> SUFFICES ASSUME IInv, [Next]_vars, NEW u \in UIDs,
                        vms[u].state = "UNUSED", vms'[u].state # "UNUSED"
                 PROVE  \E m \in Machines : /\ vms'[u].owner = m
                                            /\ api[m].exists /\ api[m].finalizer
      OBVIOUS
    <2>1. PICK m \in Machines : Create(m) /\ vms'[u].owner = m
      BY OnlyCreate
    <2>2. scope[m].pc = "Create"
      BY <2>1 DEF Create
    <2>3. ScopeCall(m, scope[m])
      BY <2>2, RunningScope
    <2>4. QED
      BY <2>1, <2>2, <2>3 DEF ScopeCall
  <1>4. QED
    BY <1>1, <1>2, <1>3, PTL DEF Spec, FinalizerBeforeCreate
=============================================================================
