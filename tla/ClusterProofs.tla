--------------------------- MODULE ClusterProofs ---------------------------
(***************************************************************************)
(* Theorems about ClusterController and about the placement arithmetic it  *)
(* shares with MachineController.                                          *)
(***************************************************************************)
EXTENDS ClusterController, SequenceTheorems, FiniteSetTheorems,
        WellFoundedInduction, TLAPS

-----------------------------------------------------------------------------
(* Type correctness.                                                       *)

Scopes == [pc : {"Idle", "Probe", "PatchConditions", "PatchStatus"},
           obj : Objects, before : Objects, requeue : BOOLEAN]

LEMMA ConstantTypes == GoneObject \in Objects /\ IdleScope \in Scopes
  <1>1. GoneObject \in Objects
    BY DEF GoneObject, Objects, NoDomains, Domains, DomainKinds
  <1>2. QED
    BY <1>1 DEF IdleScope, Scopes

LEMMA DomainsType ==
    ASSUME NEW pool
    PROVE  FailureDomainsOf(pool, Hosts) \in Domains
  BY DEF FailureDomainsOf, Domains, DomainKinds

LEMMA ObjectTypes ==
    ASSUME NEW o \in Objects
    PROVE  /\ MarkedReady(o) \in Objects /\ SetFailureDomains(o) \in Objects
           /\ \A b \in BOOLEAN :
                 [o EXCEPT !.lb = LoadBalancer(o, b)] \in Objects
           /\ [o EXCEPT !.endpoint = TRUE] \in Objects
           /\ [o EXCEPT !.deleting = TRUE] \in Objects
           /\ \A p \in Updates : [o EXCEPT !.pool = p] \in Objects
  BY DomainsType DEF MarkedReady, SetFailureDomains, LoadBalancer, Objects

LEMMA MergedTypes ==
    ASSUME NEW b \in Objects, NEW o \in Objects, NEW a \in Objects
    PROVE  /\ [a EXCEPT !.lb = o.lb] \in Objects
           /\ MergeStatus(b, o, a) \in Objects
  <1>1. [h \in Hosts |-> Merge(b.fds[h], o.fds[h], a.fds[h])] \in Domains
    BY DEF Objects, Domains, Merge
  <1>2. Merge(b.ready, o.ready, a.ready) \in BOOLEAN
    BY DEF Objects, Merge
  <1>3. QED
    BY <1>1, <1>2 DEF MergeStatus, Objects

LEMMA ScopeTypes ==
    ASSUME NEW o \in Objects, NEW r \in BOOLEAN, scope \in Scopes
    PROVE  /\ Return(o, r) \in Scopes
           /\ [Return(o, r) EXCEPT !.before = o] \in Scopes
           /\ \A b \in Objects : [Return(o, r) EXCEPT !.before = b] \in Scopes
           /\ \A b \in Objects :
                 [[scope EXCEPT !.pc = "Probe", !.obj = o] EXCEPT !.before = b] \in Scopes
           /\ [scope EXCEPT !.pc = "PatchStatus"] \in Scopes
  BY DEF Return, Scopes

LEMMA InitTypeOK == Init => TypeOK
  <1> SUFFICES ASSUME Init PROVE TypeOK
    OBVIOUS
  <1>1. api \in Objects
    BY DEF Init, Objects, NoDomains, Domains, DomainKinds
  <1>2. NoDomains \in Domains
    BY DEF NoDomains, Domains, DomainKinds
  <1>3. QED
    BY <1>1, <1>2, ConstantTypes, PoolsAssumption DEF Init, TypeOK, Scopes

LEMMA ReconcileTypeOK == TypeOK /\ Reconcile => TypeOK'
  <1> SUFFICES ASSUME TypeOK, Reconcile PROVE TypeOK'
    OBVIOUS
  <1>1. /\ api \in Objects /\ cache \in Objects /\ scope \in Scopes
        /\ scope.obj \in Objects /\ scope.before \in Objects
    BY DEF TypeOK, Scopes
  <1>2. CASE ReconcileIgnored \/ ReconcileFailed
    BY <1>2 DEF ReconcileIgnored, ReconcileFailed, TypeOK, vars
  <1>3. CASE ReconcileDelete
    BY <1>1, <1>3, ScopeTypes DEF ReconcileDelete, Enter, TypeOK, Scopes
  <1>4. CASE ReconcileNormal
    <2>1. MarkedReady(cache) \in Objects
      BY <1>1, ObjectTypes
    <2>2. SetFailureDomains(MarkedReady(cache)) \in Objects
      BY <2>1, ObjectTypes
    <2>3. scope' \in Scopes
      BY <1>1, <1>4, <2>1, <2>2, ScopeTypes DEF ReconcileNormal
    <2>4. QED
      BY <1>4, <2>3 DEF ReconcileNormal, Enter, TypeOK, Scopes
  <1>5. CASE Probe
    <2>1. Available \in BOOLEAN
      BY DEF Available
    <2>2. [scope.obj EXCEPT !.lb = LoadBalancer(scope.obj, Available)] \in Objects
      BY <1>1, <2>1, ObjectTypes
    <2>3. scope' \in Scopes
      BY <1>1, <1>5, <2>1, <2>2, ScopeTypes DEF Probe
    <2>4. QED
      BY <1>5, <2>3 DEF Probe, TypeOK, Scopes
  <1>6. CASE PatchConditions
    <2>1. api' \in Objects /\ scope' \in Scopes
      BY <1>1, <1>6, MergedTypes, ScopeTypes DEF PatchConditions
    <2>2. budget' \in Nat
      BY <1>6 DEF PatchConditions, Fault, TypeOK
    <2>3. QED
      BY <1>6, <2>1, <2>2 DEF PatchConditions, TypeOK, Scopes
  <1>7. CASE PatchStatus
    <2>1. api' \in Objects /\ scope' \in Scopes
      <3>1. MergeStatus(scope.before, scope.obj, api) \in Objects
        BY <1>1, MergedTypes
      <3>2. api' = api \/ api' = MergeStatus(scope.before, scope.obj, api)
        BY <1>7 DEF PatchStatus
      <3>3. QED
        BY <1>1, <1>7, <3>1, <3>2, ConstantTypes DEF PatchStatus
    <2>2. budget' \in Nat
      BY <1>7 DEF PatchStatus, Fault, TypeOK
    <2>3. queued' \in BOOLEAN
      BY <1>7 DEF PatchStatus
    <2>4. QED
      BY <1>7, <2>1, <2>2, <2>3 DEF PatchStatus, TypeOK, Scopes
  <1>8. QED
    BY <1>2, <1>3, <1>4, <1>5, <1>6, <1>7 DEF Reconcile

LEMMA NextTypeOK == TypeOK /\ [Next]_vars => TypeOK'
  <1> SUFFICES ASSUME TypeOK, [Next]_vars PROVE TypeOK'
    OBVIOUS
  <1>1. CASE EditPlacement \/ SetEndpoint \/ UserDelete \/ DependentsGone
    <2>1. api' \in Objects
      BY <1>1, ObjectTypes, ConstantTypes
         DEF EditPlacement, SetEndpoint, UserDelete, DependentsGone, TypeOK
    <2>2. budget' \in Nat
      BY <1>1 DEF EditPlacement, SetEndpoint, UserDelete, DependentsGone, Fault, TypeOK
    <2>3. /\ UNCHANGED <<cache, queued, scope, workload>>
          /\ core' = core \/ core' = [core EXCEPT !.endpoint = TRUE]
      BY <1>1 DEF EditPlacement, SetEndpoint, UserDelete, DependentsGone
    <2>4. QED
      BY <2>1, <2>2, <2>3 DEF TypeOK
  <1>2. CASE CacheSync \/ Enqueue
    BY <1>2 DEF CacheSync, Enqueue, TypeOK
  <1>3. CASE Crash
    BY <1>3, ConstantTypes DEF Crash, Fault, TypeOK, Scopes
  <1>4. CASE CloseGate \/ OpenGate
    <2>1. budget' \in Nat
      BY <1>4 DEF CloseGate, OpenGate, Fault, TypeOK
    <2>2. queued' \in BOOLEAN
      BY <1>4 DEF CloseGate, OpenGate, TypeOK
    <2>3. QED
      BY <1>4, <2>1, <2>2 DEF CloseGate, OpenGate, TypeOK
  <1>5. CASE CoreSync
    <2>1. (core.endpoint \/ api.endpoint) \in BOOLEAN /\ api.fds \in Domains
      BY DEF TypeOK, Objects
    <2>2. QED
      BY <1>5, <2>1 DEF CoreSync, TypeOK
  <1>6. CASE WorkloadChanges \/ WorkloadLost
    BY <1>6 DEF WorkloadChanges, WorkloadLost, Fault, TypeOK
  <1>7. CASE UNCHANGED vars
    BY <1>7 DEF vars, TypeOK
  <1>8. QED
    BY <1>1, <1>2, <1>3, <1>4, <1>5, <1>6, <1>7, ReconcileTypeOK DEF Next

\* Type correctness of the MicrovmCluster controller for any hosts, pools and
\* edits: the map of failure domains that Patch merges key by key stays a map
\* from endpoints to the ControlPlane flag.
THEOREM ClusterTypeCorrect == Spec => []TypeOK
  BY InitTypeOK, NextTypeOK, PTL DEF Spec

-----------------------------------------------------------------------------
(* Ready means placeable, if no update takes the placement away and every   *)
(* reconcile starts from the stored object.                                 *)

\* An object that says it is ready can place machines.
Placeable(o) ==
    o.ready => (core.endpoint \/ o.endpoint) /\ o.fds # NoDomains

\* A running reconcile holds an object that is placeable if ready, and the
\* status it will compare with is still the stored one.
PlaceScope(s) ==
    /\ Placeable(s.obj)
    /\ s.obj.endpoint => s.before.endpoint
    /\ api.exists => /\ s.before.ready = api.ready /\ s.before.fds = api.fds
                     /\ s.before.endpoint => api.endpoint

PlaceInv ==
    /\ Placeable(api)
    /\ core.infraReady => core.endpoint /\ core.fds # NoDomains
    /\ api.exists => IsSet(api.pool)
    /\ scope.pc # "Idle" => PlaceScope(scope)

\* setFailureDomains of a pool that is set leaves at least one domain.
LEMMA PoolHasDomains ==
    ASSUME NEW pool \in Pools \cup Updates, IsSet(pool)
    PROVE  FailureDomainsOf(pool, Hosts) # NoDomains
  <1>1. pool \in Seq([endpoint : Hosts, cp : BOOLEAN]) /\ pool # <<>>
    BY PoolsAssumption DEF IsSet
  <1>2. 1 \in DOMAIN pool /\ pool[1].endpoint \in Hosts
    <2>1. Len(pool) \in Nat \ {0}
      BY <1>1, EmptySeq
    <2>2. 1 \in DOMAIN pool /\ 1 \in 1 .. Len(pool)
      BY <1>1, <2>1
    <2>3. pool[1] \in [endpoint : Hosts, cp : BOOLEAN]
      BY <1>1, <2>2, ElementOfSeq
    <2>4. QED
      BY <2>2, <2>3
  <1>3. PICK h \in Hosts : h = pool[1].endpoint
    BY <1>2
  <1>4. FailureDomainsOf(pool, Hosts)[h] # "absent"
    BY <1>2, <1>3 DEF FailureDomainsOf
  <1>5. QED
    BY <1>4 DEF NoDomains

\* Nothing changes that PlaceInv speaks of, except that endpoints may become
\* known and the stored object may go.
LEMMA PlaceFrame ==
    ASSUME PlaceInv, core.endpoint => core'.endpoint,
           core'.infraReady = core.infraReady, core'.fds = core.fds,
           api'.exists => /\ api.exists /\ IsSet(api'.pool)
                          /\ api'.ready = api.ready /\ api'.fds = api.fds
                          /\ api.endpoint => api'.endpoint,
           ~api'.exists => ~api'.ready \/ api' = api,
           \/ scope'.pc = "Idle"
           \/ /\ scope.pc # "Idle"
              /\ scope'.obj.ready = scope.obj.ready /\ scope'.obj.fds = scope.obj.fds
              /\ scope'.obj.endpoint = scope.obj.endpoint
              /\ scope'.before = scope.before
    PROVE  PlaceInv'
  <1>1. core'.infraReady => core'.endpoint /\ core'.fds # NoDomains
    BY DEF PlaceInv
  <1>2. Placeable(api)'
    BY DEF PlaceInv, Placeable, NoDomains
  <1>3. scope'.pc # "Idle" => PlaceScope(scope)'
    BY DEF PlaceInv, PlaceScope, Placeable, NoDomains
  <1>4. QED
    BY <1>1, <1>2, <1>3 DEF PlaceInv, NoDomains, IsSet
\* A reconcile that starts from the stored object.
LEMMA EnterPlace ==
    ASSUME "stale" \notin Faults, TypeOK, PlaceInv, ReconcileDelete \/ ReconcileNormal
    PROVE  PlaceInv'
  <1>1. /\ UNCHANGED <<api, core>> /\ cache = api /\ api.exists
        /\ api \in Objects /\ scope \in Scopes
    BY DEF ReconcileDelete, ReconcileNormal, Enter, Dequeue, TypeOK, Scopes
  <1>2. PICK r : r = SetFailureDomains(MarkedReady(api))
    OBVIOUS
  <1>3. /\ r.endpoint = api.endpoint
        /\ r.fds = FailureDomainsOf(api.pool, Hosts)
    BY <1>1, <1>2 DEF SetFailureDomains, MarkedReady, Objects
  <1>4. IsSet(api.pool) /\ api.pool \in Pools \cup Updates
    BY <1>1 DEF PlaceInv, IsSet, Objects
  <1>5. r.fds # NoDomains
    BY <1>3, <1>4, PoolHasDomains
  <1>6. /\ scope'.before = api
        /\ \/ scope'.obj = api
           \/ scope'.obj = r /\ (core.endpoint \/ api.endpoint)
    <2>1. \A q : /\ [Return(api, q) EXCEPT !.before = api].before = api
                 /\ [Return(api, q) EXCEPT !.before = api].obj = api
      BY <1>1 DEF Return, Scopes
    <2>2. PICK t : t = [[scope EXCEPT !.pc = "Probe", !.obj = r] EXCEPT !.before = api]
      OBVIOUS
    <2>3. t.before = api /\ t.obj = r
      BY <1>1, <2>2 DEF Scopes
    <2>4. CASE ReconcileDelete
      BY <1>1, <2>1, <2>4 DEF ReconcileDelete
    <2>5. CASE ReconcileNormal
      <3>1. \/ \E q : scope' = [Return(api, q) EXCEPT !.before = api]
            \/ scope' = t /\ ~NoEndpoint(api)
        BY <1>1, <1>2, <1>4, <2>2, <2>5 DEF ReconcileNormal
      <3>2. ASSUME NEW q, scope' = [Return(api, q) EXCEPT !.before = api]
            PROVE  scope'.before = api /\ scope'.obj = api
        <4> DEFINE u == [Return(api, q) EXCEPT !.before = api]
        <4>1. u.before = api /\ u.obj = api /\ scope' = u
          BY <2>1, <3>2
        <4> HIDE DEF u
        <4>2. QED
          BY <4>1
      <3>3. CASE scope' = t /\ ~NoEndpoint(api)
        BY <2>3, <3>3 DEF NoEndpoint
      <3>4. QED
        BY <3>1, <3>2, <3>3
    <2>6. QED
      BY <2>4, <2>5
  <1>7. Placeable(api) /\ (core.infraReady => core.endpoint /\ core.fds # NoDomains)
    BY DEF PlaceInv
  <1>8. PlaceScope(scope)'
    BY <1>1, <1>3, <1>5, <1>6, <1>7 DEF PlaceScope, Placeable, NoDomains
  <1>9. QED
    BY <1>1, <1>4, <1>7, <1>8 DEF PlaceInv, Placeable, NoDomains, IsSet

\* The request that stores Ready and the failure domains together.
LEMMA PatchStatusPlace ==
    ASSUME TypeOK, PlaceInv, PatchStatus
    PROVE  PlaceInv'
  <1>1. PICK s, a : s = scope /\ a = MergeStatus(scope.before, scope.obj, api)
    OBVIOUS
  <1>2. /\ UNCHANGED core /\ scope' = IdleScope /\ s.pc # "Idle"
        /\ api' = api \/ (api.exists /\ api' = a)
    BY <1>1 DEF PatchStatus
  <1>3. /\ api \in Objects /\ s.obj \in Objects /\ s.before \in Objects
        /\ PlaceScope(s) /\ Placeable(api)
    BY <1>1, <1>2 DEF TypeOK, PlaceInv
  <1>4. CASE api' = api
    BY <1>2, <1>4 DEF PlaceInv, Placeable, IdleScope, NoDomains, IsSet
  <1>5. CASE api.exists /\ api' = a
    <2>1. /\ a.exists = api.exists /\ a.pool = api.pool /\ a.endpoint = api.endpoint
          /\ a.ready = Merge(s.before.ready, s.obj.ready, api.ready)
          /\ a.fds = [h \in Hosts |-> Merge(s.before.fds[h], s.obj.fds[h], api.fds[h])]
      BY <1>1, <1>3 DEF MergeStatus, Objects
    <2>2. s.before.ready = api.ready /\ s.before.fds = api.fds
      BY <1>3, <1>5 DEF PlaceScope
    <2>3. a.ready = s.obj.ready
      BY <2>1, <2>2 DEF Merge
    <2>4. a.fds = s.obj.fds
      BY <1>3, <2>1, <2>2 DEF Merge, Objects, Domains
    <2>5. s.obj.endpoint => api.endpoint
      BY <1>3, <1>5 DEF PlaceScope
    <2>6. Placeable(a)
      BY <1>3, <2>1, <2>3, <2>4, <2>5 DEF PlaceScope, Placeable
    <2>7. Placeable(api)'
      BY <1>2, <1>5, <2>6 DEF Placeable, NoDomains
    <2>8. QED
      BY <1>2, <1>5, <2>1, <2>7 DEF PlaceInv, IdleScope, NoDomains, IsSet
  <1>6. QED
    BY <1>2, <1>4, <1>5

LEMMA NextPlace ==
    ASSUME "stale" \notin Faults, NoPool \notin Updates, TypeOK, PlaceInv, [Next]_vars
    PROVE  PlaceInv'
  <1>1. api \in Objects /\ scope \in Scopes /\ scope.obj \in Objects
    BY DEF TypeOK, Scopes
  <1>2. api.exists => IsSet(api.pool)
    BY DEF PlaceInv
  <1>3. CASE EditPlacement \/ UserDelete \/ DependentsGone
    <2>1. /\ UNCHANGED <<scope, core>>
          /\ \/ api' = GoneObject
             \/ api.exists /\ api' = [api EXCEPT !.deleting = TRUE]
             \/ api.exists /\ \E p \in Updates : api' = [api EXCEPT !.pool = p]
      BY <1>3 DEF EditPlacement, UserDelete, DependentsGone
    <2>2. /\ api'.exists => /\ api.exists /\ IsSet(api'.pool)
                            /\ api'.ready = api.ready /\ api'.fds = api.fds
                            /\ api'.endpoint = api.endpoint
          /\ ~api'.exists => ~api'.ready \/ api' = api
      BY <1>1, <1>2, <2>1 DEF GoneObject, Objects, IsSet
    <2>3. QED
      BY <2>1, <2>2, PlaceFrame
  <1>4. CASE SetEndpoint
    <2>1. /\ UNCHANGED scope
          /\ \/ api' = api /\ core' = [core EXCEPT !.endpoint = TRUE]
             \/ api' = [api EXCEPT !.endpoint = TRUE] /\ api.exists /\ core' = core
      BY <1>4 DEF SetEndpoint
    <2>2. /\ core'.endpoint = TRUE \/ core' = core
          /\ core'.infraReady = core.infraReady /\ core'.fds = core.fds
      BY <2>1 DEF TypeOK
    <2>3. /\ api'.endpoint = TRUE \/ api' = api
          /\ api'.exists = api.exists /\ api'.pool = api.pool
          /\ api'.ready = api.ready /\ api'.fds = api.fds
          /\ ~api'.exists => api' = api
      BY <1>1, <2>1 DEF Objects
    <2>4. QED
      BY <1>2, <2>1, <2>2, <2>3, PlaceFrame
  <1>5. CASE Probe
    <2>1. PICK o : o = [scope.obj EXCEPT !.lb = LoadBalancer(scope.obj, Available)]
      OBVIOUS
    <2>2. /\ o.ready = scope.obj.ready /\ o.fds = scope.obj.fds
          /\ o.endpoint = scope.obj.endpoint
      BY <1>1, <2>1 DEF Objects
    <2>3. UNCHANGED <<api, core>> /\ scope.pc # "Idle" /\ scope' = Return(o, ~Available)
      BY <1>5, <2>1 DEF Probe
    <2>4. scope'.obj = o /\ scope'.before = scope.before
      BY <1>1, <2>3 DEF Return, Scopes
    <2>5. QED
      BY <1>2, <2>2, <2>3, <2>4, PlaceFrame
  <1>6. CASE PatchConditions
    <2>1. /\ UNCHANGED core /\ scope.pc # "Idle"
          /\ \/ api' = api
             \/ api' = [api EXCEPT !.lb = scope.obj.lb]
          /\ scope' = [scope EXCEPT !.pc = "PatchStatus"]
      BY <1>6 DEF PatchConditions
    <2>2. scope'.obj = scope.obj /\ scope'.before = scope.before
      BY <1>1, <2>1 DEF Scopes
    <2>3. /\ api'.exists = api.exists /\ api'.pool = api.pool
          /\ api'.ready = api.ready /\ api'.fds = api.fds
          /\ api'.endpoint = api.endpoint
          /\ api'.exists \/ api' = api
      BY <1>1, <1>6, <2>1 DEF Objects, PatchConditions
    <2>4. QED
      BY <1>2, <2>1, <2>2, <2>3, PlaceFrame
  <1>7. CASE CoreSync
    <2>1. /\ UNCHANGED <<api, scope>> /\ api.ready
          /\ core' = [core EXCEPT !.infraReady = TRUE, !.fds = api.fds,
                                  !.endpoint = @ \/ api.endpoint]
      BY <1>7 DEF CoreSync
    <2>2. core'.fds = api.fds /\ (core'.endpoint <=> core.endpoint \/ api.endpoint)
      BY <2>1 DEF TypeOK
    <2>3. Placeable(api)
      BY DEF PlaceInv
    <2>4. core'.endpoint /\ core'.fds # NoDomains
      BY <2>1, <2>2, <2>3 DEF Placeable
    <2>5. Placeable(api)' /\ (scope.pc # "Idle" => PlaceScope(scope)')
      BY <2>1, <2>3, <2>4 DEF Placeable, PlaceInv, PlaceScope, NoDomains
    <2>6. QED
      BY <1>2, <2>1, <2>4, <2>5 DEF PlaceInv, NoDomains, IsSet
  <1>8. CASE \/ ReconcileIgnored \/ ReconcileFailed \/ CacheSync \/ Enqueue \/ Crash
             \/ CloseGate \/ OpenGate \/ WorkloadChanges \/ WorkloadLost
             \/ UNCHANGED vars
    <2>1. /\ UNCHANGED api
          /\ scope' = scope \/ scope'.pc = "Idle"
          /\ core' = core \/ \E g : core' = [core EXCEPT !.gate = g]
      BY <1>8 DEF ReconcileIgnored, ReconcileFailed, CacheSync, Enqueue, Crash, CloseGate,
                  OpenGate, WorkloadChanges, WorkloadLost, vars, IdleScope
    <2>2. /\ core'.endpoint = core.endpoint
          /\ core'.infraReady = core.infraReady /\ core'.fds = core.fds
      BY <2>1 DEF TypeOK
    <2>3. QED
      BY <1>2, <2>1, <2>2, PlaceFrame
  <1>9. QED
    BY <1>3, <1>4, <1>5, <1>6, <1>7, <1>8, EnterPlace, PatchStatusPlace
       DEF Next, Reconcile

LEMMA InitPlace == Init => PlaceInv
  <1> SUFFICES ASSUME Init PROVE PlaceInv
    OBVIOUS
  <1>1. api.ready = FALSE /\ core.infraReady = FALSE /\ scope.pc = "Idle"
    BY DEF Init, IdleScope
  <1>2. IsSet(api.pool)
    BY DEF Init, ClusterCreateAdmitted, Consulted, RuleResource, PlacementValid
  <1>3. QED
    BY <1>1, <1>2 DEF PlaceInv, Placeable

\* A MicrovmCluster that is ready, and the Cluster that copies it, has an
\* endpoint and a failure domain to place a machine in, whatever requests fail
\* and whenever the manager restarts, pools are replaced and the object is
\* deleted.  Both conditions are needed: the update webhook lets a placement be
\* removed, and ReconcileNormal then leaves Ready set; and from an old copy of
\* the object a merge patch can take away the last failure domain.
THEOREM PlaceableTheorem ==
    ASSUME "stale" \notin Faults, NoPool \notin Updates
    PROVE  Spec => []ReadyIsPlaceable
  <1>1. Init => TypeOK /\ PlaceInv
    BY InitTypeOK, InitPlace
  <1>2. TypeOK /\ PlaceInv /\ [Next]_vars => (TypeOK /\ PlaceInv)'
    BY NextTypeOK, NextPlace
  <1>3. PlaceInv => ReadyIsPlaceable
    BY DEF PlaceInv, Placeable, ReadyIsPlaceable
  <1>4. QED
    BY <1>1, <1>2, <1>3, PTL DEF Spec

-----------------------------------------------------------------------------
(* What any step may do to the object and to its copies, for the proofs    *)
(* about the whole manager.                                                *)

\* The stored object never comes back, and its failure domains change only by
\* the key by key merge of a running reconcile's.
LEMMA ObjectShape ==
    ASSUME TypeOK, [Next]_vars
    PROVE  /\ api'.exists => api.exists
           /\ \/ api'.fds = api.fds \/ api'.fds = NoDomains
              \/ /\ scope.pc # "Idle"
                 /\ api'.fds = [h \in Hosts |-> Merge(scope.before.fds[h], scope.obj.fds[h],
                                                      api.fds[h])]
  <1>1. api \in Objects /\ GoneObject.exists = FALSE /\ GoneObject.fds = NoDomains
    BY DEF TypeOK, GoneObject
  <1>2. CASE PatchStatus
    BY <1>1, <1>2 DEF PatchStatus, MergeStatus, Objects
  <1>3. CASE PatchConditions
    BY <1>1, <1>3 DEF PatchConditions, Objects
  <1>4. CASE EditPlacement \/ SetEndpoint \/ UserDelete \/ DependentsGone
    <2>1. \/ api' = api \/ api' = GoneObject
          \/ \E p : api.exists /\ api' = [api EXCEPT !.pool = p]
          \/ api.exists /\ api' = [api EXCEPT !.endpoint = TRUE]
          \/ api.exists /\ api' = [api EXCEPT !.deleting = TRUE]
      BY <1>4 DEF EditPlacement, SetEndpoint, UserDelete, DependentsGone
    <2>2. QED
      BY <1>1, <2>1 DEF Objects
  <1>5. CASE UNCHANGED api
    BY <1>5
  <1>6. QED
    BY <1>2, <1>3, <1>4, <1>5
       DEF Next, Reconcile, ReconcileIgnored, ReconcileFailed, ReconcileDelete,
           ReconcileNormal, Enter, Probe, CacheSync, Enqueue, Crash, CloseGate, OpenGate,
           CoreSync, WorkloadChanges, WorkloadLost, vars

\* The informer and Cluster API copy the stored object, and the infrastructure
\* once reported ready stays so.
LEMMA CopiesShape ==
    ASSUME TypeOK, [Next]_vars
    PROVE  /\ cache' = cache \/ (cache' = api /\ api' = api)
           /\ core.infraReady => core'.infraReady
           /\ core'.fds = core.fds \/ core'.fds = api.fds
  <1>1. cache' = cache \/ (cache' = api /\ api' = api)
    BY DEF Next, Reconcile, ReconcileIgnored, ReconcileFailed, ReconcileDelete,
           ReconcileNormal, Enter, Probe, PatchConditions, PatchStatus, EditPlacement,
           SetEndpoint, UserDelete, DependentsGone, CacheSync, Enqueue, Crash, CloseGate,
           OpenGate, CoreSync, WorkloadChanges, WorkloadLost, vars
  <1>2. \/ UNCHANGED core
        \/ core' = [core EXCEPT !.endpoint = TRUE]
        \/ \E g : core' = [core EXCEPT !.gate = g]
        \/ CoreSync
    BY DEF Next, Reconcile, ReconcileIgnored, ReconcileFailed, ReconcileDelete,
           ReconcileNormal, Enter, Probe, PatchConditions, PatchStatus, EditPlacement,
           SetEndpoint, UserDelete, DependentsGone, CacheSync, Enqueue, Crash, CloseGate,
           OpenGate, WorkloadChanges, WorkloadLost, vars
  <1>3. CASE CoreSync
    BY <1>1, <1>3 DEF CoreSync, TypeOK
  <1>4. QED
    BY <1>1, <1>2, <1>3 DEF TypeOK

\* A reconcile has the failure domains it began with, or those of the pool.
LEMMA ScopeShape ==
    ASSUME TypeOK, [Next]_vars, scope'.pc # "Idle"
    PROVE  \/ /\ scope.pc # "Idle"
              /\ scope'.before = scope.before /\ scope'.obj.fds = scope.obj.fds
           \/ /\ scope'.before = cache
              /\ \/ scope'.obj.fds = cache.fds
                 \/ /\ IsSet(cache.pool)
                    /\ scope'.obj.fds = FailureDomainsOf(cache.pool, Hosts)
  <1>1. /\ scope \in Scopes /\ cache \in Objects /\ scope.obj \in Objects
        /\ IdleScope.pc = "Idle"
    BY DEF TypeOK, Scopes, IdleScope
  <1>2. CASE ReconcileDelete
    BY <1>1, <1>2 DEF ReconcileDelete, Return, Scopes
  <1>3. CASE ReconcileNormal
    <2>1. /\ scope'.before = cache
          /\ \/ scope'.obj = cache \/ scope'.obj = MarkedReady(cache)
             \/ /\ IsSet(cache.pool)
                /\ scope'.obj = SetFailureDomains(MarkedReady(cache))
      BY <1>1, <1>3 DEF ReconcileNormal, Return, Scopes
    <2>2. /\ MarkedReady(cache).fds = cache.fds
          /\ SetFailureDomains(MarkedReady(cache)).fds = FailureDomainsOf(cache.pool, Hosts)
      BY <1>1 DEF MarkedReady, SetFailureDomains, Objects
    <2>3. QED
      BY <2>1, <2>2
  <1>4. CASE Probe
    BY <1>1, <1>4 DEF Probe, Return, Scopes, Objects
  <1>5. CASE PatchConditions
    BY <1>1, <1>5 DEF PatchConditions, Scopes
  <1>6. CASE UNCHANGED scope \/ scope' = IdleScope
    BY <1>1, <1>6
  <1>7. QED
    BY <1>2, <1>3, <1>4, <1>5, <1>6
       DEF Next, Reconcile, ReconcileIgnored, ReconcileFailed, PatchStatus, EditPlacement,
           SetEndpoint, UserDelete, DependentsGone, CacheSync, Enqueue, Crash, CloseGate,
           OpenGate, CoreSync, WorkloadChanges, WorkloadLost, vars

\* Every host in sight of the controller is in the set L.
DomainsIn(f, L) == \A h \in Hosts : f[h] # "absent" => h \in L
PoolIn(p, L) == p # NoPool => \A i \in DOMAIN p : p[i].endpoint \in L
DomainHostsIn(L) ==
    /\ DomainsIn(api.fds, L) /\ PoolIn(api.pool, L)
    /\ DomainsIn(cache.fds, L) /\ PoolIn(cache.pool, L)
    /\ DomainsIn(core.fds, L)
    /\ scope.pc # "Idle" => DomainsIn(scope.obj.fds, L) /\ DomainsIn(scope.before.fds, L)

\* A host gets into sight only by being listed in the stored pool.
LEMMA NextDomainHosts ==
    ASSUME TypeOK, NEW L, DomainHostsIn(L), [Next]_vars, PoolIn(api'.pool, L)
    PROVE  DomainHostsIn(L)'
  <1>1. DomainsIn(NoDomains, L)
    BY DEF DomainsIn, NoDomains
  <1>2. DomainsIn(api'.fds, L)
    BY <1>1, ObjectShape DEF DomainHostsIn, DomainsIn, Merge
  <1>3. /\ DomainsIn(cache'.fds, L) /\ PoolIn(cache'.pool, L)
        /\ DomainsIn(core'.fds, L)
    BY CopiesShape DEF DomainHostsIn
  <1>4. CASE scope'.pc # "Idle"
    <2>1. IsSet(cache.pool) /\ PoolIn(cache.pool, L) =>
             DomainsIn(FailureDomainsOf(cache.pool, Hosts), L)
      BY DEF IsSet, PoolIn, DomainsIn, FailureDomainsOf
    <2>2. QED
      BY <1>2, <1>3, <1>4, <2>1, ScopeShape DEF DomainHostsIn
  <1>5. QED
    BY <1>2, <1>3, <1>4 DEF DomainHostsIn

-----------------------------------------------------------------------------
(* The choice of a host by GetFailureDomain.                               *)

\* A set of numbers has a least element.
LEMMA LeastNatural ==
    ASSUME NEW S \in SUBSET Nat, S # {}
    PROVE  \E n \in S : \A m \in S : n <= m
  <1>1. PICK n \in S : \A m \in S : ~(<<m, n>> \in OpToRel(<, Nat))
    BY WFMin, NatLessThanWellFounded
  <1>2. \A m \in S : ~(m < n)
    BY <1>1 DEF OpToRel
  <1>3. QED
    BY <1>2

\* A finite set of numbers has a greatest element: of the sets that have none
\* take a smallest one and remove an element.
LEMMA GreatestElement ==
    ASSUME NEW S \in SUBSET Nat, IsFiniteSet(S), S # {}
    PROVE  \E n \in S : \A m \in S : m <= n
  <1> DEFINE Great(T) == \E n \in T : \A m \in T : m <= n
             Bad == {c \in Nat : \E T \in SUBSET Nat : /\ IsFiniteSet(T) /\ T # {}
                                                       /\ Cardinality(T) = c /\ ~Great(T)}
  <1>1. SUFFICES ASSUME ~Great(S) PROVE FALSE
    OBVIOUS
  <1>2. Cardinality(S) \in Bad
    BY <1>1, FS_CardinalityType
  <1>3. PICK c \in Bad : \A d \in Bad : c <= d
    <2>1. Bad \in SUBSET Nat /\ Bad # {}
      BY <1>2
    <2> HIDE DEF Bad
    <2>2. QED
      BY <2>1, LeastNatural
  <1>4. PICK T \in SUBSET Nat : IsFiniteSet(T) /\ T # {} /\ Cardinality(T) = c /\ ~Great(T)
    OBVIOUS
  <1>5. PICK x \in T : TRUE
    BY <1>4
  <1>6. /\ IsFiniteSet(T \ {x}) /\ Cardinality(T \ {x}) = c - 1 /\ c \in Nat
        /\ Cardinality(T \ {x}) \in Nat
    BY <1>4, <1>5, FS_RemoveElement, FS_CardinalityType
  <1>7. CASE T \ {x} = {}
    <2>1. T = {x} /\ x \in Nat
      BY <1>5, <1>7
    <2>2. Great(T)
      BY <2>1
    <2>3. QED
      BY <1>4, <2>2
  <1>8. CASE T \ {x} # {}
    <2>1. Great(T \ {x})
      <3>1. c - 1 \notin Bad
        BY <1>3, <1>6
      <3>2. QED
        BY <1>6, <1>8, <3>1
    <2>2. PICK y \in T \ {x} : \A m \in T \ {x} : m <= y
      BY <2>1
    <2>3. x \in Nat /\ y \in Nat /\ \A m \in T : m \in Nat
      BY <1>5
    <2>4. Great(T)
      <3>1. CASE x <= y
        BY <2>2, <2>3, <3>1
      <3>2. CASE y <= x
        BY <2>2, <2>3, <3>2
      <3>3. QED
        BY <2>3, <3>1, <3>2
    <2>5. QED
      BY <1>4, <2>4
  <1>9. QED
    BY <1>7, <1>8

\* The hosts that sort.Strings puts before h; their number is its index.
Below(fds, h) == {g \in fds : g < h}

\* Of two hosts the later one has the greater index.
LEMMA RankGrows ==
    ASSUME NEW fds \in SUBSET Nat, IsFiniteSet(fds), NEW a \in fds, NEW b \in fds, a < b
    PROVE  /\ Cardinality(Below(fds, a)) \in Nat /\ Cardinality(Below(fds, b)) \in Nat
           /\ Cardinality(Below(fds, a)) < Cardinality(Below(fds, b))
  <1>1. /\ Below(fds, b) \in SUBSET fds /\ Below(fds, a) \in SUBSET Below(fds, b)
        /\ a \in Below(fds, b) /\ a \notin Below(fds, a)
    <2>1. \A g \in fds : g \in Nat
      OBVIOUS
    <2>2. \A g \in fds : g < a => g < b
      BY <2>1
    <2>3. ~(a < a)
      BY <2>1
    <2>4. QED
      BY <2>2, <2>3 DEF Below
  <1>2. IsFiniteSet(Below(fds, b)) /\ Cardinality(Below(fds, b)) \in Nat
    BY <1>1, FS_Subset, FS_CardinalityType
  <1>3. IsFiniteSet(Below(fds, a)) /\ Cardinality(Below(fds, a)) \in Nat
    BY <1>1, <1>2, FS_Subset, FS_CardinalityType
  <1>4. /\ Cardinality(Below(fds, a)) <= Cardinality(Below(fds, b))
        /\ Cardinality(Below(fds, a)) # Cardinality(Below(fds, b))
    BY <1>1, <1>2, FS_Subset
  <1>5. QED
    BY <1>2, <1>3, <1>4

\* The host GetFailureDomain takes from the sorted failure domains exists and is
\* one whenever there is a failure domain, for any number of them and any hash of
\* the machine's name: the index is in range, and a machine that has to choose
\* again from the same failure domains chooses the same host.
THEOREM PlacementTheorem ==
    ASSUME NEW fds \in SUBSET Nat, IsFiniteSet(fds), fds # {}, NEW hash \in Nat
    PROVE  \E h \in fds : ChosenDomain(fds, hash) = {h}
  <1> DEFINE n == Cardinality(fds)
             k == hash % n
             Rank(h) == Cardinality(Below(fds, h))
  <1>1. n \in Nat \ {0}
    BY FS_CardinalityType, FS_EmptySet
  <1>2. k \in Nat /\ k < n
    BY <1>1
  <1>3. \A h \in fds : Rank(h) \in Nat /\ IsFiniteSet(Below(fds, h)) /\ h \in Nat
    BY FS_Subset, FS_CardinalityType DEF Below
  <1>4. ChosenDomain(fds, hash) = {h \in fds : Rank(h) = k}
    BY DEF ChosenDomain, Below
  <1> HIDE DEF k, n
  \* Of the hosts with at most k below them the greatest has exactly k.
  <1> DEFINE Low == {h \in fds : Rank(h) <= k}
  <1>5. Low # {}
    <2>1. PICK h \in fds : \A g \in fds : h <= g
      BY LeastNatural
    <2>2. Below(fds, h) = {}
      <3>1. \A g \in fds : ~(g < h)
        BY <1>3, <2>1
      <3>2. QED
        BY <3>1 DEF Below
    <2>3. Rank(h) = 0
      BY <2>2, FS_EmptySet
    <2>4. QED
      BY <1>2, <2>3
  <1>6. PICK h \in Low : \A g \in Low : g <= h
    <2>1. Low \in SUBSET fds /\ Low \in SUBSET Nat
      OBVIOUS
    <2>2. IsFiniteSet(Low)
      BY <2>1, FS_Subset
    <2> HIDE DEF Low
    <2>3. QED
      BY <1>5, <2>1, <2>2, GreatestElement
  <1>7. Rank(h) = k
    <2> SUFFICES ASSUME Rank(h) # k PROVE FALSE
      OBVIOUS
    <2>1. h \in fds /\ Rank(h) \in Nat /\ Rank(h) + 1 <= k
      BY <1>2, <1>3
    <2> DEFINE Above == {g \in fds : h < g}
    \* the next host has exactly one more below it
    <2>2. Above # {}
      <3> SUFFICES ASSUME Above = {} PROVE FALSE
        OBVIOUS
      <3>1. fds = Below(fds, h) \cup {h}
        <4>1. \A g \in fds : g < h \/ g = h
          BY <1>3, <2>1
        <4>2. QED
          BY <2>1, <4>1 DEF Below
      <3>2. h \notin Below(fds, h)
        BY <1>3, <2>1 DEF Below
      <3>3. n = Rank(h) + 1
        BY <1>3, <2>1, <3>1, <3>2, FS_AddElement DEF n
      <3>4. QED
        BY <1>1, <1>2, <2>1, <3>3
    <2>3. PICK g \in Above : \A f \in Above : g <= f
      <3>1. Above \in SUBSET Nat
        OBVIOUS
      <3> HIDE DEF Above
      <3>2. QED
        BY <2>2, <3>1, LeastNatural
    <2>4. Below(fds, g) = Below(fds, h) \cup {h}
      <3>1. \A f \in fds : f < g <=> f < h \/ f = h
        BY <1>3, <2>1, <2>3
      <3>2. QED
        BY <2>1, <3>1 DEF Below
    <2>5. Rank(g) = Rank(h) + 1
      <3>1. h \notin Below(fds, h)
        BY <1>3, <2>1 DEF Below
      <3>2. QED
        BY <1>3, <2>1, <2>4, <3>1, FS_AddElement
    <2>6. g \in Low /\ ~(g <= h)
      BY <1>3, <2>1, <2>3, <2>5
    <2>7. QED
      BY <1>6, <2>6
  <1>8. \A g \in fds : Rank(g) = k => g = h
    <2> SUFFICES ASSUME NEW g \in fds, Rank(g) = k, g # h PROVE FALSE
      OBVIOUS
    <2>1. g < h \/ h < g
      BY <1>3
    <2>2. QED
      BY <1>7, <2>1, RankGrows
  <1>9. QED
    BY <1>4, <1>7, <1>8
=============================================================================
