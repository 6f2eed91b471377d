# Cluster API provider for microVMs: TLA+ verification project

This directory holds TLA+ models of the controllers in this repository, TLC
configurations that check them on small instances, and proofs that the TLAPS
proof system checks for every value of the constants. Paths below are relative
to `src/`.

## 1. The system

A Cluster API infrastructure provider. A manager process runs two controllers
that keep Kubernetes objects and microVMs on *Flintlock* hosts in step.

| Part | State | Operations | Hard because |
|---|---|---|---|
| MicrovmMachine controller (`controllers/microvmmachine_controller.go`, `internal/scope/machine.go`) | the `MicrovmMachine` object (finalizer, provider ID, readiness, condition), one scope per running reconcile | `Reconcile`, `reconcileNormal`, `reconcileDelete`, `parseMicroVMState`, `Patch` | reads come from an informer cache, writes are patches against the copy that was read, the microVM lives on a remote host, and the process may die between any two calls |
| MicrovmCluster controller (`controllers/microvmcluster_controller.go`, `internal/scope/cluster.go`) | the `MicrovmCluster` object (readiness, failure domains, load balancer condition) | `Reconcile`, `setFailureDomains`, `isAPIServerAvailable`, `Patch` | readiness is published before the rest is known, the failure domains are merged key by key, users edit the placement meanwhile |
| Placement | none | failure domains of a pool, choice by hash | must stay the same for a machine whose hosts are edited |
| Provider ID (`internal/scope/providerid.go`) | none | format, parse | two different parsers read one string |
| Webhooks (`internal/webhook`) | none | validate, default | creation and update are validated differently |
| Manager (`main.go`) | worker pools, informer resync | start, stop | concurrency, restart |
| Flintlock service (external, `controller-pkg`) | microVMs | Create, Get, Delete | a call may fail, or succeed with its answer lost |
| API server, Cluster API (external) | all objects, `Cluster.Status` | patch, delete, copy of readiness and failure domains | no locking between them and the controllers |

They interact as follows. Cluster API makes a `Cluster` own a `MicrovmCluster`;
the cluster controller publishes readiness and failure domains; Cluster API
copies both into `Cluster.Status`, an event on which the machine controller
looks at every machine of the cluster; the machine controller waits for that and for
bootstrap data, chooses a host, adds its finalizer, asks the host to create a
microVM, stores the provider ID (host and UID), and follows the microVM's state.
On deletion it marks the machine not ready, asks the host to delete, polls until
the host no longer knows the microVM and releases the finalizer.

What makes the parts correct: nothing is created that a deletion could miss; a
ready machine names its own microVM; a machine has one microVM at a time; an
object leaves only after its microVM; every machine that needs work is looked at
again; a ready cluster can be placed on; failure domains follow the pool; the
two controllers never wait for each other in a circle; the string in which host
and UID are kept is read back as it was written.

## 2. Modules

| Module | Content |
|---|---|
| `Placement` | `FailureDomainsOf` (`setFailureDomains`), `ChosenDomain` (last branch of `GetFailureDomain`) |
| `PatchHelper` | `Merge`: Cluster API's patch helper as the scopes use it (external) |
| `Admission` | what the API server refuses on behalf of the webhooks |
| `MachineController` | the machine controller, its cache, watches and queue, the API server's objects, the hosts |
| `MachineLifecycle` | what a user of a machine may rely on, without reconciles |
| `MachineRefinement` | `MachineController` implements `MachineLifecycle` |
| `MachineInvariant` | the inductive strengthening of its safety properties |
| `MachineProofs` | type correctness, the safety invariant and its consequences, proved |
| `MachineSteps` | what each action does to the fields of one machine: lemmas shared by the next three |
| `MachineWakeProofs` | no wake-up is lost, proved |
| `MachineRefinementProofs` | `MachineLifecycle` is implemented, proved |
| `MachineReliableProofs` | what holds while certain failures stay away, proved |
| `ClusterController` | the cluster controller, placement edits, Cluster API's copy |
| `ClusterProofs` | its types and its promise to the machines, and the choice of a host, proved |
| `Capmvm` | both controllers over one cluster |
| `CapmvmProofs` | the safety properties of the composition, proved from those of the parts |
| `ProviderID` | the provider ID as a string, and the token chosen by an address |
| `ProviderIDProofs` | what is formatted is parsed again, for strings of any length, proved |
| `MCMachine`, `MCCluster`, `MCCapmvm`, `MCProviderID` | constants for TLC |

`MachineController` and `ClusterController` extend `Placement`, `PatchHelper` and
`Admission`. `Capmvm` takes an instance of each of the two controllers.

A definition whose name is another one's followed by an underscore and a remark
(`SetReady_ConditionOnly`) is that definition with a plausible slip. No
specification uses them; each shows which slip a property catches.

### MachineController

State: `api[m]` is the stored object, `cache[m]` the informer's copy, `scope[m]`
the running reconcile (its object, the copy the patch helper took, the host, the
UID and state the host answered, the place in the code), `queue` the work queue,
`last[m]` how the last reconcile ended, `vms[u]` the microVMs, `cluster` and
`bootstrap` what a reconcile reads of other objects, `budget` the failures left.

A reconcile is cut at its remote calls: the local code between two calls is one
action.

| Action | Code |
|---|---|
| `ReconcileIgnored`, `ReconcileFailed` | early returns of `Reconcile` (63-119) |
| `ReconcileDelete`, `ReconcileNormal` | from scope creation to the first call (121-171, 210-278) |
| `GetNormal`, `GetDelete` | `mvmSvc.Get` and the code after it (258-278, 171-203) |
| `Create`, `Delete` | `mvmSvc.Create`, `mvmSvc.Delete` (280-291, 190-198) |
| `PatchConditions`, `PatchObject`, `PatchStatus` | the three requests of one `Patch`; `PatchStatus` also runs the code after it: `parseMicroVMState`, or the end of the reconcile |
| `CacheSync`, `Enqueue`, `Crash` | informer, resync, restart |
| `UserDelete`, `UserEdit`, ..., `BootstrapStep` | users and Cluster API |
| `VMStarts`, `VMRemoved`, `VMFails`, `VMDeletedByOperator` | hosts |

Wake-ups are those of `SetupWithManager`. `Watched` queues the machines an event
is mapped to, and each action says whether it is such an event: an owner, a
MicrovmCluster, a pause that ends, infrastructure that becomes ready and a named
bootstrap secret are; a Cluster that can be read again, a change of its failure
domains, and the contents of secrets are not. `Enqueue` is the resync alone.

Admission: the rules of the machine webhook (`microvmmachine_webhook.go:33-34`)
name the resource `microvmmachine`, the API server calls it `microvmmachines`, so
the webhook is not consulted (`Consulted`) and `MachineUpdateAdmitted`, the guard of
a user's `UserEdit`, holds of every edit. The controller's own requests are not
asked about: were the rules in the plural, storing the provider ID in the spec
would be refused.

Abstractions: endpoints are numbers, because only equality and string order
matter; a provider ID is a host and a UID; a condition is its reason or `True`;
messages, severities and logging are left out; `creds` says whether a client can
be built; the summary condition is a function of `MicrovmReady` and is left out.
`Machine.Spec.FailureDomain` is fixed. Machine names are not reused.

External behaviour, as assumed: `Create` makes a new microVM on each call;
`Delete` is accepted and carried out later, and fails for a microVM the host no
longer knows; `Get` answers from the host it is
sent to; what a host says when asked for an empty UID is the constant
`EmptyUIDAnswer` (`"NotFound"` in `machine_faults`, `machine_clean` and `capmvm`,
`"Error"` in the other runs; the proofs hold for both); the API server removes a deleted
object with its last finalizer; each request of a patch is sent only when
something differs; the cache may be old but never goes back.

Of the three requests of a patch, those for metadata and spec and for status carry
no resource version. The one for the conditions does: Cluster API's helper
(v1.10.5, not part of this repository) re-reads the object through the cached
client and sends the patch with an optimistic lock on the version it read, five
times if need be. So the request is accepted only while the informer's copy is the
stored object; otherwise it waits for the informer, or, where caches may be stale,
gives up (`Conflict`) and the whole Patch returns an error, while its other two
requests are sent all the same. A version is modelled by the value it has: an
informer whose copy equals the stored object is taken to have caught up.

`OpenGate` for `noMvmCluster` takes the creation of the MicrovmCluster and the
setting of its owner reference as one step; the map function (lines 446-464)
drops the first event and maps the second.

### ClusterController

State: `api`, `cache`, `queued`, `scope` as above for one `MicrovmCluster`;
`core` is the owning `Cluster`; `workload` is what a probe meets. `ReconcileNormal`
covers lines 128-142, `Probe` 144-160, `PatchConditions` and `PatchStatus` the
deferred `Patch`. `EditPlacement` is an update as the webhook admits it;
`Updates` says which placements users write. `CoreSync` is Cluster API's copy.
`UserDelete` and `DependentsGone` are a deletion that may wait for dependents.
Edits and deletions count against the same budget as failures.
The conditions request is locked as above. Pools have at least one host
(`MinItems`, `api/v1alpha1/types.go:41`).

### MachineLifecycle

An object (exists, deleting, protected, ready, UID) and microVMs (unused, present,
condemned, gone). The refinement mapping reads `protected` off the stored
finalizer and the UID off the stored provider ID; the condemned microVMs are
those a host was told to delete. So the steps of `MachineController` that show
are the accepted patch requests, `Create`, `Delete` and the hosts' own; every
other step is a stutter. What the abstract specification forbids is what a patch
computed from an old copy could do: take back a finalizer or a provider ID,
protect a machine that is being deleted, record a microVM of another machine; and
a `Delete` sent on behalf of a machine that is wanted.

### Capmvm

`cluster`, a variable of `MachineController`, becomes the expression
`ReadCluster` over the cluster controller's variables, and the workload cluster
that `Probe` meets comes up only on a created microVM. The map function
`MicroVMClusterToMicrovmMachine` and the watch on `Cluster` tie the two queues.
To keep the state space in reach the composition leaves out crashes, pauses,
lost credentials, failing microVMs, stale caches and failed calls to hosts, which
the modules of the two controllers have; the control plane endpoint
is set when the MicrovmCluster is created, a deleted MicrovmCluster is gone at
once, and a resync comes while its worker is idle.

### ProviderID

Strings are sequences of tokens, so that prefixes inside prefixes, empty parts and
addresses with colons of their own happen. `SetProviderID` formats,
`getFailureDomainFromProviderID` and `GetInstanceID` parse, `GetBasicAuthToken`
picks a token by address; one `Reconcile` does all four. It is what justifies the
pair of host and UID in `MachineController`. The branch for a failure domain set in
the Machine (`machine.go:195-197`), which does not parse, is left to
`MachineController`.

## 3. Runs

Failures happen only if named in `Faults` and while the budget lasts, so each run
says which failures its properties survive.

| Run | Failures | Shows |
|---|---|---|
| `machine_faults` | stale cache, crash, failed patch, failed call, lost answer, misread error; 2 | `FinalizerBeforeCreate`, `ReadyNamesOwnVM`, `NothingForgotten`, `ImplementsLifecycle`, and that `SafetyInv` holds before it is proved |
| `machine_clean` | failed call, credentials, gates, placement and spec edits, failing microVM, operator; 3 | `GoneMeansClean`, `NoDuplicateVM`, `StatusAgrees` |
| `machine_live` | one of crash, patch, call, lost answer, credentials, gates, microVM failure, operator | `DeletionCompletes`, `ProvisioningConverges`, `FailureSurfaces`, `StatusSettles`, `NotReadyBeforeDelete` |
| `cluster_live` | stale cache, crash, patch, owner, workload, edits, deletion; 2 | `TypeOK`, `DomainsConverge`, `AvailabilityNoticed` |
| `capmvm` | one of failed patch, edit of the pool, deletion of the MicrovmCluster; a machine may be deleted any time | `ClusterComesUp`, `DeletionCompletes`, `ReadyIsPlaceable`, `PlacedInPool`, `MachinesWoken` |
| `provider_id` | IDs written by users: every string of up to seven tokens | `ParsedByForm`, `OwnToken`, `AddressKept` |

What the runs say of the hard questions:

- *Lost wake-ups.* `NothingForgotten` (and `MachinesWoken` in the composition)
  lists everything a machine may sleep on. Three ways to sleep are left to the
  resync alone: an error in looking up the Cluster (taken for a missing one), the
  client error `reconcileDelete` swallows, and a failed deferred Patch.
- *Circular wait.* Machines wait for the MicrovmCluster, which probes an API server
  on a machine. `ClusterComesUp` holds because readiness does not depend on the
  probe; with readiness set only when the probe succeeds (`MarkedReady_WhenAvailable`)
  TLC shows everyone waiting.
- *Deletion without a microVM.* `DeletionCompletes` is stated for machines whose
  provider ID is stored, and for all machines if a host says "not found" to an
  empty UID. `machine_live` checks it with a host that answers with another error,
  `capmvm` with one that says "not found"; `machine_stuck` (below) shows what the
  restriction leaves out.
- *Half a Patch.* `StatusAgrees` says that `Ready`, the condition and the VM state
  agree between reconciles, and it needs every request to be answered.
  `StatusSettles` says what remains when one is lost, or the process with it: the
  fields agree again later.
- *Deletion order.* A MicrovmCluster has no finalizer, and without it `Reconcile`
  returns before it looks at a machine's deletion. `DeletionCompletes` of `capmvm`
  is therefore stated up to the disappearance of the MicrovmCluster; Cluster API
  deletes infrastructure last.
- *Tokens.* No host is sent another host's token. A host with an IPv6 address is
  sent none, since the key is cut at the first colon.

Six runs show where the code does not do what it, or its documentation, says:

- `machine_leak_crash`: a crash between `Create` and the Patch of the provider
  ID. The next reconcile finds no provider ID, creates a second microVM and the
  first outlives the machine.
- `machine_leak_stale`: the same without a crash, when a reconcile starts from a
  cached object older than the provider ID. (The finalizer's patch is an event of
  its own, so the key is usually queued again right after the first reconcile.) The
  first reconcile's deferred conditions request may conflict meanwhile; line 137
  logs that and nothing else comes of it.
- `machine_ready_stale`: a deletion starts from a copy older than `Ready`, which the
  reconcile before it has just stored. The new condition is sent. If the informer is
  still behind, it conflicts and the code returns without `Delete`; if it has caught
  up since the copy was read, it is accepted. `Ready` is false in the copy and in the
  object, so no status request follows, the Patch succeeds and `Delete` is called
  while the stored object says ready.
- `machine_stuck`: no failure at all. The finalizer is stored before `Create`, and
  `Create` fails while the bootstrap secret has no data. If the machine is deleted
  now, `reconcileDelete` asks the host for the empty UID; if the error it gets does
  not contain "not found", it returns at line 175 in every reconcile and the object
  stays for ever. What a host says is outside this repository; the run is about any
  host that rejects the request as invalid. The run assumes the fairness below.
- `cluster_unset`: an update removes the placement; the object is reported ready
  with no failure domain, since `Ready` is set before `setFailureDomains` fails.
- `machine_edit`: the spec of a ready machine is edited; the webhook that declares
  it immutable is not consulted, and the microVM is no longer the one described.

Bounds. One machine suffices for the single-machine properties, since machines
share only hosts, UIDs, workers and the cluster's state; the proofs cover any
number of machines and of concurrent workers. Two hosts make a wrong host possible; two UIDs make a
second microVM possible, and when they run out `Create` fails. `capmvm` has three
hosts, of which the pool lists one and is edited to list two, so that a host
outside every pool exists; one UID, since a second microVM is not its question.
The addresses of `provider_id` include one that begins another and two IPv6
forms, its UIDs one that looks like the prefix. The budgets allow
two or three failures spread over a reconcile and its retries; one in `capmvm`, and
in `machine_live`, since two lost answers would use up the UIDs and `Create` could
not succeed any more. UIDs are symmetric where symmetry is used; no liveness run uses it. `CHECK_DEADLOCK FALSE` in the
machine runs and in `capmvm`: when every machine is gone the system stops.

Fairness. Workers take the next step they can (a reconcile is never abandoned,
and with one key at a time per worker it ends); the informer catches up; the
resync of `main.go` (`SyncPeriod`) queues every known object again and again;
hosts finish what they started; whoever closed a gate or removed a secret puts
that right; Cluster API keeps copying. Failures, deletions and edits are never
fair. All of it is weak fairness, in `Capmvm` too, where the steps of Cluster API
and the hosts that come one after another share one fairness condition.

## 4. Proofs

All theorems hold for any number of machines, hosts, microVMs, workers, pools and
failures. They rest on the assumptions on the constants and nothing else:
`ConstantsAssumption` and `SentinelAssumption` (machine controller),
`PoolsAssumption` (cluster controller), `ManagerAssumption` (all three, for the
composition), `StringsAssumption` and `HostsAssumption` (provider IDs). TLC
evaluates each of them in the runs.

### With every failure of the model, and a cache of any age

- `TypeCorrect` (`Spec => []TypeOK`). The invariant `TypeInv` adds what a running
  reconcile knows: a host once it makes calls, a UID once it has found a microVM.
- `Safety` (`Spec => []SafetyInv`), `ReadyTheorem` (`Spec => []ReadyNamesOwnVM`)
  and `FinalizerTheorem` (`Spec => FinalizerBeforeCreate`).
- `WakeTheorem` (`Spec => []NothingForgotten`).
- `LifecycleTheorem` (`Spec => ImplementsLifecycle`): the refinement.

Why a strengthening is needed: the steps that write the stored object act on
copies. A patch may be the difference between two old values. `SafetyInv`
therefore says of every copy (the cache, and a scope's `obj` and `before`) that
it *precedes* the stored object (`Precedes`: what it had is still there), that an
object seen with the finalizer and not deleted cannot be gone (`Guarded`), that
every provider ID in any copy names a microVM owned by that machine (`Owns`), and
what holds before each remote call (`ScopeCall`). The key case is the request
for metadata and spec: it can take the finalizer away only when the scope's copy
was being deleted, then so is the stored object, and the API server removes it
(`ObjectSound`). A request that sends nothing is harmless for the same reason:
what it would have written was there in the old copy, so it is there now.
`MachineProofs` has one lemma per action; `Sound` collects what a patch
request may do and `SoundKept` shows that it suffices.

`NothingForgotten` is about machines at rest, and a reconcile decides long before
it ends whether its key is queued again. `WakeInv` says what the running one is
going to leave behind: if no event queued the machine since it began, the cache is
still the copy it began with (`WakeScope`), a reconcile that returns "waiting" still
waits, and one that returns "done" has a ready object in hand or has let go of the
finalizer. A step that leaves a machine alone can disturb this only by ending its
wait, and then it is an event that queues it (`GatesKept`, `ApartWakes`).

The refinement needs one more fact than `SafetyInv`, since a record in the
abstract specification is written once: the UID a scope is going to store is the
stored one, or there is none yet (`RecordInv`). Every step of every action is then
shown to be a step of `MachineLifecycle` or a stutter.

### While certain failures stay away

`MachineReliableProofs` proves the properties that the code guarantees only when
some failures do not happen. Every theorem names in its ASSUME the ones it
excludes and allows all others; each exclusion is needed, as TLC shows when that
failure alone is admitted:

| Theorem | Property | Excluded |
|---|---|---|
| `GoneTheorem`, `DuplicateTheorem` | `GoneMeansClean`, `NoDuplicateVM` | stale, crash, patch, lostReply, misread |
| `StatusTheorem` | `StatusAgrees` | stale, crash, patch |
| `NotReadyTheorem` | `NotReadyBeforeDelete` | stale |

`CleanInv` follows the only link to a microVM, its provider ID, through a
reconcile: the stored one names whatever microVM the machine still has, except
between `Create` and the request that stores the new one, when the scope's does.
A machine whose failure domain is set is always sent to that host, so no provider
ID may name another (`OnPin`). `StatusInv` says how far the three fields have come
after each request of each Patch (a Patch fails only because the object is gone,
`ErrorInvariant`), and `ReadyInv` that the copy a deletion started
from knows of every `Ready` that is stored.

`PlaceableTheorem` (`ClusterProofs`) does the same for `ReadyIsPlaceable`. Its two
conditions are that no update takes the placement away (the run `cluster_unset`
shows why) and that reconciles start from the stored object: after two edits, a
reconcile that began with an older copy sends the removal of the one failure
domain that is left, and the ready cluster has none until the next reconcile.
`PlaceInv` says that the status a running reconcile compares with is the stored
one and that what it is going to write is placeable if it is ready.

### Placement

`PlacementTheorem`: for any non-empty finite set of hosts and any hash,
`ChosenDomain` is a single host, so the index in `GetFailureDomain` is never out of
range and the choice is a function of the set and the name. The number of smaller
elements grows strictly along the order (`RankGrows`), so at most one host has the
rank; that some host has it follows by counting, with the greatest and the least
element of a finite set taken from a well-founded order.

### The composition

`CapmvmProofs` takes instances of the proofs of both controllers and shows that
every step of the manager is a step of the machine controller that leaves the
cluster alone, or one that leaves the machines alone (`Steps`). The lemmas about
the parts then carry over:

- `ManagerWakeTheorem` (`Spec => []MachinesWoken`, with every failure). A cluster
  step ends a wait only by making the infrastructure ready, and `CoreSync` queues
  every machine then. It never opens the gate: the MicrovmCluster does not come
  back, so the informer has a copy as long as there is an object (`WokenInv`).
- `ManagerPlaceableTheorem` (`Spec => []ReadyIsPlaceable`), under the conditions of
  `PlaceableTheorem`.
- `PlacedTheorem` (`Spec => []PlacedInPool`, with every failure and a cache of any
  age). `PlacedInv` says that every host named by any copy of the pool (stored and
  cached object, scope, Cluster), by any provider ID and by any scope has been
  listed. Its condition is about users: `Machine.Spec.FailureDomain` goes into the
  dial address unchecked, so a failure domain set there must be a host of the pool.

### Provider IDs

The strings are of any length and made of any tokens.

- `AddressTheorem` (`Spec => AddressKept`). `RoundTrip` is its core: without a slash
  in the endpoint or the UID, the prefix occurs in the formatted ID once, at its
  beginning, even if the endpoint is empty (`PrefixTaken`), so what precedes the
  next slash is the endpoint and what follows the last one is the UID. `IDInv` adds
  that the ID is always the one formatted from the endpoint last dialled: an
  endpoint parsed out of whatever a user wrote has no slash either.
- `ParsedTheorem` (`Spec => []ParsedByForm`), from the first colon and the last slash
  of a string (`RegexAt`, `FormParsed`, `ParsedForm`).
- `TokenTheorem` (`Spec => []OwnToken`). The key of an endpoint is that of its address
  (`EndpointKey`). `HostsAssumption` is needed: for an IPv6 address the key is what
  precedes its first colon, and a host of that name would hand over its token. A
  bracket and some digits are no host name.

### Only model-checked

Liveness (the prover has no fairness): `DeletionCompletes`, `ProvisioningConverges`,
`FailureSurfaces`, `StatusSettles`, `DomainsConverge`, `AvailabilityNoticed`, `ClusterComesUp`. Every
other property of a passing run is a theorem.

## 5. Not modelled

Contents of secrets, TLS and proxy settings, SSH keys, the microVM's own
specification (kernel, volumes, network: passed on as it is), flags, leader
election, health checks, metrics, label filters of the watches, generated code,
test fakes, the end-to-end suite. The template webhook accepts everything, and
`Default` of the machine webhook (random MAC addresses) is never called. The
`ControlPlane` flag of a failure domain has no effect in this code: the hash picks
among all of them, and Cluster API honours the flag when it sets
`Machine.Spec.FailureDomain`. `--microvmmachine-concurrency` is read and ignored
(`main.go:317`): both controllers get the cluster controller's limit, which no
property of a single machine can tell apart.

## 6. Plan

Every safety property and action property of the passing runs is proved. What
remains is upkeep: when an operation of the code changes, its action, the lemma
about it and the run that fires it change together.
