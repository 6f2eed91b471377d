CONSTANTS
    Machines = {m1}
    Hosts = {1, 2}
    UIDs = {u1, u2}
    MachineFD <- Pinned
    NameHash <- Hashes
    Labelled = {}
    Gates = {"ok", "noOwner", "noCluster", "noMvmCluster"}
    Faults = {"stale", "crash", "patch", "rpc", "lostReply", "misread"}
    MaxFaults = 2
    MaxConcurrentReconciles = 1
    EmptyUIDAnswer = "NotFound"
    NoID = NoID
    NoUID = NoUID
    NoHost = NoHost
    NoMachine = NoMachine
SPECIFICATION Spec
SYMMETRY UIDSymmetry
INVARIANTS TypeOK SafetyInv ReadyNamesOwnVM NothingForgotten
PROPERTIES FinalizerBeforeCreate ImplementsLifecycle
CHECK_DEADLOCK FALSE
