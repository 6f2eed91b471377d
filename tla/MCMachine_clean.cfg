CONSTANTS
    Machines = {m1}
    Hosts = {1, 2}
    UIDs = {u1, u2}
    MachineFD <- Unpinned
    NameHash <- Hashes
    Labelled = {m1}
    Gates = {"ok", "noOwner", "error"}
    Faults = {"rpc", "creds", "gate", "placement", "vmfail", "operator", "edit"}
    MaxFaults = 3
    MaxConcurrentReconciles = 1
    EmptyUIDAnswer = "NotFound"
    NoID = NoID
    NoUID = NoUID
    NoHost = NoHost
    NoMachine = NoMachine
SPECIFICATION Spec
SYMMETRY UIDSymmetry
INVARIANTS GoneMeansClean NoDuplicateVM StatusAgrees
CHECK_DEADLOCK FALSE
