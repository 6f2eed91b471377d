CONSTANTS
    Machines = {m1}
    Hosts = {1, 2}
    UIDs = {u1, u2}
    MachineFD <- Unpinned
    NameHash <- Hashes
    Labelled = {}
    Gates = {"ok"}
    Faults = {"crash"}
    MaxFaults = 1
    MaxConcurrentReconciles = 1
    EmptyUIDAnswer = "Error"
    NoID = NoID
    NoUID = NoUID
    NoHost = NoHost
    NoMachine = NoMachine
SPECIFICATION Spec
SYMMETRY UIDSymmetry
INVARIANT GoneMeansClean
CHECK_DEADLOCK FALSE
