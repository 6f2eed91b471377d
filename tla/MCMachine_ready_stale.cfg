CONSTANTS
    Machines = {m1}
    Hosts = {1, 2}
    UIDs = {u1, u2}
    MachineFD <- Unpinned
    NameHash <- Hashes
    Labelled = {}
    Gates = {"ok"}
    Faults = {"stale"}
    MaxFaults = 0
    MaxConcurrentReconciles = 1
    EmptyUIDAnswer = "Error"
    NoID = NoID
    NoUID = NoUID
    NoHost = NoHost
    NoMachine = NoMachine
SPECIFICATION Spec
SYMMETRY UIDSymmetry
INVARIANT NotReadyBeforeDelete
CHECK_DEADLOCK FALSE
