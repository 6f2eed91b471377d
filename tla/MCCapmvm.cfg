CONSTANTS
    Machines = {m1}
    Hosts = {1, 2, 3}
    UIDs = {u1}
    MachineFD <- Unpinned
    NameHash <- Hashes
    Labelled = {}
    EmptyUIDAnswer = "NotFound"
    NoID = NoID
    NoUID = NoUID
    NoHost = NoHost
    NoMachine = NoMachine
    Pools <- OnePool
    NoPool = NoPool
    Updates <- OtherPool
    Faults = {"patch", "placement", "delete"}
    MaxFaults = 1
SPECIFICATION FairSpec
INVARIANTS ReadyIsPlaceable PlacedInPool MachinesWoken
PROPERTIES ClusterComesUp DeletionCompletes
CHECK_DEADLOCK FALSE
