CONSTANTS
    Machines = {m1}
    Hosts = {1, 2}
    UIDs = {u1, u2}
    MachineFD <- Unpinned
    NameHash <- Hashes
    Labelled = {}
    Gates = {"ok", "paused", "noCluster"}
    Faults = {"crash", "patch", "rpc", "lostReply", "creds", "gate", "vmfail", "operator"}
    MaxFaults = 1
    MaxConcurrentReconciles = 1
    EmptyUIDAnswer = "Error"
    NoID = NoID
    NoUID = NoUID
    NoHost = NoHost
    NoMachine = NoMachine
SPECIFICATION FairSpec
INVARIANT NotReadyBeforeDelete
PROPERTIES DeletionCompletes ProvisioningConverges FailureSurfaces StatusSettles
CHECK_DEADLOCK FALSE
