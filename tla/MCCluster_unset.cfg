CONSTANTS
    Hosts = {1, 2}
    Pools <- MCPools
    NoPool = NoPool
    Updates <- AsAdmitted
    Faults = {"placement"}
    MaxFaults = 1
SPECIFICATION Spec
INVARIANT ReadyIsPlaceable
