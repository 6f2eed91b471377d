CONSTANTS
    Hosts = {1, 2}
    Pools <- MCPools
    NoPool = NoPool
    Updates <- AsAdmitted
    Faults = {"stale", "patch", "crash", "owner", "workload", "placement", "delete"}
    MaxFaults = 2
SPECIFICATION FairSpec
INVARIANT TypeOK
PROPERTIES DomainsConverge AvailabilityNoticed
