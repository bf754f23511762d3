CONSTANTS
    web = web
    web2 = web2
    p1 = p1
    VMs = {web, web2}
    Procs = {p1}
    Matches <- MCMatches
    MaxTicks = 1
    VirshFaults = FALSE
    Filters = {"all", "running"}
SPECIFICATION FairQuerySpec
INVARIANTS
    LookInv
    ListAccurate
PROPERTIES
    GracefulWaitsOut
    WatchEnds
