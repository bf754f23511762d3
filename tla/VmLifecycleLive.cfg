CONSTANTS
    web = web
    web2 = web2
    p1 = p1
    p2 = p2
    VMs = {web}
    Procs = {p1, p2}
    Matches <- MCMatches
    MaxTicks = 2
    VirshFaults = TRUE
SPECIFICATION FairSpec
PROPERTIES CommandsTerminate ImplementsStore
