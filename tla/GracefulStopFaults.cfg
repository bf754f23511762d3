CONSTANTS
    web = web
    web2 = web2
    p1 = p1
    p2 = p2
    VMs = {web, web2}
    Procs = {p1}
    Matches <- MCMatches
    MaxTicks = 3
    VirshFaults = TRUE
SPECIFICATION Spec
PROPERTIES GracefulWaitsOut
