CONSTANTS
    web = web
    web2 = web2
    p1 = p1
    p2 = p2
    VMs = {web, web2}
    Procs = {p1, p2}
    Matches <- MCMatches
    MaxTicks = 1
    VirshFaults = TRUE
SPECIFICATION Spec
SYMMETRY ProcSymmetry
INVARIANTS Inv
PROPERTIES ConsentBeforeRemoval
