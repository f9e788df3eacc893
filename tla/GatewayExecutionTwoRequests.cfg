SPECIFICATION TwoRequests
CONSTANTS
    Requests = {r1, r2}
    Auths = {a1, a2}
    Spare = a2
    Obligations = {o1}
    PlanHashes = {h1}
    Procs = {p1, p2}
    ForksPossible = TRUE
    None = None
    r1 = r1
    r2 = r2
    a1 = a1
    a2 = a2
    o1 = o1
    h1 = h1
    p1 = p1
    p2 = p2
SYMMETRY FullSymmetry
INVARIANTS
    AuthorizationSingleUse
    OneActivePreparation
    QuietSettlement
    QuietRematerialization
PROPERTIES
    QuietTerminalObservation
    QuietFailedBeforeBroadcast
