SPECIFICATION FairSpec
CONSTANTS
    Requests = {r1}
    Auths = {a1}
    Obligations = {o1}
    PlanHashes = {h1}
    Procs = {p1, p2}
    ForksPossible = FALSE
    None = None
    r1 = r1
    a1 = a1
    o1 = o1
    h1 = h1
    p1 = p1
    p2 = p2
PROPERTIES
    OutcomeIsLearned
