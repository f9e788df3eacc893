SPECIFICATION FairSpec

CONSTANTS
    Keys = {k1}
    Procs = {p1, p2, p3}
    None = None
    k1 = k1
    p1 = p1
    p2 = p2
    p3 = p3

INVARIANTS
    StartIsAuthorized
    ResultIsTrue

PROPERTIES
    ApprovalSettlesOnce
    ImplementsGovernedCommand
    RunningIsSettled
