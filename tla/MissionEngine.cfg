SPECIFICATION Spec

CONSTANTS
    Steps = {1, 2}
    Missions <- Chain
    Gated = {1}
    MaxAttempts = 2
    MaxCommands = 3
    Procs = {p1, p2}
    None = None
    p1 = p1
    p2 = p2

SYMMETRY Symmetry

INVARIANTS
    SuccessIsBacked

PROPERTIES
    ImplementsGovernedMission
