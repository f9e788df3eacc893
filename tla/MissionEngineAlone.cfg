SPECIFICATION Spec

CONSTANTS
    Steps = {1, 2, 3}
    Missions <- Graphs
    Gated = {1}
    MaxAttempts = 2
    MaxCommands = 4
    Procs = {p1}
    None = None
    p1 = p1

INVARIANTS
    CompletedRunIsDone

PROPERTIES
    SucceededIsTerminal
