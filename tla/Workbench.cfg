SPECIFICATION CasesSpec
CONSTANTS
    Keys = {k1, k2}
    Procs = {p1, p2}
    Targets = {w, v}
    Asks <- MCAsks
    w = w
    v = v
    None = None
    k1 = k1
    k2 = k2
    p1 = p1
    p2 = p2
SYMMETRY Symmetry
INVARIANTS
    EffectsAreGoverned
    SuccessIsDone
    RecordedMeansStopped
PROPERTIES
    EditsAreDeliberate
