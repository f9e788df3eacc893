SPECIFICATION FairSpec

CONSTANTS
    Ids = {g1}
    Inputs = {i1, i2}
    Procs = {p1, p2, p3}
    None = None
    g1 = g1
    i1 = i1
    i2 = i2
    p1 = p1
    p2 = p2
    p3 = p3

INVARIANTS
    AnswersAgree
    AnswersAreTruthful

PROPERTIES
    ImplementsOneAnswer
    StoredAnswerIsTold
