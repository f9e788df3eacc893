SPECIFICATION ChaosSpec
CONSTANTS
    gw_prepare = gw_prepare
    gw_execute = gw_execute
    gw_execute_competing = gw_execute_competing
    gw_status = gw_status
    gw_recover = gw_recover
    gw_evidence = gw_evidence
    Ids = {gw_prepare, gw_execute, gw_execute_competing, gw_status, gw_recover, gw_evidence}
    exec = exec
    Requests = {exec}
    auth = auth
    Auths = {auth}
    o1 = o1
    Obligations = {o1}
    h1 = h1
    PlanHashes = {h1}
    economic_plan <- MCPlan
    Inputs <- MCInputs
    first = first
    second = second
    Procs = {first, second}
    ForksPossible = FALSE
    None = None
    Scenarios <- AllScenarios
    MaxAsked = 3
INVARIANTS
    ResultIsBacked
    RefusalSentNothing
    SendIsAccountedFor
    ScenariosEndAsDocumented
PROPERTIES
    NoSendAfterAnswer
