CONSTANTS
    a = a
    b = b
    c = c
    Server = {a, b, c}
    Conn <- AllConn
    Scenario <- AllScenarios
SPECIFICATION Spec
CHECK_DEADLOCK FALSE
INVARIANTS
    TreeExact
    TreeMatchesNetwork
    LinesAccepted
