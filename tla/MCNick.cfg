CONSTANTS
    s1 = s1  s2 = s2  s3 = s3
    u1 = u1  u2 = u2  u3 = u3
    n1 = n1
    Server = {s1, s2, s3}
    User = {u1, u2, u3}
    Nick = {n1}
    NoUser = NoUser
    Neighbor <- LineNeighbor
    Offset <- LineOffset
    Home <- AllHome
    Person <- TwoAlike
    Scenario = {"ends", "three"}
    MaxNow = 1
    MaxNicks = 2
SPECIFICATION ScenarioSpec
INVARIANTS
    ClientListExact
    NetworkAgrees
PROPERTIES
    SaveJustified
CHECK_DEADLOCK FALSE
