CONSTANTS
    s1 = s1  s2 = s2  s3 = s3
    u1 = u1  u2 = u2  u3 = u3
    n1 = n1
    Server = {s1, s2, s3}
    User = {u1, u2}
    Topic = {1, 2}
    Path <- LinePath
    Offset <- LineOffset
    Home <- EndsHome
    Scenario <- LineScenarios
    NickUser = {u1, u2, u3}
    NickName = {n1}
    NoUser = NoUser
    MaxNow = 1
    MaxNicks = 1
SPECIFICATION NetworkSpec
CHECK_DEADLOCK FALSE
INVARIANTS
    ChannelAgreement
PROPERTIES
    ComesToRest
