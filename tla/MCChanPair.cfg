CONSTANTS
    s1 = s1
    s2 = s2
    s3 = s3
    u1 = u1
    u2 = u2
    u3 = u3
    Server = {s1, s2, s3}
    User = {u1, u2, u3}
    Topic = {1, 2}
    Path <- LinePath
    Offset <- LineOffset
    Home <- PairHome
    Scenario <- PairScenarios
SPECIFICATION Spec
CHECK_DEADLOCK FALSE
INVARIANTS
    ChannelAgreement
    OpsEarned
    KickHitsItsTarget
