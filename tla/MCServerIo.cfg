SPECIFICATION ServerRun
CONSTANTS
    Parts = {"autoconnect", "ping", "auth", "dns", "socket", "sql", "ldap", "timers"}
    Name <- MCName
    Chain <- MCChain
    Kind <- MCKind
    Slot = {1, 2}
    MaxConfig = 2
    Peer = {"near", "far"}
    LocalPeer = {"near"}
    PingSetting <- MCPingSetting
    MaxAge = 5
    AuthConfig <- MCAuthConfig
    MaxDelta = 2
    MaxClock = 1
    Req = {"r1", "r2", "r3"}
    Asks <- MCAsks
    Creator <- MCCreator
    Question = {"q1", "q2"}
    Id = {0, 1}
    Timeout = 1
    Ttl = 0
    MaxCache = 1
    MaxServer = 1
    Engine = {"epoll", "poll", "kqueue"}
    BufferSizes = {1, 2}
    Loads <- MCLoads
    SocketBuffer = 1
    MaxIov = 1
    NetBufferSize = 2
    Address = {"a", "b", "u"}
    ClassOf <- MCClassOf
    BlockList = {"bl1"}
    Setup <- MCSetup
    IdentTimeout = 1
    ConnectTimeout = 1
    Client = {"u1", "u2", "u3"}
    Place = {"a", "b"}
    Classes <- MCClasses
    OperClass = 4
    HasPassword = {"u1"}
    SoftLimit = 2
    Wrap = 65536
    Query = {"q1", "q2", "q3"}
    SqlCreator <- MCSqlCreator
    OnConn <- MCOnConn
    Addr = {"x", "y"}
    Request = {"r1", "r2", "r3"}
    Interface <- MCInterface
    Invitee = {"u", "v"}
    Chan = {"c", "d"}
    Epoch = 100
    Duration = {0, 1, 300}
    LastSecond = 2
    LineMask = {"m", "n"}
    SavePeriod = 1
    Backoff = 3
    MaxBackoff = 2
    MaxDay = 2
    Agent = {"a1", "a2"}
    MaxExchange = 2
    MaxFlight = 2
    MaxRejected = 1
    MaxSplit = 1
    Timer = {"t", "u", "v"}
    Seconds = {1, 2}
    MaxTime = 4
    OldNick = {"x", "y", "z"}
    WhowasTag <- MCWhowasTag
    MaxHour = 2
    Letter = {"a", "A", "b"}
    CaseMap <- MCCaseMap
    MaxText = 3
    MaxMask = 3
    File = {"f", "g"}
    Offers <- MCOffers
    CommandName = {"cmd"}
    ExtName = {"e1", "e2"}
    ModeName = {"m"}
    ServiceName = {"s"}
    OnlineUser = {"u"}
    ExtOrder <- MCExtOrder
    ExtValue = {"x", "o"}
    Opaque = {"o"}
    MaxInstance = 3
    LineKind = {"cheap", "unknown"}
    UnknownKind = {"unknown"}
    ClientLine = {"cheap", "unknown", "QUIT", "PONG"}
    Penalty <- MCPenalty
    ReplySize <- MCReplySize
    PenaltyMax = 2
    CommandRate = 1
    SoftSendQ = 2
    HardSendQ = 3
    RecvQ = 3
    PingTime = 2
    ConnectTag <- MCConnectTag
    MaxLine = 2
    MaxSendQ = 3
    CapMod = {"notify", "echo", "away"}
    Notify = "notify"
    Configured = {"away"}
    CapUser = {"c"}
    CapRequests <- MCCapRequests
    MaxCaps = 2
    MaxCapObjects = 3
INVARIANTS
    BlockAlive
    LinkedMeansAgreed
    PingsKept
    TableExact
    SocketConsistent
    QueriesSafe
    RequestsSafe
    TimersKept
PROPERTIES
    PromiseKept
    StreamKept
CHECK_DEADLOCK FALSE
