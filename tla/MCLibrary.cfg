CONSTANTS
    Cwd <- MCCwd
    Dirs <- MCDirs
    Lower <- MCLower
    Capability <- MCCapability
    MaxPermEvents = 3
    MaxSources = 4
    RxCall <- MCRxCall
    RxCallback = {"ret", "thr"}
    RxNestedCb = {"obs", "two", "err", "vm"}
    RxItem <- MCRxItem
    MaxRxOps = 3
    Request <- MCRequests
    Client <- MCClients
    DefaultInterceptors <- MCDefaults
    ResponseCode = {200, 404}
    HostCapability <- MCHostCapability
    RxOp = {"popular", "latest"}
    NoFetch = {"latest"}
    MaxFuel = 2
    Elem = {"a", "b"}
    MaxItems = 2
    MaxNested = 2
    Header <- MCHeader
    Canon <- MCCanon
    MaxMessages = 3
    MaxHeaders = 2
    Builds <- MCBuilds
    MaxAsked = 1
SPECIFICATION Spec
INVARIANTS
    NothingBeyondGrants
    LatestHandlesLive
    RxMatchesStream
    AllBeforeHost
    HostReachedOnlyWithGrant
    MapKeysDistinct
    PositionsStand
    LastHeaderStands
    LoadsInEveryBuild
    HostCallsResolve
PROPERTIES
    NoErrorLost
    EveryCallAnswered
    ThrownIsCaught
CHECK_DEADLOCK FALSE
