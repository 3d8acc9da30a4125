SPECIFICATION MCSpec
CONSTANTS
    ParamSegs <- Params
    MarkedSegs <- Marked
    Beginnings <- Starts
    PAPAGO_MAX_ROUTE_PARAMS = 2
    Methods = {"GET", "POST"}
    Patterns <- RoutePatterns
    Paths <- RoutePaths
    MiddlewarePaths <- Scopes
    EmbeddedPaths <- Embedded
    PAPAGO_MAX_ROUTES = 2
    PAPAGO_MAX_MIDDLEWARE = 2
    RequireClientCert = TRUE
    enable_compression = TRUE
    MayFail = {"memory", "mhd"}
    UserStatuses = {401}
    MaxSetup = 4
    None = None
    Origins = {"o1", "o2", "o3"}
    CorsConfigs <- Configs
    CorsMethods = {"GET", "POST", "PUT"}
    FieldNames = {"f"}
    FileSystems <- Disks
    StaticDirs <- Roots
    RequestPaths <- Asked
    Changes <- Swaps
    NameBegins <- Begins
    PATH_MAX = 4
    MaxChanges = 2
    RenderThreads = {r1, r2}
    Vars = {"x", "y"}
    Values = {"one", "two"}
    TemplateTexts <- Texts
    ArgLists <- Arguments
    OutputSizes = {2, 4}
    STREAM_CAP = 2
    MaxRenders = 3
    Urls = {"a", "b", "c", "d", "long"}
    Shortened <- ShortUrl
    MetricMethods = {"GET"}
    Served <- ServedRequests
    ULONG_MAX = 6
    MAX_ENDPOINTS = 3
    METRICS_BUF_SIZE = 14
    PAGE_MARGIN = 4
    HeadLen = 4
    EntryLen <- PrintedLen
    MaxUpdates = 5
INVARIANTS
    RightAnswer
    AftersMirrorBefores
    GuardedHandler
    CountedAndFreed
    CorsAgrees
    StaticContained
    RenderExact
    StreamSound
    MetricsAgree
PROPERTY
    PageWhole
