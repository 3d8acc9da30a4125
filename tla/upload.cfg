SPECIFICATION MCSpec
CONSTANTS
    a = a
    b = b
    Keys = {a, b}
    Empty = Empty
    None = None
    Requests <- MCRequests
    TmpNames = {t1, t2, t3}
    MaxParts = 3
    MaxRaw = 8
    max_body_size = 5
    MaxFaults = 1
    Alphabet = {32, 37, 38, 43, 45, 46, 47, 50, 61, 97, 200}
    MaxText = 4
    Threads = {th1, th2}
    IPs = {ip1, ip2, ip3}
    NoAddress = NoAddress
    MAX_RATE_LIMIT_ENTRIES = 2
    rate_limit_requests = 2
    rate_limit_window = 2
    MaxSkew = 1
    MaxClock = 4
    MaxRequests = 7
    HttpThreads = {h1, h2}
    HttpClients = {k1, k2}
    Method = {"GET", "POST", "PUT", "DELETE", "PATCH", "HEAD", "OPTIONS",
              "CONNECT", "TRACE", "UNKNOWN"}
    RequestMethods = {"GET"}
    HeaderKeys = {"a", "b"}
    Replies <- ServerReplies
    BODY_CAP = 2
    MaxCalls = 3
SYMMETRY Symmetry
INVARIANTS
    TempFilesOwned
    PartsDelivered
    BodyLimited
    ConversionsExact
    OneEntryPerClient
    AtMostTwice
    CurlCounted
    SendSettled
PROPERTY
    RefusedOnlyOverLimit
