SPECIFICATION MCSpec
CONSTANTS
    a = a
    b = b
    Keys = {a, b}
    Empty = Empty
    None = None
    Requests <- FileBetweenFields
    TmpNames = {t1}
    MaxParts = 0
    MaxRaw = 0
    max_body_size = 5
    MaxFaults = 0
    Alphabet = {}
    MaxText = 0
    Threads = {}
    IPs = {}
    NoAddress = NoAddress
    MAX_RATE_LIMIT_ENTRIES = 0
    rate_limit_requests = 0
    rate_limit_window = 0
    MaxSkew = 0
    MaxClock = 0
    MaxRequests = 0
    HttpThreads = {}
    HttpClients = {}
    Method = {"GET", "POST", "PUT", "DELETE", "PATCH", "HEAD", "OPTIONS",
              "CONNECT", "TRACE", "UNKNOWN"}
    RequestMethods = {"GET"}
    HeaderKeys = {"a", "b"}
    Replies <- ServerReplies
    BODY_CAP = 2
    MaxCalls = 0
INVARIANT FormExact
