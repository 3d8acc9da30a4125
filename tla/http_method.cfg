SPECIFICATION HttpSpec
CONSTANTS
    HttpThreads = {h1}
    HttpClients = {k1}
    Method = {"GET", "POST", "PUT", "DELETE", "PATCH", "HEAD", "OPTIONS",
              "CONNECT", "TRACE", "UNKNOWN"}
    RequestMethods = {"GET", "PUT"}
    HeaderKeys = {"a", "b"}
    Replies <- ServerReplies
    BODY_CAP = 2
    MaxCalls = 2
INVARIANT MethodSent
