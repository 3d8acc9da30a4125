SPECIFICATION Spec
CONSTANTS
    Conns = {c1}
    AppThreads = {t1}
    Lws = lwsthread
    DirectSenders = {t1}
    Msgs = {1, 2}
    MAX_WS_CONNECTIONS = 2
    WS_MAX_QUEUE_MSGS = 2
    WS_MAX_QUEUE_BYTES = 3
    MaxCalls = 3
    None = None
    MsgLen <- LenOf
INVARIANTS
    NoFault
