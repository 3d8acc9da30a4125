SPECIFICATION FairSpec
CONSTANTS
    Conns = {c1, c2}
    AppThreads = {t1}
    Lws = lwsthread
    DirectSenders = {}
    Msgs = {1}
    MAX_WS_CONNECTIONS = 2
    WS_MAX_QUEUE_MSGS = 1
    WS_MAX_QUEUE_BYTES = 3
    MaxCalls = 2
    None = None
    MsgLen <- LenOf
INVARIANTS
    RegistrySafe
    NoFault
    NoLeak
PROPERTIES
    Delivery
    NobodyStuck
