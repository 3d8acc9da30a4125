SPECIFICATION FairSpec
CONSTANTS
    Senders = {}
    Stoppers = {t1, t2}
    MayFail = {"context", "connect", "service", "write"}
    MaxConnects = 1
    MaxSends = 3
    MaxStops = 2
INVARIANTS
    NoFaultUnlessRefused
    NoContextLeft
PROPERTIES
    RunEnds
    Delivery
