SPECIFICATION Spec
CONSTANTS
    Senders = {s1, s2}
    Stoppers = {t1}
    MayFail = {"context", "connect", "service", "write"}
    MaxConnects = 2
    MaxSends = 3
    MaxStops = 1
SYMMETRY Symmetry
INVARIANTS
    Fifo
    NoLostWakeup
    WsiIsLive
