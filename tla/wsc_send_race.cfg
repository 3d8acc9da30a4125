SPECIFICATION Spec
CONSTANTS
    Senders = {s1}
    Stoppers = {}
    MayFail = {}
    MaxConnects = 1
    MaxSends = 1
    MaxStops = 0
INVARIANT NoFault
