SPECIFICATION FairSpec
CONSTANTS
    Main = Main
    Lws = Lws
    Sig = Sig
    None = None
    h1 = h1
    h2 = h2
    o1 = o1
    Handlers = {h1}
    Outside = {o1}
    Callers = {Sig}
    MayFail <- NoFailures
    MaxStops = 1
    MaxStarts = 1
PROPERTY StopReturns
CHECK_DEADLOCK FALSE
