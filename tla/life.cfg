SPECIFICATION FairSpec
CONSTANTS
    Main = Main
    Lws = Lws
    Sig = Sig
    None = None
    h1 = h1
    h2 = h2
    o1 = o1
    Handlers = {h1, h2}
    Outside = {o1}
    Callers <- ThreadCallers
    MayFail <- Parts
    MaxStops = 3
    MaxStarts = 2
INVARIANTS
    TornDownSafely
    StopWakesStart
PROPERTIES
    StopHonoured
    StopReturns
    DestroyCompletes
