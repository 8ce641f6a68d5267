SPECIFICATION FairSpec
CONSTANTS
    Worker = {k1, k2}
    Quantity = 4
    Pressure = 2
    Faults = {"error", "lost"}
INVARIANTS SlotsMatch AllCameBack
PROPERTIES EchoReturns CancelEnds
