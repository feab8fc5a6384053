CONSTANTS
    e1 = e1
    e2 = e2
    e3 = e3
    Junk = Junk
    Elem = {e1, e2, e3}
    InitialCapacity = 2
    MaxBulk = 2
    MaxCount = 4
SPECIFICATION Spec
VIEW Live
INVARIANT InBounds
INVARIANT NoJunk
INVARIANT CapacityBounded
PROPERTY AbstractSpec
