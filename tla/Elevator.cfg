CONSTANTS
    Person = {p1, p2}
    FloorCount = 3
    Trips = 2
    Inside = Inside
SPECIFICATION FairSpec
INVARIANT QueueInv
INVARIANT RequestInv
PROPERTY LiftSpec
PROPERTY Termination
