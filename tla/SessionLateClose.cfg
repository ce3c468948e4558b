SPECIFICATION SessionSpec
CONSTANTS
    Openers = {"p1", "p2", "s1"}
    Streams = {"s1"}
    Cancellable = {}
    Conns = {1, 2, 3, 4, 5, 6}
    None = 0
    MayRemove = FALSE
    MayStop = FALSE
    MayOverrun = FALSE
    MaxLeft = 0
PROPERTIES ClosesWhenUnreferenced
CHECK_DEADLOCK FALSE
