SPECIFICATION SessionSpec
CONSTANTS
    Openers = {"p1", "s1"}
    Streams = {"s1"}
    Cancellable = {"s1"}
    Conns = {1, 2, 3, 4, 5, 6}
    None = 0
    MayRemove = TRUE
    MayStop = TRUE
    MayOverrun = TRUE
    MaxLeft = 1
PROPERTIES OpenSettles
CHECK_DEADLOCK FALSE
