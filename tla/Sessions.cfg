SPECIFICATION SessionSpec
CONSTANTS
    p1 = p1
    p2 = p2
    s1 = s1
    Openers = {p1, p2, s1}
    Streams = {s1}
    Cancellable = {s1}
    Conns = {1, 2, 3, 4, 5, 6}
    None = 0
    MayRemove = TRUE
    MayStop = TRUE
    MayOverrun = TRUE
    MaxLeft = 1
INVARIANTS RefsMatchHolders NoForgottenSession OneSocket StoppedIsClosed
PROPERTIES NoStrandedSession
SYMMETRY AnyPanel
CHECK_DEADLOCK FALSE
