CONSTANTS
    s1 = s1
    s2 = s2
    r1 = r1
    r2 = r2
    p1 = p1
    c1 = c1
    c2 = c2
    Streams = {s1, s2}
    Retries = {r1, r2}
    Spawns = {p1}
    Conns = {c1, c2}
    None = None
    MayStop = TRUE
    ReaddEarly = FALSE
SPECIFICATION FairSpec
INVARIANTS ArmedOnce NothingLeaks NeverForgotten ToldTruth
PROPERTIES Rearms
CHECK_DEADLOCK FALSE
