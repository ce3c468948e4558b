SPECIFICATION Spec
CONSTANTS
    c1 = c1
    c2 = c2
    d1 = d1
    d2 = d2
    Cards = {c1, c2}
    Devices = {d1, d2}
    Dashboards <- TwoDashboards
    Spot = d1
    Calls = {1, 2}
    Timers = {1, 2}
    MaxConn = 2
    None = None
INVARIANTS NoOrphanStream NoDeafEntry NeverStranded
PROPERTIES HealthyStaysOnline KeepsPromise
