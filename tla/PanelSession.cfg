SPECIFICATION Spec
CONSTANTS
    m1 = m1
    m2 = m2
    Macs = {m1, m2}
    Tasks = {1, 2, 3}
    None = None
INVARIANTS NoLeakedSession DeadPanelHoldsNothing ShownIsLoaded
PROPERTIES SessionComesBack
