SPECIFICATION Spec
CONSTANTS
    m1 = m1
    m2 = m2
    Macs = {m1, m2}
    Removable = {m1}
    Streams = {"grid", "heatmap"}
    Overlay = "heatmap"
    Spot = "grid"
    RetryLimit = 2
    Slots <- GridTwoHeatOne
    None = None
INVARIANTS NoOrphanStream NoDeafStream OneWayOn
PROPERTIES BannerOnlyOnOutage KeepsPromise
