SPECIFICATION PSpec
CONSTANTS
    Cells <- Room
    NoCell = NoCell
    Points = {"home", "home2", "near", "away", "out"}
    NoPoint = NoPoint
    Null = Null
    Grids <- ParityGrids
    ZoneConfigs <- ParityConfigs
    Windows <- ParityWindows
    SensorInputs <- ParitySensors
    Dismissals <- OnlySlot0
    StuckTimeouts <- ParityStuck
    AssistSettings <- ParityAssists
    SensorTimeout <- ParityHolds
    Steps = {1}
    StartTime = 10
    ClockWrap = 1000
    MaxTime = 13
INVARIANTS MirrorsFirmware
PROPERTIES ReportsAlike
