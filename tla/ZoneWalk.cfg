SPECIFICATION HSpec
CONSTANTS
    Cells <- Room
    NoCell = NoCell
    Points = {"home", "near", "away", "out"}
    NoPoint = NoPoint
    Grids <- WalkGrids
    ZoneConfigs <- WalkConfigs
    Windows <- WalkWindows
    SensorInputs <- Silent
    Dismissals <- OnlySlot0
    StuckTimeouts <- NoTimeouts
    AssistSettings <- NoSettings
    SensorTimeout <- Defaults
    Steps = {1}
    StartTime = 10
    ClockWrap = 1000
    MaxTime = 16
INVARIANTS TypeOK ClearForgets DisabledZonesClear HoldBound
PROPERTIES NoGhostEntry
