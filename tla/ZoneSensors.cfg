SPECIFICATION HSpec
CONSTANTS
    Cells <- Room
    NoCell = NoCell
    Points = {"home", "home2", "near", "away", "out"}
    NoPoint = NoPoint
    Grids <- SensorGrids
    ZoneConfigs <- SensorConfigs
    Windows <- SensorWindows
    SensorInputs <- AnySensors
    Dismissals <- NoDismissals
    StuckTimeouts = {2}
    AssistSettings <- Assists
    SensorTimeout <- SensorTimeouts
    Steps = {1}
    StartTime = 10
    ClockWrap = 1000
    MaxTime = 16
PROPERTIES ReportedIsActual NoEarlyClear StuckNeedsDwell
