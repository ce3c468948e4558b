SPECIFICATION Spec
CONSTANTS
    Cells <- Room
    NoCell = NoCell
    Points = {"home", "home2", "near", "away", "out"}
    NoPoint = NoPoint
    Grids <- CrowdGrids
    ZoneConfigs <- CrowdConfigs
    Windows <- CrowdWindows
    SensorInputs <- Silent
    Dismissals <- CrowdDismissals
    StuckTimeouts <- NoTimeouts
    AssistSettings <- NoSettings
    SensorTimeout <- Defaults
    Steps = {0, 1}
    StartTime = 10
    ClockWrap = 1000
    MaxTime = 12
INVARIANTS OccupiedHasLiveEvidence DismissedStaysSilent
PROPERTIES PendingAges
