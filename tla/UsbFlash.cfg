SPECIFICATION Spec
CONSTANTS
    f1 = f1
    f2 = f2
    f3 = f3
    Flows = {f1, f2, f3}
    MaxAttempts = 2
    None = None
SYMMETRY AnyOrder
INVARIANTS ProgressHasFlow
PROPERTIES OnlyScansLoseLocks
