SPECIFICATION Spec
CONSTANTS
    Account = "right"
    Typed = {"right", "wrong"}
    RecordUnits = 3
    HeaderUnits = 2
    NULL = NULL
CHECK_DEADLOCK FALSE
INVARIANTS
    Agreement
    SidesInStep
    LoginIsGranted
PROPERTIES
    LoginReturns
