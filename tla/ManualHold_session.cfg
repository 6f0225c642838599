SPECIFICATION Spec
CONSTANTS
    Chargers = {"a"}
    Sockets = FALSE
    MaxCar = 2
    MaxEvents = 2
    None = "none"
INVARIANT RestartChecksTheSession
CHECK_DEADLOCK FALSE
