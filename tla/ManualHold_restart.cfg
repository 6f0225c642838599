SPECIFICATION Spec
CONSTANTS
    Chargers = {"a", "b"}
    Sockets = TRUE
    MaxCar = 2
    MaxEvents = 2
    None = "none"
INVARIANTS HoldIsTheChoice StartStaysWithItsSession RecordsAreSettled
CHECK_DEADLOCK FALSE
