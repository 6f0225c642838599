SPECIFICATION FairSpec
CONSTANTS
    Drivers = {"d"}
    Actions = {"battery", "ev_set_current"}
    LateActions = {"ev_set_current"}
    Chargers = {"d"}
    ObserveOnly = {}
    Meters = {"m1", "m2"}
    Limit = 2
    MaxEvents = 2
    NoAction = "none"
INVARIANTS FaultIsTracked BlockedSiteIsReleased
PROPERTIES ExclusionIsSafe ExclusionEnds
CHECK_DEADLOCK FALSE
