SPECIFICATION Spec
CONSTANTS
    Phones = {"p", "q"}
    Watches = {"w"}
    Households <- MCHouseholds
    Available = FALSE
    Roles = {"owner", "viewer"}
    Kinds = {"qr", "spoken"}
    Handlers = {"h", "k"}
    MaxTries = 2
    MaxOps = 3
    MaxLoss = 1
    MaxFault = 1
    NoOne = "nobody"
INVARIANTS OneCodeOnePhone RosterIsSound RevokedStaysGone
CHECK_DEADLOCK FALSE
