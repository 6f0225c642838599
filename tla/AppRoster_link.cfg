SPECIFICATION FairSpec
CONSTANTS
    Phones = {"p"}
    Watches = {}
    Households <- OnePhone
    Available = TRUE
    Roles = {"owner"}
    Kinds = {"qr"}
    Handlers = {"h"}
    MaxTries = 1
    MaxOps = 2
    MaxLoss = 1
    MaxFault = 0
    NoOne = "nobody"
INVARIANTS ShownHomeStays NoChangeIsForgotten
PROPERTIES LinkSettles
CHECK_DEADLOCK FALSE
