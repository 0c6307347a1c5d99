SPECIFICATION Spec
CONSTANTS
    Instances = {p1}
    Goroutines = {g1}
    Ops = {"deploy", "update", "reinstall", "setup"}
    Mishaps = 1
    Interrupt = FALSE
INVARIANTS TypeOK SteamclientWhole DeepOnlyAfterFault
PROPERTIES LikeDeepCopies
