SPECIFICATION Spec
CONSTANTS
    Instances = {p1}
    Goroutines = {g1}
    Ops = {"deploy"}
    Mishaps = 1
    Interrupt = TRUE
INVARIANTS SteamclientWhole
