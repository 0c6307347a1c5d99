SPECIFICATION Spec
CONSTANTS
    Ports = {p1}
    Goroutines = {g1}
    Ops = {"deploy", "update", "restart"}
    Faults = {}
    MaxContainers = 1
    Restarts = 0
SYMMETRY HostSymmetry
INVARIANTS StartedOnMarked
