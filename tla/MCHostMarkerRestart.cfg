SPECIFICATION Spec
CONSTANTS
    Ports = {p1}
    Goroutines = {g1}
    Ops = {"deploy", "reinstall"}
    Faults = {}
    MaxContainers = 1
    Restarts = 1
SYMMETRY HostSymmetry
INVARIANTS MarkerTrustworthy
