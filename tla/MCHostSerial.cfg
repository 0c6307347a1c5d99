SPECIFICATION Spec
CONSTANTS
    Ports = {p1, p2}
    Goroutines = {g1}
    Ops = {"deploy", "stop", "remove", "restart", "update", "reinstall", "setup", "validate"}
    Faults = {"docker", "files"}
    MaxContainers = 1
    Restarts = 0
SYMMETRY HostSymmetry
INVARIANTS TypeOK MarkerTrustworthy UpdatePaysBack
PROPERTIES DeployStartsComplete InstancesKept EveryStepCounts
