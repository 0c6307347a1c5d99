SPECIFICATION FairSpec
CONSTANTS
    Ports = {p1}
    Goroutines = {g1}
    Ops = {"deploy", "remove", "update", "reinstall"}
    Faults = {"docker", "files"}
    MaxContainers = 1
    Restarts = 2
PROPERTIES DeployStartsComplete CommandsEnd
