SPECIFICATION Spec
CONSTANTS
    GamePorts = {27015, 27020}
    CustomGotv = {}
    Overlap = FALSE
INVARIANTS OpenWhileDeployed
