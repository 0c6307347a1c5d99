SPECIFICATION Spec
CONSTANTS
    GamePorts <- ApartPorts
    CustomGotv = {}
    Overlap = FALSE
INVARIANTS TypeOK OpenWhileDeployed NoRuleLeft NoClash
