SPECIFICATION AgentSpec
CONSTANTS
    Updaters = {u1}
    MaxVersion = 2
    Rollback = FALSE
    Restarts = 1
    Broken = Broken
    NoFile = NoFile
    NoSum = NoSum
    Appliers = {startup, apply}
    Startup = startup
    Torn = FALSE
INVARIANTS AgentTypeOK BinaryWhole ChecksumKept MarkerTruthful
PROPERTIES AlreadyLatestTrue ReleaseTakesEffect
CHECK_DEADLOCK FALSE
