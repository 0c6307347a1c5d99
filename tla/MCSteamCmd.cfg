SPECIFICATION FairSpec
CONSTANTS
    Callers = {c1, c2}
    MaxAttempts = 3
    MaxCalls = 2
INVARIANTS TypeOK WipeAfterTwoStateErrors ProgressCleared
PROPERTIES InstallKept CallReturns EveryStepCounts
