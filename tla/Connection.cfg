SPECIFICATION FairSpec
CONSTANTS
    Commands = {c1, c2}
    Beat = Beat
    NoMsg = NoMsg
    MaxConns = 2
    SendCap = 2
    MaxBackoff = 2
INVARIANTS TypeOK ResponseAccounting ReadDoneMeansDead OneBeatPerOutage
PROPERTIES BacklogKept DeliveryKept ShutdownReturns DeadLinkNoticed
CHECK_DEADLOCK FALSE
