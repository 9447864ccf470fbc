SPECIFICATION Spec
CONSTANTS
    Sessions = {s1, s2}
    Turns = {1, 2}
    Tabs = {b1}
    Cap = 1
    Limit = 1
    MaxObjects = 2
    MaxFrames = 2
    MaxTroubles = 1
INVARIANTS AbortsHold ReadersAreRight
PROPERTIES SpendIsSeen ClaimedSessionStaysOpen TurnsSettle
CHECK_DEADLOCK FALSE
