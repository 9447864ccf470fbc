SPECIFICATION Spec
CONSTANTS
    Calls = {1, 2}
    MaxDisturbances = 0
PROPERTY NeverReleasesAcceptedWork
CHECK_DEADLOCK FALSE
