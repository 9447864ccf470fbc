SPECIFICATION Spec
CONSTANTS
    Jobs = {j1}
    Instances = 2
    MaxSandboxes = 3
    MaxDeaths = 2
INVARIANTS CommandStartsOnce LiveSandboxIsPaid LiveSandboxHasTask DeletionLeavesNothing
PROPERTIES JobsAreSettled
CHECK_DEADLOCK FALSE
