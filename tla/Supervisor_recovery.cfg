SPECIFICATION Spec
CONSTANTS
    Operations = {o1}
    MaxBackends = 2
    MaxDeaths = 1
    MaxFailures = 1
INVARIANTS OwnershipHolds UsageIsAccountedFor DeletedProjectIsQuiet
PROPERTIES CallsEnd BackendsStart
CHECK_DEADLOCK FALSE
