SPECIFICATION Spec
CONSTANTS
    Reservations = {"a", "b", "c"}
    Runs = {"r1", "r2"}
    Request <- MCRequest
    Ceiling <- MCCeiling
    Limit = 5
    Usages <- MCUsages
    Lease = 1
    Jobs = {"j"}
    JobAmount <- MCJobAmount
    JobCosts = {1, 2}
    MaxTime = 2
    MaxBooked = 2
INVARIANTS RunCeilingsHold ProjectLimitHolds
PROPERTY SettlesOnce
