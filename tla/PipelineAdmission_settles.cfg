SPECIFICATION Spec
CONSTANTS
    Calls = {1, 2}
    MaxDisturbances = 1
INVARIANTS DispatchIsSafe SettlementsAgree ChargedRunsHaveEnded
PROPERTIES AdmissionSettles
CHECK_DEADLOCK FALSE
