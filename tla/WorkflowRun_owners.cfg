CHECK_DEADLOCK FALSE
CONSTANTS
  Controllers = {c1, c2}
  LeaseTicks = 1
  MaxResumes = 1
  MaxStops = 2
SPECIFICATION FairSpec
INVARIANTS TenuresAreContiguous OwnerIsUpToDate CancelledNeverSucceeds
PROPERTIES ImplementsFencedLog RunningRunSettles IntentStopsRun
