SPECIFICATION Spec
CONSTANTS
  Horizon = 4
  Expressions = {"every", "cron"}
  Key <- WindowKeys
  Order <- TwoSchedules
  Initially <- TwoInitially
  Enabled = {"nightly"}
  Cron = {"cron"}
  SkipPolicy = {"nightly"}
  Grace = 1
  MaxFires = 1
  MaxListed = 1
  StopScan = 10
  MaxRequests = 0
  MaxMishaps = 0
CHECK_DEADLOCK FALSE
INVARIANTS FirstOccurrencesRun
