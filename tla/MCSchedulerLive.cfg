CONSTANTS
  hourly = hourly
  manual = manual
  Jobs = {hourly}
  Interval <- IntervalOf
  Tasks = {t1, t2}
  Worker = Worker
  None = None
  CountBase = 2
  MaxRequests = 2
  MaxFailures = 1
  MaxCrashes = 1
SPECIFICATION FairSpec
PROPERTIES
  EveryJobIsExecuted
  QueueDrains
