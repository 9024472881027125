CONSTANTS
  hourly = hourly
  manual = manual
  Jobs = {hourly, manual}
  Interval <- IntervalOf
  Tasks = {t1, t2, t3}
  Worker = Worker
  None = None
  CountBase = 2
  MaxRequests = 2
  MaxFailures = 1
  MaxCrashes = 1
SYMMETRY Symmetry
SPECIFICATION Spec
INVARIANTS
  TypeOK
  RegisteredIsCurrent
  EveryJobIsPolled
  SurplusOnlyByCallback
  RunningIsExecuted
  CountIsTotal
