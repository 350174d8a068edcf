SPECIFICATION Spec
CONSTANTS
  timer = timer
  operator = operator
  Procs = {timer}
  May <- MayEnsure
  NArtifacts = 2
  Keep = 0
  ClockSteps = {1}
  NTargets = 2
  Feeds <- KeyThenCert
  StagingFlags = {FALSE}
  MaxDue = 1
  MaxIssued = 2
  MaxFaults = 1
INVARIANT
  FailedCycleIsRetried
