SPECIFICATION FairSpec
CONSTANTS
  timer = timer
  operator = operator
  Procs = {timer}
  May <- MayEnsure
  NArtifacts = 2
  Keep = 2
  ClockSteps = {1}
  NTargets = 2
  Feeds <- KeyThenCert
  StagingFlags = {FALSE}
  MaxDue = 3
  MaxIssued = 7
  MaxFaults = 3
INVARIANT
  GoodCopySurvives
PROPERTIES
  DueIsReplaced
  TargetsCatchUp
  TornIsRepaired
