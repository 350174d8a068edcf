SPECIFICATION Spec
CONSTANTS
  timer = timer
  operator = operator
  Procs = {timer}
  May <- MayAll
  NArtifacts = 2
  Keep = 1
  ClockSteps = {0, 1}
  NTargets = 2
  Feeds <- KeyThenCert
  StagingFlags = {FALSE}
  MaxDue = 1
  MaxIssued = 3
  MaxFaults = 2
INVARIANTS
  NoFaultNoTear
  WriteHasBackup
  EnsureOkDelivered
  VoidOkLeavesNoRevoked
