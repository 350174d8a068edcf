SPECIFICATION FairSpec
CONSTANTS
  timer = timer
  operator = operator
  Procs = {timer, operator}
  May <- MayDistribute
  NArtifacts = 2
  Keep = 0
  ClockSteps = {1}
  NTargets = 2
  Feeds <- KeyThenCert
  StagingFlags = {FALSE}
  MaxDue = 1
  MaxIssued = 3
  MaxFaults = 1
INVARIANTS
  CertNewest
  TargetsBehindStore

  
