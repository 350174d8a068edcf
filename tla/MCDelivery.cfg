SPECIFICATION FairSpec
CONSTANTS
  target = target
  second = second
  facts = facts
  pkg = pkg
  etc = etc
  Outputs = {target, second, facts}
  Observers = {facts}
  Dirs = {pkg, etc}
  DirOf <- MCDirOf
  BlocksOf <- MCBlocks
  Broad = {etc}
  Removable = {pkg}
  Kinds = {"service", "distribute"}
  MaxRenewals = 1
  MaxEdits = 1
  MaxFaults = 1
INVARIANTS HealthyServed NarrowSandbox
PROPERTIES RenewedAnyway Served

