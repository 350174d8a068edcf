SPECIFICATION FairSpec
CONSTANTS
  timer = timer
  hand = hand
  root = root
  syscert = syscert
  alice = alice
  Procs = {timer, hand}
  UserOf <- MCUserOf
  CmdOf <- MCCmdOf
  Root = root
  Service = syscert
  Creators = {root}
  First = {Nobody, syscert}
  InstallsOver = {Nobody, syscert}
  Careful = TRUE
  Nobody = Nobody
  MaxFaults = 2
INVARIANTS OneOwner NotStranded
PROPERTIES OwnerServed
