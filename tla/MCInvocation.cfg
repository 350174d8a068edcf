\* Two edits of the file, of every pair of fields.
CONSTANTS
  Bad = Bad
  Missing = Missing
  NoOrder = NoOrder
  Hostnames = {"fqdn", "short"}
  Bases <- MCBases
  Variants <- MCVariants
  Environments <- MCEnvironments
  EnvFiles <- MCEnvFiles
  MaxEdits = 2
SPECIFICATION Spec
INVARIANTS
  TypeOK
  EnvPrecedence
  CheckedChoicesHold
  OrderLegal
  KeyHidden
