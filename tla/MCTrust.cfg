SPECIFICATION Spec
CONSTANTS
  c1 = c1
  c2 = c2
  c3 = c3
  other = other
  f1 = f1
  f2 = f2
  f3 = f3
  CAs = {c1, c2, c3}
  Files = {f1, f2, f3}
  NameOf <- MCNameOf
  Foreign <- MCForeign
  MaxFaults = 2
  Nothing = Nothing
  Torn = Torn
INVARIANTS
  TypeOK
  InstallOkTrusts
  ForeignKept
