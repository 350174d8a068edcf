SPECIFICATION Spec
CONSTANTS
  w1 = w1
  w2 = w2
  r1 = r1
  d1 = d1
  d2 = d2
  f1 = f1
  f2 = f2
  f3 = f3
  f4 = f4
  Writers = {w1, w2}
  Readers = {r1}
  Data = {d1, d2}
  Blocks = 2
  Files = {f1, f2, f3, f4}
  MaxKills = 1
  Nothing = Nothing
SYMMETRY Symmetric
INVARIANTS
  NeverPartial
  OnlyKillsLeaveTemps
PROPERTY
  IsRegister
