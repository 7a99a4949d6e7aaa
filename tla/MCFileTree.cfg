SPECIFICATION Spec
CONSTANTS
  n1 = n1
  n2 = n2
  d1 = d1
  d2 = d2
  Names = {n1, n2}
  Contents = {d1, d2}
  NoContent = NoContent
  Blocks = {0, 1}
  MaxId = 5
SYMMETRY Symmetry
INVARIANTS
  TypeOK
  NamesSound
  CwdRooted
