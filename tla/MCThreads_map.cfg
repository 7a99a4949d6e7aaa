SPECIFICATION Spec
CONSTANTS
  m1 = m1
  m2 = m2
  l1 = l1
  l2 = l2
  d1 = d1
  d2 = d2
  Mutators = {m1, m2}
  Lookers = {}
  Data = {d1}
  SegNum = 4
  MaxInode = 4
  MaxContainer = 5
INVARIANT MadeIsLogged
