SPECIFICATION Spec
CONSTANTS
  Wrap = 7
  Outcomes = {0, 3, 8}
  MaxId = 5
INVARIANT TypeOK
INVARIANT Leads
CHECK_DEADLOCK FALSE
