SPECIFICATION Spec
CONSTANTS
  Wrap = 3
  Outcomes = {8}
  MaxId = 3
INVARIANT Leads
CHECK_DEADLOCK FALSE
