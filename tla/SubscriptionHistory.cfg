CONSTANTS
  Request = {r1, r2}
  StripeSub = {k1}
  TrialDays = 1
  PeriodDays = 1
  ExtendDays = 1
  MaxDay = 3
  MaxRequests = 3
  None = None
SPECIFICATION Spec
SYMMETRY Symmetry
PROPERTY StatusChangesRecorded
CHECK_DEADLOCK FALSE
