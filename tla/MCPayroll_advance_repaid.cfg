SPECIFICATION Spec
CONSTANTS
  Employees = {e1}
  LastMonth = 3
  Joined <- AllJoined
  Sessions = {s1}
  Operations = {"create", "advance", "run"}
  Dues = {2}
  Amounts = {1}
  Unfiled = Unfiled
INVARIANT DeductedStaysDeducted
CHECK_DEADLOCK FALSE
