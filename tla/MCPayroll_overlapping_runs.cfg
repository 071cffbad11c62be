SPECIFICATION Spec
CONSTANTS
  Employees = {e1}
  LastMonth = 1
  Joined <- AllJoined
  Sessions = {s1, s2}
  Operations = {"create", "run"}
  Dues = {1}
  Amounts = {1}
  Unfiled = Unfiled
INVARIANT PaidOnce
CHECK_DEADLOCK FALSE
