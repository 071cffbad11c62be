SPECIFICATION Spec
CONSTANTS
  Employees = {e1, e2}
  LastMonth = 1
  Joined <- AllJoined
  Sessions = {s1, s2}
  Operations = {"create", "attendance", "pay", "adjust", "run", "close", "delete"}
  Dues = {1, 2}
  Amounts = {1}
  Unfiled = Unfiled
INVARIANT PaidOncePerRun
PROPERTIES RunHoldsPeriod
SYMMETRY StaffSymmetry
CHECK_DEADLOCK FALSE
