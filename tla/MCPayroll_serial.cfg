SPECIFICATION Spec
CONSTANTS
  Employees = {e1}
  LastMonth = 2
  Joined <- AllJoined
  Sessions = {s1}
  Operations = {"create", "advance", "removeAdvance", "pay", "adjust", "run", "close", "delete"}
  Dues = {2, 3}
  Amounts = {1, 2}
  Unfiled = Unfiled
INVARIANTS TypeOK PaidWithinDue
PROPERTIES RunSettles
CHECK_DEADLOCK FALSE
