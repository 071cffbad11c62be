CONSTANTS
    Docs = {d1, d2}
    Sessions = {s1, s2}
    Operations = {"post", "update", "remove", "close"}
    Changes = {"month", "payee", "amount"}
    Months = {1, 2}
    Now = 2
    Payees = {"a", "b"}
    Amounts = {1, 2}
    None = None
SPECIFICATION FocusSpec
INVARIANTS TypeOK CloseWaitsForPosters 
PROPERTIES ClosedMonthFrozen RequestsEnd
