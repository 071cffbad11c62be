CONSTANTS
    Docs = {d1}
    Sessions = {s1}
    Operations = {"post", "update", "remove", "close"}
    Changes = {"amount"}
    Months = {1, 2}
    Now = 2
    Payees = {"a"}
    Amounts = {1, 2}
    None = None

SPECIFICATION Spec

PROPERTY ClosedMonthFrozen
