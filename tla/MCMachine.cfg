CONSTANTS
    c1 = c1
    s1 = s1
    s2 = s2
    None = None
SPECIFICATION FairSpec
INVARIANTS TypeOK ServesWholeSchema
PROPERTIES RevertsAndRecovers RequestsAndStartsEnd CurrentMonthReady
CHECK_DEADLOCK FALSE
