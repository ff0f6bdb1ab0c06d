SPECIFICATION Spec
CONSTANTS
    d1 = d1
    d2 = d2
    o1 = o1
    o2 = o2
    m1 = m1
    m2 = m2
    Dataset = {d1, d2}
    Meeting = {m1}
    Operator = {o1, o2}
    Command <- AllCommands
    Tally <- OneCovered
    Serial = FALSE
INVARIANT AtMostOneActive
