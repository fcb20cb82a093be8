CONSTANTS
    Ops = {o1}
    Conns = {c1, c2, c3}
    None = None
SPECIFICATION FairSpec
INVARIANTS EventOwner
PROPERTIES OperatorReturned
CHECK_DEADLOCK FALSE
