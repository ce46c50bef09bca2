SPECIFICATION Spec
CONSTANTS
    p = p
    q = q
    Client = {p, q}
    Returning = {}
    Count = 2
    MaxCommands <- MCMaxCommands
    MaxMasters = 2
    Status = {0, 1}
    None = None
    Term = Term
    Invalid = Invalid
CHECK_DEADLOCK FALSE
INVARIANT
    AcknowledgedIsDone
