SPECIFICATION Spec
CONSTANTS
    p = p
    q = q
    Client = {p, q}
    Returning = {q}
    Count = 2
    MaxCommands <- MCMaxCommands
    MaxMasters = 2
    Status = {0}
    None = None
    Term = Term
    Invalid = Invalid
CHECK_DEADLOCK FALSE
INVARIANTS
    OneInFlight
    AnswersToAsker
    EachCommandOnce
PROPERTIES
    CommandsAreAnswered
    SignalEndsCleanMaster
