SPECIFICATION Spec
CONSTANTS
    w1 = w1
    w2 = w2
    p = p
    q = q
    Worker = {w1, w2}
    Cleaner = gc
    Client = {p, q}
    Polite = {p}
    MaxLines <- MCMaxLines
    ChannelSize = 1
    Welcome = welcome
    Invalid = invalid
CHECK_DEADLOCK FALSE
INVARIANTS
    OnePlaceEach
    AnswersInOrder
    OneAnswerPerLine
PROPERTIES
    LinesAreAnswered
    SignalEndsAll
