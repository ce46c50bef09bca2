SPECIFICATION Spec
CONSTANTS
    c1 = c1
    c2 = c2
    Client = {c1, c2}
    Target = {"t1", "t2"}
    Down = {"t2"}
    Routes <- RoutesMC
    MaxPieces <- PiecesMC
    MaxFailures = 1
CHECK_DEADLOCK FALSE
INVARIANTS
    ClosedAfterBothEnds
PROPERTIES
    Settles
