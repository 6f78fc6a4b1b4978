SPECIFICATION Spec
CONSTANTS
    Calls = {r1, r2}
    MaxLosses = 1
    MaxPoints = 3
    MaxRequests = 5
INVARIANTS
    WindowBudget
    ConnectionsHaveReasons
PROPERTY
    EveryRequestEnds
