\* Two concurrent requests sharing the mock clients: the unsynchronised currCall.
CONSTANTS
    Sources = {s1, s2}
    Requests = {r1, r2}
    Values <- MCValues
    Methods <- MCMethodsExact
    StrategyTable <- MCStrategyTable
    MinResponses = 1
    MinAgreeing = 1
    Tolerance = 0
    Err = Err
    Cancelled = Cancelled
    NoValue = NoValue
    Malformed = Malformed
    Pending = Pending
SPECIFICATION Spec
INVARIANT
    ScriptedCallsServedOnce
CHECK_DEADLOCK FALSE
