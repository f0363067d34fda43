\* The mock's result goroutine after the select took ctx.Done.
CONSTANTS
    Sources = {s1, s2}
    Requests = {r1}
    Values <- MCValues
    Methods <- MCMethodsExact
    StrategyTable <- MCStrategyTable
    MinResponses = 1
    MinAgreeing = 1
    Tolerance = 0
    Err = Err
    Cancelled = Cancelled
    NoValue = NoValue
    Malformed = Malformed
    Pending = Pending
SPECIFICATION MockSpec
PROPERTY
    ResultGoroutinesExit
CHECK_DEADLOCK FALSE
