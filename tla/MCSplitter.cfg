\* One request against three mock callers; every strategy, every timing.
CONSTANTS
    Sources = {s1, s2, s3}
    Requests = {r1}
    Values <- MCValues
    Methods <- MCMethods
    StrategyTable <- MCStrategyTable
    MinResponses = 2
    MinAgreeing = 2
    Tolerance = 0
    Err = Err
    Cancelled = Cancelled
    NoValue = NoValue
    Malformed = Malformed
    Pending = Pending
SPECIFICATION Spec
PROPERTIES
    ImplementsAbstract
    CancellationReachesCallers
CHECK_DEADLOCK FALSE
