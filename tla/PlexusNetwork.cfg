CONSTANTS
    K = 4
    Sizes = {2, 3, 5}
    Capacity = 2
    Names = {0}
    Target <- MCTarget
    Scenarios <- MCScenarios
    NRetry = 10
SPECIFICATION Spec
 
INVARIANT LoggedOnce
INVARIANT Answered
PROPERTY ComesToRest
CHECK_DEADLOCK FALSE
