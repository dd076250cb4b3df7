CONSTANTS
    Processes = 3
    Resources = 2
    Maxima = {2, 3}
SPECIFICATION BankerSpec
INVARIANT StaysSafe
CHECK_DEADLOCK FALSE
