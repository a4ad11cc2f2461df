SPECIFICATION PolicySpec
CONSTANTS
    Amounts = {5, 10, 30}
    Scores = {5, 660}
INVARIANT PassThroughCaught
CHECK_DEADLOCK FALSE
