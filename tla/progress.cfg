\* A row that changes three times under an open page, one lost connection.
CONSTANTS
    MaxMoves = 3
    MaxDrops = 1
SPECIFICATION FairSpec
INVARIANTS TypeOK StopsForACause
PROPERTIES ReportArrives StatusCatchesUp
CHECK_DEADLOCK FALSE
