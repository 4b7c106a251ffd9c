CONSTANTS
    WINDOW_SIZE = 4
    TRIP_PERCENT = 50
    COOL_DOWN = 2
    HALF_OPEN_PROBES = 2
    Calls = {1, 2, 3}
    MAX_CONCURRENCY = 2
    MAX_TRIES = 2
SPECIFICATION FairSpec
INVARIANTS TypeOK ProbesAreRecent TripNotMissed
PROPERTIES Recovers
