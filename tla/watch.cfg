CONSTANTS
    w1 = w1
    w2 = w2
    Watchers = {w1, w2}
    Flaky = {w1}
    Width <- MCWidth
    Setups <- MCSetups
    Options <- MCOptions
    WATCH_PEERS_MAX = 1
    UPDATES_MAX_MESSAGES = 2
    WATCH_BACKOFF_INIT_S = 5
    WATCH_BACKOFF_CAP_S = 8
    SliceMax = 3
    TooLongGap = 3
SPECIFICATION WSpec
CHECK_DEADLOCK FALSE

INVARIANTS  NothingPassedOver
PROPERTIES CatchesUp
