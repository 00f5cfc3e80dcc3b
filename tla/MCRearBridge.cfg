CONSTANTS
    MAX_ATTEMPTS = 3
    FIRST_FRAME_TIMEOUT = 4
    CLIENT_GRACE = 2
    STOP_BUDGET = 3
    MAX_RESTARTS_PER_MIN = 2
    MINUTE = 8
    REFUSE_SLEEP = 2
    RESPAWN_SLEEP = 1
    RETRY_SLEEP = 1
    GIVEUP_SLEEP = 1
    BACKOFF_SLEEP = 2
    RestartSec = 1
    TimeoutStopSec = 4
    MaxClients = 2
    MaxSignals = 2
    Stubborn = TRUE
SPECIFICATION Spec
INVARIANTS TypeOK StopsInTime KilledOnlyAfterBudget
PROPERTIES LingerRespected ImplementsOnDemand
