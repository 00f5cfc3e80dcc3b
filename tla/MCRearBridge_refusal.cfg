CONSTANTS
    MAX_ATTEMPTS = 3
    FIRST_FRAME_TIMEOUT = 3
    CLIENT_GRACE = 1
    STOP_BUDGET = 2
    MAX_RESTARTS_PER_MIN = 2
    MINUTE = 6
    REFUSE_SLEEP = 2
    RESPAWN_SLEEP = 1
    RETRY_SLEEP = 1
    GIVEUP_SLEEP = 1
    BACKOFF_SLEEP = 2
    RestartSec = 1
    TimeoutStopSec = 3
    MaxClients = 1
    MaxSignals = 0
    Stubborn = FALSE
SPECIFICATION FairSpec
PROPERTIES RefusalIsRetried
