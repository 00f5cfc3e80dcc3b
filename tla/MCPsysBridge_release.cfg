CONSTANTS
    MAX_ATTEMPTS = 3
    MaxClients = 1
    MaxSignals = 0
    Stubborn = FALSE
SPECIFICATION FairSpec
PROPERTIES CameraReleased
