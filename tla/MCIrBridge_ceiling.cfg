CONSTANTS
    vts_boost = 3448
    win_timing = FALSE
    WEDGE_RETRIES = 2
    FALLBACK_RETRIES = 3
    WEDGE_PROBE_FRAMES = 3
    VBLANK_STOCK = 1244
    EXPOSURE_START = 800
    GAIN_START = 256
    ToolsFail = FALSE
    MaxClients = 1
    MaxSignals = 1
SPECIFICATION FairSpec
INVARIANTS CeilingMatchesBlanking
