CONSTANTS
    vts_boost = 3448
    win_timing = FALSE
    LinkFrequencies <- MCLinkFrequencies
    VblankChoices <- MCVblanks
    ExposureChoices <- MCExposures
    GainChoices = {1023}
SPECIFICATION FairSpec
INVARIANTS TypeOK PowerBalanced ChipFollowsControls
PROPERTIES DarkWhenUnused
