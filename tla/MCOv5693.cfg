CONSTANTS
    Callers = {c1}
    HeightChoices <- MCHeights
    CropChoices <- MCCrops
    VblankChoices <- MCVblanks
    ExposureChoices <- MCExposures
SPECIFICATION FairSpec
INVARIANTS TypeOK PowerBalanced ChipFollowsControls
PROPERTIES UnusedIsSuspended
