CONSTANTS
    EXPOSURE_MIN = 1
    ExposureCeilings <- MCCeilings
    Scenes <- MCScenes
    MaxChanges = 1
SPECIFICATION Spec
CHECK_DEADLOCK FALSE
INVARIANTS TypeOK NoisyKnobsLast RestsInBandOrAtLimit
PROPERTIES Settles
