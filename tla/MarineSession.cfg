SPECIFICATION Spec
CONSTANTS
    Handle = {v1, v2, v3}
    EpochMax = 4
CONSTRAINT Unsaturated
INVARIANT CurrentMeansClear
PROPERTY StoppedIsIdle
