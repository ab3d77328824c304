SPECIFICATION Spec
CONSTANTS
    Handle = {v1, v2, v3}
    EpochMax = 4
SYMMETRY Handles
CONSTRAINT Unsaturated
INVARIANT CurrentMeansClear
PROPERTY SetpointsPermitted
