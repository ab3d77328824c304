SPECIFICATION WorldSpec
CONSTANTS
    Scene <- SceneBound
    Terrain = 0
    Surface = 0
    Dt = 20
INVARIANT HoldNeverDrivesAway
CHECK_DEADLOCK FALSE
