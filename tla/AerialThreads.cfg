SPECIFICATION ThreadsSpec
CONSTANTS
    Handle = {v1, v2}
    EpochMax = 3
    Lease = 1
    Repertoire = {"attach", "arm", "acquire", "command", "disarm"}
    Revokes_on = {"Disarm"}
SYMMETRY Handles
CONSTRAINT Unsaturated
INVARIANT LostPermitsStale
PROPERTY StaleCallsHarmless
