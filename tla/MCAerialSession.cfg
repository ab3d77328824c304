SPECIFICATION Spec
CONSTANTS
    Handle = {v1, v2}
    EpochMax = 2
    Lease = 1
    Revokes_on = {"Disarm", "Disconnect"}
SYMMETRY Handles
CONSTRAINT Unsaturated
INVARIANTS LostPermitsStale CurrentMeansLive TypedAuthority
PROPERTIES SetpointsPermitted LeftoversCannotAdvance
