SPECIFICATION Spec
CONSTANTS
    Scenario <- ScenarioBound
    Steps = 5
    Dt = 100
    SECOND = 1000
    MILLI = 1
    MAX_U64 = 100000
    MAX_U32 = 100000
CHECK_DEADLOCK FALSE
INVARIANT TracesAdmitted
INVARIANT LossReported
INVARIANT RevokedExactly
