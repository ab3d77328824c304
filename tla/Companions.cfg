SPECIFICATION Spec
CONSTANTS
    FRAMES = 1
    ARM_ROUNDS = 1
    OFFBOARD_ROUNDS = 1
    GUIDED_ROUNDS = 1
    WAIT_ROUNDS = 1
    INBOX = 1
    ESTIMATE_MAX_AGE = 1
    HEARTBEAT_MAX_AGE = 1
INVARIANTS LiveHandleMeansAuthority ArmStreamsThisSession
PROPERTIES LostCallsLeaveNoSetpoint CallsReturn LossNoticed
