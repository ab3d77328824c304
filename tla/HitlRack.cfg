SPECIFICATION Spec
CONSTANTS
    Catalogs <- CatalogsBound
    Specs <- SpecsBound
    SECOND = 100
    MILLI = 1
    MAX_U64 = 1000
    MAX_U32 = 1000
    Computes = {1, 3}
    Commands <- CommandsBound
    Cuttable = {"drone"}
    Revokes <- RevokesBound
    Datagrams <- DatagramsBound
    INBOX = 2
    READS = 2
    SENDS = 2
INVARIANT TrippedStaysDown
INVARIANT MissStopsFleet
INVARIANT DrivenByThisFrame
PROPERTY HoldSurvivesIdle
