SPECIFICATION Spec
CONSTANTS
    Plant <- PlantBound
    Cuttable = {"drone"}
    Revokes <- RevokesBound
INVARIANT Stoppable
INVARIANT DisarmedMeansDead
INVARIANT VelocityDies
