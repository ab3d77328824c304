SPECIFICATION ResearchSpec
CONSTANTS
    Experiments <- ExperimentsBound
    Scenes <- ScenesBound
    Commands <- CommandsBound
    Elsewhere <- ElsewhereBound
    Revokes <- RevokesBound
    Cuttable = {"drone"}
    Chains <- ChainsBound
    WAY = 2
INVARIANT ReplayReproduces
INVARIANT AttachRevokes
INVARIANT ProbesBounce
INVARIANT ReferenceTrue
INVARIANT PreviewAgrees
PROPERTY RefusedLeavesBody
PROPERTY Finishes
