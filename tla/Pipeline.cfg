SPECIFICATION Spec
CONSTANTS
    Configs <- MCConfigs
    TrackSets <- MCTrackSets
    NotReachedAborts = TRUE
INVARIANTS
    BuiltExactly
    OutputsFed
    FedRightly
    LevelsHaveMeters
