CONSTANTS
    Order <- Ranked
    Node <- NodeFiles
    kubeletEnvFiles <- Operator2
    Scenes <- AllScenes
    Pieces <- Written
    Refs <- AllRefs
SPECIFICATION Spec
INVARIANTS OthersKept FlagsArrive MergedOnce ExpandsAsGlob
CHECK_DEADLOCK FALSE
