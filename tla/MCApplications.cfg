SPECIFICATION FairSpec
CONSTANTS
    Apps = {"detect", "segment", "depth", "track", "keyframes"}
    Look <- Looks
    MaxInstances = 2
    Batch = 1
    Gaps = {1, 3}
    Timebases = {0, 2}
    GapLimit = 2
    ClipSecs = 3
    Warmup = 2
    Place = {p, q, r}
    Dark = Dark
    Capacity = 2
    MinGap = 2
    MaxFrame <- Bounds
    NoPts = NoPts
    None = None
INVARIANTS
    FedAsMeasured
    KeyframesAligned
PROPERTIES
    ClipCompletes
    LeastSeenLeaves
