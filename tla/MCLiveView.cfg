SPECIFICATION FairSpec
CONSTANTS
    main = main
    bev = bev
    Views <- OneView
    Viewer = {v}
    QueueCap = 2
    Gop = 2
    MaxSets = 4
    MaxLosses = 1
INVARIANTS
    ConfiguredFirst
PROPERTIES
    GapFree
    FreshestEncoded
    DroppedViewerReturns
