SPECIFICATION Spec
CONSTANTS
    Class = {person}
    Feature = {0, 9}
    NoFeature = NoFeature
    Dist <- OnALine
    Blend <- EitherOne
    Score = {1, 3}
    TrackLowThresh = 1
    TrackHighThresh = 2
    NewTrackThresh = 3
    BankMinScore = 3
    TrackBuffer = 1
    MaxConfCoast = 1
    MinHits = 2
    ReidThresh = 3
    ReidClasses = {}
    GalleryTtl = 2
    GalleryMinHits = 2
    MergeWindow = 2
    TwinMinLost = 1
    GalleryCap = 2
    MaxDets = 2
    MaxFrame = 6
    MaxId = 4
INVARIANTS
    UniqueIdentity
PROPERTIES
    ImplementsLedger
    IdsOnlyMoveOlder
