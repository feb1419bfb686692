SPECIFICATION FairSpec
CONSTANTS
    Class = {person, chair}
    Feature = {0, 9}
    NoFeature = NoFeature
    Dist <- OnALine
    Blend <- EitherOne
    Score = {1, 3}
    TrackLowThresh = 1
    TrackHighThresh = 2
    NewTrackThresh = 3
    BankMinScore = 3
    TrackBuffer = 1
    MaxConfCoast = 1
    MinHits = 2
    ReidThresh = 3
    ReidClasses = {}
    GalleryTtl = 1
    GalleryMinHits = 2
    MergeWindow = 2
    TwinMinLost = 1
    GalleryCap = 1
    MaxDets = 2
    MaxFrame = 6
    MaxId = 3
INVARIANTS
    TypeOK
    OneDetectionOneTrack
    BetweenCalls
PROPERTIES
    UpdateReturns
    
