SPECIFICATION Spec
CONSTANTS
    GridDivisor = 2
    Pictures <- SomePictures
    MaxSides = {3, 5}
    Directories <- SomeDirectories
    PairLists <- SomePairLists
    Extractors <- SomeExtractors
    Matchers = {1, 2}
    Cache = 1
    FallbackMaxSide = 6
    XFeatFallbackMaxSide = 8
    Tolerated = 34
    Breaks = {"start", "upload", "alloc", "submit", "sync", "write", "finish", "match", "crash"}
    MaxBreaks = 2
    Caller = {1, 2}
    Requests <- SomeRequests
    Boxes <- SomeBoxes
    MaxBad = 1
    MaxKills = 1
    Inf = 100000
    Tables <- SomeTables
    One = 40
    MATCH_THRESH = 32
    MATCH_THRESH_SECOND = 20
    APPEARANCE_THRESH = 10
    PROXIMITY_THRESH = 20
    REID_THRESH = 10
    DEPTH_GATE_PENALTY = 8
    PAD_COST = 4000
    NoValue = 999
    ImageBoxes <- SomeImageBoxes
    Depths = {0, 1, 2}
    NoDepth = 0
    Cameras <- SomeCameras
    Coefficients <- SomeCoefficients
    LensUnit = 10
    Frame <- SomeFrame
    Ends <- SomeEnds
    Id = {1, 2}
    Places = {"p", "off"}
    OnPlan <- InPlan
    MAX_LEN = 3
    TTL = 1
    FrameModulus = 4
    MaxUpdates = 5
    Sizes <- SomeSizes
    BirthDepths = {"none", "real"}
    Intervals = {1}
    DEPTH_REJECT_MAX = 3
    OCM_DELTA = 3
    MaxAge = 7
    Likeness <- SomeLikeness
    NotANumber = 999
    NoCosine = 0
    Sets <- SomeSets
    AgainSets <- SomeAgainSets
    Floors = {5}
    Widths = {0, 2, 3, 4}
    Warp = 1
    MAX_DIM = 3
    SHARED_FLOATS = 6
    Cap = 3
    MaxSubmits = 2
    DepthMaps <- SomeDepthMaps
    Foreign = 5000
    MaskSize <- SomeMaskSize
    Detections <- SomeDetections
    LaterDetections <- SomeLaterDetections
    Slots = 2
    SourceSizes <- SomeSourceSizes
    Strides = {0, 6}
    Threads = 4
    CropGrid <- SomeCropGrid
    MinCrop = 2
    Heads <- SomeHeads
    NUM_KP = 3
    PERSON_CLASS = 1
    MaxFrames = 2
    StdDepth = 1
    StdSize = 1
    StdVelocityDepth = 1
    MeasDepth = 1
    MeasSize = 1
    MeasDepthMissing = 4
    NominalDepth = 1
    InitPosition = 1
    InitDepth = 2
    InitVelocityDepth = 1
    DepthValues = {3}
    NoMeasure = 99
    SizeValues = {3, 5}
    Scales = {1, 2}
    Durations = {1, 2}
    MaxFilterSteps = 4
INVARIANTS
    SuccessIsComplete SamePixelsWithMemory CacheServesPair FitExact
    HubDelivers
    Feasible AssignmentRight IdentityGuards GeometryExact HistoryKept FilterSound
    DrawnInPlace PairsTrusted SampledFromItsOwn
PROPERTIES
    ProgramEnds RetryHeals
CHECK_DEADLOCK FALSE
