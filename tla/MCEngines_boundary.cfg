SPECIFICATION Spec
CONSTANTS
    Thread = {a, b}
    Process = {a, b}
    PidOf <- Apart
    Name = {dinov3}
    Version = {1, 2}
    FirstVersion = 1
    Profile = {fp16}
    Edits = {"graph"}
    EditMidCall = FALSE
    Chunks = 2
    MaxBuilds = 3
    NoEngine = NoEngine
    Torn = Torn
    Inputs <- SomeInputs
    Tensors <- SomeTensors
    MaxTensors = 4
    PATCH = 2
    DESC_DIM = 3
    NaN = NaN
    Queries <- SomeQueries
    C = 3
    Logits <- SomeLogits
    Conf = 1
    HeatMaps <- SomeHeatMaps
    W = 4
    H = 1
    Threshold = 0
    TopK = 2
    Bins = 2
    PerBin = 2
SYMMETRY Symmetry
INVARIANT ApproximateOnlyAtBoundary
