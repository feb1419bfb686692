SPECIFICATION Spec
CONSTANTS
    Kinds = {"xfeat", "raco", "rfdetr", "seg", "kpts", "depth", "osnet", "dino", "session"}
    Frame = {1, 2, 3}
    SizeOf <- TwoSizes
    Dark = {3}
    r1 = r1
    r2 = r2
    Result = {r1, r2}
    Faults = {"reject", "launch", "input"}
    Capacity = 2
    MaxFaults = 1
SYMMETRY Swap
CONSTRAINT FewerFrames
INVARIANTS
    ResultsAsTold
    NoWriteAfterDrop
