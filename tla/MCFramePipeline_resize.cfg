SPECIFICATION Spec
CONSTANTS
    Kinds = {"xfeat"}
    Frame = {1, 2, 3}
    SizeOf <- TwoSizes
    Dark = {3}
    r1 = r1
    r2 = r2
    Result = {r1, r2}
    Faults = {"score"}
    Capacity = 2
    MaxFaults = 1
SYMMETRY Swap
CONSTRAINT FewerFrames
INVARIANTS
    SubmitAsTold
