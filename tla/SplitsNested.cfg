\* Files of two splits, twice what the buffer holds at first.
CONSTANTS
    SplitKey = {"Section"}
    SignatureKey = {"Name"}
    Value = {v, w}
    PatchValue = {v, w}
    v = v
    w = w
    Register = {a1}
    a0 = a0
    a1 = a1
    A0 = a0
    Null = Null
    Text = Text
    Initial = 1
    MaxParameters = 2
    MaxPatches = 2
    MaxSplits = 2
SPECIFICATION Spec
INVARIANTS TypeOK StateFollowsNesting ParsedAsWritten InsideBuffer
VIEW MCView
