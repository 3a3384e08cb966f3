\* Serialized callers: each handler runs to the end before another starts.
CONSTANTS
    NumItems = 2
    AdcNids <- McAdcNids
    DynAdcIdx <- McDynAdcIdx
    AltDac = 3
    MuxActors = {w1, w2}
    PutValues <- McPutValues
    HookBound = 2
    Serialized = FALSE
SPECIFICATION Spec
INVARIANT
    MuxExclusive
