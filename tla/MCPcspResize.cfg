\* The same model, checking where period_ptr stands on a running stream.
CONSTANTS
    Setups <- McSetups
    FmtSizes = {1, 2}
    MaxTreble = 1
SPECIFICATION Spec
INVARIANTS
    PeriodPtrAligned
