\* Every PCM callback sequence the core allows, with allocation, submit and
\* control-message failures and completions in any order; the HC never
\* stalls.
CONSTANTS
    Formats <- McFormats
    Setups <- McSetups
    Rate = 8000
    Stride = 8
    Feedback <- McFeedback
    CaptureLens <- McCaptureLens
    WaitTicks = 1
    Faults = {"alloc", "submit", "io"}
SPECIFICATION FairSpec
INVARIANTS
    TypeOK
    PointerInBuffer
PROPERTIES
    StopDrains
