\* Every callback sequence the PCM core allows over the three layouts, both
\* sample sizes and both BaseFRQ items, with the timer, the tasklet and the
\* callback's steps in any order against them.
CONSTANTS
    Setups <- McSetups
    FmtSizes = {1, 2}
    MaxTreble = 1
SPECIFICATION Spec
INVARIANTS
    TypeOK
    ReadInBuffer
PROPERTIES
    PeriodsElapse
    TimerStopsWithStream
