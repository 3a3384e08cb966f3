\* The trigger's burst as in the code (max = 4); four queued bytes so that a
\* burst can end on its count as well as on a busy UART or an empty buffer.
CONSTANTS
    MaxPending = 4
    TxBurst = 4
SPECIFICATION Spec
INVARIANT
    NoStaleSubstream
