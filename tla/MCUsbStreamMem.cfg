\* As MCUsbStream.cfg, with every alternate setting of the device, an HC
\* that may stall, and the memory accesses of the handlers checked.
CONSTANTS
    Formats <- McAllFormats
    Setups <- McSetups
    Rate = 8000
    Stride = 8
    Feedback <- McFeedback
    CaptureLens <- McCaptureLens
    WaitTicks = 1
    Faults = {"alloc", "submit", "io", "stall"}
SPECIFICATION Spec
INVARIANTS
    MemorySafe
