CONSTANTS
    Nodes <- RtNodes
    WType <- RtWType
    Conn <- RtConn
    InAmp <- RtInAmp
    OutAmp <- RtOutAmp
    ConnDepth <- RtConnDepth
    MaxDepth <- RtMaxDepth
    MixerNid <- RtMixer
    Paths0 <- RtPathsLit
    OutPaths <- RtOutPaths
    HpPaths <- RtHpPaths
    SpkPaths <- RtNoPins
    AamixOutPaths <- RtAamixOutPaths
    InputPaths <- RtInputPaths
    LoopbackPaths <- RtLoopbackPaths
    LineOutType <- RtLineOutType
    LineOutPins <- RtLineOutPins
    HpPinsCfg <- RtHpPinsCfg
    SpkPinsCfg <- RtNoPins
    InputPins <- RtInputPins
    JackPins <- RtJackPins
    AutoMicPins <- RtAutoMicPins
    AmEntry <- RtAmEntry
SPECIFICATION Spec
INVARIANTS
    TypeOK
    MuxExclusive
    ActiveSelectorsRoute
    QuiescentOutputsFollowJacks
PROPERTIES
    HpPlugMutesSpeaker
    OwnedAmpsFollowControls
