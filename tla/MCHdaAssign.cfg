CONSTANTS
    Nodes <- McNodes
    WType <- McWType
    Conn <- McConn
    InAmp <- McInAmp
    OutAmp <- McOutAmp
    ConnDepth = 10
    MaxDepth = 4
    MixerNid = 11
    DigitalWidgets = {}
    PinDef <- McPinDef
    PinConfigs <- McPinConfigs
SPECIFICATION Spec
CHECK_DEADLOCK FALSE
INVARIANTS
    TypeOK
    BestRestored
    RoleTablesConsistent
    OutDacsDistinct
    DynAdcRoutes
