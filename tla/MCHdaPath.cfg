CONSTANTS
    Nodes <- MCNodes
    WType <- MCWType
    Conn <- MCConn
    InAmp <- MCNoAmp
    OutAmp <- MCNoAmp
    ConnDepth <- MCConnDepth
    MaxDepth <- MCMaxDepth
SPECIFICATION Spec
INVARIANTS
    TypeOK
    StoredPathsAreWalks
PROPERTIES
    AddNewPathSoundAndComplete
