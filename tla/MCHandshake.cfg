SPECIFICATION Spec
CONSTANTS
    Names = {alpha}
    NoName = NoName
    Empty = Empty
    TooLong = TooLong
    Fresh = Fresh
    alpha = alpha
    Types <- MCTypes
    Scripts <- MCScripts
    MyVersion <- MCVersion
CHECK_DEADLOCK FALSE
PROPERTIES
    PeeringHolds
    HandshakeSettles
