SPECIFICATION FairSpec
CONSTANT
    MaxLines = 3
INVARIANT
    LinesAccounted
PROPERTIES
    OneStream
    SocketEnds
    ProducerSettles
CHECK_DEADLOCK FALSE
