CONSTANTS
    a = a
    b = b
    Base = {a, b}
    Plain = Plain
    NoName = NoName
    NoLine = NoLine
    OnTable <- MCOnTable
    Segments <- MCSegments
    Batches <- MCBatches
    OnConnect <- MCOnConnect
    Reply <- MCReply
    Unasked <- MCUnasked
    MaxQueue = 2
    MaxTransit = 2
SPECIFICATION System
INVARIANTS OneAtATime
PROPERTIES Recovers
