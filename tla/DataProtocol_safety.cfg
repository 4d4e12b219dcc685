CONSTANTS
    a = a
    b = b
    Base = {a, b}
    Plain = Plain
    NoName = NoName
    NoLine = NoLine
    OnTable <- MCOnTable
    Segments <- MCSegments
    Batches <- MCBatches
    MaxQueue = 2
SPECIFICATION Spec
INVARIANTS WaitHasWakeUp NoStaleTimer StallExplained
PROPERTIES WaitEnds QueueServed
