CONSTANTS
    Count = 2
    MaxRequests = 2
SPECIFICATION TargetsSpec
INVARIANTS ArriveOnceInOrder BodyLostOnlyWhenCompressed
PROPERTIES RequestsEnd
CHECK_DEADLOCK FALSE
