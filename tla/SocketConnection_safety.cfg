CONSTANTS
    MaxTimers = 7
SPECIFICATION Spec
INVARIANTS DownHasTimer PointerIsLive AtMostTwoTimers LiveLinkUndisturbed
PROPERTIES ReconnectAttempted ImplementsLink
CHECK_DEADLOCK FALSE
