CONSTANTS
    Bodies <- MCBodies
    MaxChunk = 6
    Stx = Stx
    Etx = Etx
    Nul = Nul
    Outside = Outside
    Breaks = 2
    Clients = {o1, o2}
    NoClient = NoClient
    MaxRead = 2
    MaxLines = 3
SPECIFICATION MCSpec
INVARIANTS TypeOK LostOnlyWhenDangling KeepsAtMostOneLine BreakSpoilsOneLine LastExitTerminates TerminatesSilently
PROPERTIES ImplementsChannel
CHECK_DEADLOCK FALSE
