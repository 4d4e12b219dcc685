CONSTANTS
    Clients = {o1, o2}
    NoClient = NoClient
    MaxRead = 2
    MaxLines = 3
SPECIFICATION SessionSpec
INVARIANTS ExitTerminatesConnection
CHECK_DEADLOCK FALSE
