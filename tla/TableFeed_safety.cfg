CONSTANTS
    t = t
    b = b
    Tables = {t, b}
    Bang = {b}
    LineCount = 2
    Foreign = Foreign
    Disturbances = {"loss", "operator", "automation"}
    MaxVersion = 3
    MaxRows = 2
SPECIFICATION Spec
INVARIANTS FaultsAreForgotten
PROPERTIES ImplementsTableSpec
CHECK_DEADLOCK FALSE
