CONSTANTS
    a = a
    b = b
    c = c
    Tables = {a, b, c}
    NoTable = NoTable
    Loaded <- MCLoaded
    Actions <- MCActions
    Programs <- MCPrograms
    New = New
    Widths = {1, 2}
    MaxEvents = 5
    MaxRows = 2
SPECIFICATION Spec
INVARIANTS BodyKeepsRow CursorsComeBack
PROPERTIES UndefinedExplained TriggerEnds
CHECK_DEADLOCK FALSE
