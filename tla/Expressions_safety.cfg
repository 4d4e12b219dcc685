CONSTANTS
    Half = 128
    Expressions <- MCExpressions
    Tables <- MCTables
    Cells = 8
    MaxExpressions = 2
SPECIFICATION Interpreter
INVARIANTS InterpreterTypeOK ValueIsMeaning CellsComeBack SoundIsSafe
CHECK_DEADLOCK FALSE
