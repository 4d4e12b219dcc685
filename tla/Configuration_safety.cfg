CONSTANTS
    a = a
    r = r
    tmpl = tmpl
    Tables = {a}
    Keys = {a, Closed}
    Closed = Closed
    Names = {r, tmpl}
    NoTable = NoTable
    NoName = NoName
    Wild = Wild
    CommandLines <- MCCommandLines
    MaxSteps = 4
SPECIFICATION Spec
INVARIANTS CrashExplained AsOneFile AllFilesRun
