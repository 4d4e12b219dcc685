CONSTANTS
    Tables = {"A", "B"}
    Copies = {"A"}
    Definition = "Definition"
    Texts <- MCTexts
    Rows <- MCRows
    Empty = ""
    Blank = {" x"}
    Torn = "torn"
    NoName = NoName
    Header <- MCHeader
    Pieces <- MCPieces
    Number <- MCNumber
    MaxLines = 4
SPECIFICATION Spec
INVARIANTS TypeOK PlainRowsComeBack TornFileIsPrefix StoredAgainIsTheSame
CHECK_DEADLOCK FALSE
