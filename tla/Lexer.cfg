CONSTANTS
    Digits = {"1"}
    Letters = {"i", "f", "e", "t", "x"}
    Blanks = {" "}
    Newline = "nl"
    Dot = "."
    Nul = "nul"
    Stop = "ff"
    Symbols = {".", ";"}
    Others = {"#"}
    SymbolType <- MCSymbolType
    Keywords <- MCKeywords
    BoolWords <- MCBoolWords
    OverreadChars = {";"}
    Sources <- MCSources
SPECIFICATION Spec
INVARIANTS TypeOK Tiling LinesExact EofEndsStream MaximalMunch LongestKeyword
PROPERTY Terminates
CHECK_DEADLOCK FALSE
