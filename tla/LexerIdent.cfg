CONSTANTS
    Digits = {"1"}
    Letters = {"i", "f", "e", "t", "x"}
    Blanks = {" "}
    Newline = "nl"
    Dot = "."
    Nul = "nul"
    Stop = "ff"
    Symbols = {".", ";"}
    Others = {"#"}
    SymbolType <- MCSymbolType
    Keywords <- MCKeywords
    BoolWords <- MCBoolWords
    OverreadChars = {}
    Sources <- MCSources
SPECIFICATION Spec
INVARIANT IdentIsAlphaDigits
CHECK_DEADLOCK FALSE
