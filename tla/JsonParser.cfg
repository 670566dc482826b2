SPECIFICATION Spec
CONSTANTS
    MaxId = 5
    MaxVal = 2
    MaxArrayNesting = 2
    MaxElements = 2
    Input = {"lbrace", "rbrace", "lbracket", "rbracket", ":", "comma", "quote", "backslash", "^",
             "space", "control", "-", "+", ".", "0", "a", "e", "E", "n", "/", "key", "result",
             "newline"}
INVARIANTS TypeOK PathIsNesting IndicesCount ReportedOnce EndsWhole
