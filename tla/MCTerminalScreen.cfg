CONSTANTS
    a = a
    b = b
    NL = NL
    CR = CR
    BS = BS
    NUL = NUL
    SP = SP
    Chars <- MCChars
    TERMINAL_BUF_SIZE = 3
    NUM_COLS = 2
    NUM_ROWS = 2
    WriteStrings <- MCWriteStrings
    CtrlInputs = {"KCTL_CLEAR", "KCTL_NONE"}
    MaxLogicalX = 4

SPECIFICATION Spec

INVARIANT TypeOK
INVARIANT LineShown
INVARIANT ErasedBlank
