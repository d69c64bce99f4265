CONSTANTS
    a = a
    NL = NL
    CR = CR
    BS = BS
    NUL = NUL
    Chars <- MCChars
    TERMINAL_BUF_SIZE = 3
    NUM_COLS = 2
    NUM_ROWS = 2
    NUM_TERMINALS = 3
    ReadSizes <- MCReadSizes
    WriteStrings <- MCWriteStrings
    MaxLogicalX = 4

SPECIFICATION Spec

PROPERTY QueueSpec
