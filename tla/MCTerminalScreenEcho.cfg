\* Only the keyboard drives the terminal: no program writes, no Ctrl+L.
CONSTANTS
    a = a
    b = b
    NL = NL
    CR = CR
    BS = BS
    NUL = NUL
    SP = SP
    Chars <- MCChars
    TERMINAL_BUF_SIZE = 3
    NUM_COLS = 2
    NUM_ROWS = 2
    WriteStrings = {}
    CtrlInputs = {}
    MaxLogicalX = 4

SPECIFICATION Spec

INVARIANT EchoMatchesInput
