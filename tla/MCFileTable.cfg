CONSTANTS
    NoEntry = NoEntry
    MAX_FILES = 4
    Names <- MCNames
    BadNames = {"badptr"}
    Dentry <- MCDentry
    Inodes = {0, 1, 2}
    MaxOffset = 1

SPECIFICATION Spec

INVARIANT TypeOK
INVARIANT HeldIsValid
INVARIANT SlotMatchesOpen

PROPERTY DispatchOnlyHeld
