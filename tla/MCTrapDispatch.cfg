CONSTANTS
    NUM_EXC = 20
    NUM_VEC = 256
    INT_IRQ0 = 32
    INT_SYSCALL = 128
    EXC_DE = 0
    EXC_GP = 13
    Lines <- MCLines
    IRQ_KEYBOARD = 1
    cbKeyboard = cbKeyboard
    Callbacks <- MCCallbacks
    NULL = NULL
    SIG_DIV_ZERO = SIG_DIV_ZERO
    SIG_SEGFAULT = SIG_SEGFAULT
    SIG_OTHER = SIG_OTHER
    Signals <- MCSignals
    UserVectors <- MCUserVectors
    FaultVectors <- MCFaultVectors
SPECIFICATION Spec
CHECK_DEADLOCK FALSE
INVARIANT TypeOK
INVARIANT KernelMasked
INVARIANT NoSignalLeftBehind
INVARIANT EoiMatchesFrames
INVARIANT AtMostOneIrq
PROPERTY SignalsOnlyToUser
PROPERTY KernelFaultNeverReturns
PROPERTY UserFaultHandled
PROPERTY UserFaultReturns
