-------------------------- MODULE MCTrapDispatch --------------------------
(***************************************************************************)
(* An instance of TrapDispatch for TLC: the vector numbers of idt.h, the  *)
(* timer and keyboard lines, one driver callback, and a third signal a    *)
(* syscall may raise.                                                      *)
(***************************************************************************)
EXTENDS TrapDispatch

CONSTANTS cbKeyboard, SIG_OTHER

MCCallbacks == {cbKeyboard}
MCSignals == {SIG_DIV_ZERO, SIG_SEGFAULT, SIG_OTHER}
MCLines == {0, 1}

(* int 0x80, a forged keyboard vector and an unused one. *)
MCUserVectors == {128, 33, 48}

(* Divide error, page fault, and vector 20, the first one the            *)
(* architecture reserves (the dispatcher takes it for an unknown one).   *)
MCFaultVectors == {0, 14, 20}

=============================================================================
