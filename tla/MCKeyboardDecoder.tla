------------------------- MODULE MCKeyboardDecoder -------------------------
(***************************************************************************)
(* Instances of KeyboardDecoder for TLC.  keyboard.h is not part of the   *)
(* repository: the left-hand modifier keycodes are the set-1 make codes   *)
(* the decoder's table is laid out for (0x1D, 0x2A, 0x36, 0x38, 0x3A,     *)
(* L = 0x26), and the right-hand ones are keycodes no modelled byte       *)
(* carries, since a keyboard sends those keys behind the E0 prefix.       *)
(***************************************************************************)
EXTENDS KeyboardDecoder

(* Modifier keys without a prefix; 'a', '1', L and F1 (past the table). *)
MCPlainKeys ==
    {LCtrlKey, LShiftKey, RShiftKey, LAltKey, CapsKey,
     <<\h1E>>, <<\h02>>, <<\h26>>, <<\h3B>>}

(* Every key but Caps Lock repeats. *)
MCPlainRepeat == MCPlainKeys \ {CapsKey}

(* Caps Lock, which repeats, and 'a'. *)
MCCapsKeys == {CapsKey, <<\h1E>>}

MCCapsRepeat == {CapsKey}

(* Both Ctrl keys and L. *)
MCBothCtrlKeys == {LCtrlKey, RCtrlKey, <<\h26>>}

MCNoRepeat == {}

=============================================================================
