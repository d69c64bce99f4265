-------------------------- MODULE MCTerminalScreen --------------------------
(***************************************************************************)
(* Small instances of TerminalScreen for TLC.                              *)
(***************************************************************************)
EXTENDS TerminalScreen

CONSTANTS a, b

(* Two characters, so that a cell moved to the wrong place shows. *)
MCChars == {a, b}

(* Programs print text, newlines and backspaces. *)
MCWriteStrings == {<<a>>, <<NL>>, <<BS>>, <<b, CR>>}

=============================================================================
