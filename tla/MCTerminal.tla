----------------------------- MODULE MCTerminal -----------------------------
(***************************************************************************)
(* Small instances of Terminal for TLC.                                    *)
(***************************************************************************)
EXTENDS Terminal

CONSTANTS a

(* One ordinary character is enough to tell newline, '\0' and text apart. *)
MCChars == {a}

(* read(1) takes single bytes; read(4) is clamped to the buffer size. *)
MCReadSizes == {1, 4}

(* Programs print text, newlines and backspaces. *)
MCWriteStrings == {<<a>>, <<NL>>, <<BS>>}

=============================================================================
