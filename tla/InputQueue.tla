----------------------------- MODULE InputQueue -----------------------------
(***************************************************************************)
(* What the keyboard input buffer of a terminal promises (spec 4.4, 5):    *)
(* a bounded queue in arrival order.  A keystroke appends when there is    *)
(* room, a backspace removes the newest byte, and a read hands a prefix to *)
(* the program.                                                            *)
(***************************************************************************)
EXTENDS Naturals, Sequences

CONSTANTS Capacity, Items

VARIABLES queue, result

Init ==
    /\ queue = <<>>
    /\ result = <<>>

Accept(c) ==
    /\ Len(queue) < Capacity
    /\ queue' = Append(queue, c)
    /\ UNCHANGED result

Erase ==
    /\ queue # <<>>
    /\ queue' = SubSeq(queue, 1, Len(queue) - 1)
    /\ UNCHANGED result

Deliver ==
    \E n \in 0 .. Len(queue) :
        /\ result' = SubSeq(queue, 1, n)
        /\ queue' = SubSeq(queue, n + 1, Len(queue))

Next == (\E c \in Items : Accept(c)) \/ Erase \/ Deliver

Spec == Init /\ [][Next]_<<queue, result>>

=============================================================================
