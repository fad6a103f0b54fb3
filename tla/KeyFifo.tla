------------------------------- MODULE KeyFifo -------------------------------
(***************************************************************************)
(* What the keyboard driver promises: scan codes come out in the order the *)
(* keys were pressed, and a key pressed when Capacity codes wait is lost.  *)
(***************************************************************************)
EXTENDS Integers, Sequences

CONSTANTS
    Codes,      \* scan codes of keys
    Capacity    \* codes that may wait

VARIABLES
    queue,      \* the codes that wait
    got         \* the code the last call returned

fifoVars == <<queue, got>>

FifoInit == queue = <<>> /\ got = 0

Press(code) ==
    /\ Len(queue) < Capacity
    /\ queue' = Append(queue, code)
    /\ UNCHANGED got

Take ==
    /\ queue # <<>>
    /\ got' = Head(queue)
    /\ queue' = Tail(queue)

FifoNext == Take \/ \E code \in Codes : Press(code)

FifoSpec == FifoInit /\ [][FifoNext]_fifoVars
=============================================================================
