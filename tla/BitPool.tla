------------------------------ MODULE BitPool -------------------------------
(***************************************************************************)
(* What the searches of src/lib/bitmap.c promise their callers: in one     *)
(* step, the first run of zeros that is long enough is marked and its      *)
(* place returned, or nothing is marked and the caller is told.            *)
(***************************************************************************)
EXTENDS Bitmap

CONSTANTS
    Bits,       \* the bits of the bitmap
    Limit,      \* bitmapsize: how many of them are searched
    Sizes,      \* the lengths callers ask for
    Fail        \* 0xFFFFFFFF: there is no such run

ASSUME PoolAssumption ==
    /\ Bits \in Nat
    /\ Limit \in 1..Bits
    /\ Sizes \subseteq Nat
    /\ Fail \in Nat /\ Fail > Bits

VARIABLES
    used,       \* the one bits
    ret         \* what the last call returned: first bit and length

poolVars == <<used, ret>>

PoolInit == used \in SUBSET (0..(Bits - 1)) /\ ret = [first |-> 0, size |-> 0]

(* bmp_alloc                                                               *)
Alloc(n) ==
    IF HasZeroRun(used, n, Limit)
    THEN LET a == FirstFit(used, n, Limit)
         IN  /\ used' = mark_true(used, a, n)
             /\ ret' = [first |-> a, size |-> n]
    ELSE UNCHANGED used /\ ret' = [first |-> Fail, size |-> 0]

(* webmp_alloc                                                             *)
WeakAlloc(n) ==
    \E a \in 0..Limit, m \in 0..n :
        /\ IsWeakFit(used, n, Limit, a, m)
        /\ used' = mark_true(used, a, m)
        /\ ret' = [first |-> a, size |-> m]

PoolNext == \E n \in Sizes : Alloc(n) \/ WeakAlloc(n)

PoolSpec == PoolInit /\ [][PoolNext]_poolVars
=============================================================================
