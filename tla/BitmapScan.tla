----------------------------- MODULE BitmapScan -----------------------------
(***************************************************************************)
(* The loops of bmp_alloc and webmp_alloc (src/lib/bitmap.c), one bit per  *)
(* step. That they find what BitPool promises is the refinement below.     *)
(***************************************************************************)
EXTENDS BitPool

VARIABLES
    pc,         \* the function that runs; "break" when webmp_alloc leaves its loop
    size,       \* its argument
    i,          \* the bit it looks at
    counter,    \* zeros counted
    result      \* where the counted run starts

scan == <<pc, size, i, counter, result>>
vars == <<poolVars, scan>>

(* The search stays within its limit and counts no more than it was asked. *)
TypeOK ==
    /\ used \subseteq 0..(Bits - 1)
    /\ ret \in [first : 0..Limit \cup {Fail}, size : Nat]
    /\ pc \in {"idle", "bmp", "webmp", "break"}
    /\ size \in Sizes \cup {0}
    /\ pc = "idle" \/ size \in Sizes
    /\ i \in 0..Limit
    /\ counter \in 0..size
    /\ result \in 0..Limit

Init ==
    /\ PoolInit
    /\ pc = "idle"
    /\ size = 0 /\ i = 0 /\ counter = 0 /\ result = 0

Call(f, n) ==
    /\ pc = "idle"
    /\ pc' = f
    /\ size' = n /\ i' = 0 /\ counter' = 0 /\ result' = 0
    /\ UNCHANGED poolVars

Looping == i < Limit /\ counter < size

CountZero ==
    /\ i \notin used
    /\ result' = IF counter = 0 THEN i ELSE result
    /\ counter' = counter + 1
    /\ i' = i + 1

(* Mutant of BmpStep: the run is not started anew behind a one.            *)
BmpStepNoReset ==
    /\ pc = "bmp" /\ Looping
    /\ \/ CountZero
       \/ i \in used /\ i' = i + 1 /\ UNCHANGED <<counter, result>>
    /\ UNCHANGED <<poolVars, pc, size>>

(* Mutant of BmpStep: the index stays at a one.                            *)
BmpStepStuck ==
    /\ pc = "bmp" /\ Looping
    /\ \/ CountZero
       \/ i \in used /\ counter' = 0 /\ UNCHANGED <<i, result>>
    /\ UNCHANGED <<poolVars, pc, size>>

(* The loop body of bmp_alloc.                                             *)
BmpStep ==
    /\ pc = "bmp" /\ Looping
    /\ \/ CountZero
       \/ i \in used /\ counter' = 0 /\ i' = i + 1 /\ UNCHANGED result
    /\ UNCHANGED <<poolVars, pc, size>>

(* The loop body of webmp_alloc.                                           *)
WebmpStep ==
    /\ pc = "webmp" /\ Looping
    /\ \/ CountZero /\ UNCHANGED pc
       \/ i \in used /\ counter = 0 /\ i' = i + 1 /\ UNCHANGED <<counter, result, pc>>
       \/ i \in used /\ counter > 0 /\ pc' = "break" /\ UNCHANGED <<i, counter, result>>
    /\ UNCHANGED <<poolVars, size>>

Leave == pc' = "idle" /\ UNCHANGED <<size, i, counter, result>>

BmpReturn ==
    /\ pc = "bmp" /\ ~Looping
    /\ \/ /\ counter # size
          /\ UNCHANGED used
          /\ ret' = [first |-> Fail, size |-> 0]
       \/ /\ counter = size
          /\ used' = mark_true(used, result, size)
          /\ ret' = [first |-> result, size |-> size]
    /\ Leave

WebmpReturn ==
    /\ pc = "break" \/ (pc = "webmp" /\ ~Looping)
    /\ used' = mark_true(used, result, counter)
    /\ ret' = [first |-> result, size |-> counter]
    /\ Leave

Next ==
    \/ \E f \in {"bmp", "webmp"}, n \in Sizes : Call(f, n)
    \/ BmpStep \/ WebmpStep \/ BmpReturn \/ WebmpReturn

Spec == Init /\ [][Next]_vars
FairSpec == Spec /\ WF_vars(BmpStep \/ WebmpStep \/ BmpReturn \/ WebmpReturn)

-----------------------------------------------------------------------------
(* The part of the bitmap before i holds no run long enough for bmp_alloc, *)
(* except the one that is being counted and ends at i.                     *)
BmpInv ==
    pc = "bmp" =>
        /\ counter <= i
        /\ counter > 0 => result = i - counter
        /\ counter = 0 /\ size = 0 => result = 0
        /\ (i - counter)..(i - 1) \cap used = {}
        /\ \A b \in 0..(i - counter - 1) : Run(b, size) \cap used # {}

(* webmp_alloc has seen ones up to its run, and zeros in it.               *)
WebmpInv ==
    pc \in {"webmp", "break"} =>
        /\ counter <= i
        /\ counter = 0 => result = 0 /\ 0..(i - 1) \subseteq used
        /\ counter > 0 => result = i - counter /\ 0..(result - 1) \subseteq used
        /\ (i - counter)..(i - 1) \cap used = {}
        /\ pc = "break" => counter > 0 /\ i \in used

(* What the loops of bmp_alloc and webmp_alloc know: the bits behind them  *)
(* hold no better answer than the run they are counting.                   *)
ScanInv == BmpInv /\ WebmpInv

(* A search returns the first run that fits, or fails with the bitmap as   *)
(* it was and no such run in it: the caller may rely on BitPool.           *)
Implements == PoolSpec

(* A search ends.                                                          *)
Returns == (pc # "idle") ~> (pc = "idle")
=============================================================================
