------------------------------- MODULE Bitmap -------------------------------
(***************************************************************************)
(* Bitmaps as sets of their one bits, and the two searches of              *)
(* src/lib/bitmap.c by what they find. BitmapScan has their loops.         *)
(***************************************************************************)
EXTENDS Integers

(* The bits that mark_true and mark_false change.                          *)
Run(first, size) == first..(first + size - 1)

mark_true(bits, first, size)  == bits \cup Run(first, size)
mark_false(bits, first, size) == bits \ Run(first, size)

(* A run of zeros that starts at first and ends within the searched part.  *)
ZeroRun(bits, first, size, limit) ==
    /\ first + size <= limit
    /\ Run(first, size) \cap bits = {}

HasZeroRun(bits, size, limit) ==
    \E a \in 0..limit : ZeroRun(bits, a, size, limit)

(* The first of them: the result of bmp_alloc.                             *)
IsFirstFit(bits, size, limit, a) ==
    /\ ZeroRun(bits, a, size, limit)
    /\ \A b \in 0..(a - 1) : ~ZeroRun(bits, b, size, limit)
FirstFit(bits, size, limit) ==
    CHOOSE a \in 0..limit : IsFirstFit(bits, size, limit, a)

(* The result of webmp_alloc: the first zeros of the bitmap, size of them  *)
(* or as many as there are in a row.                                       *)
IsWeakFit(bits, size, limit, a, n) ==
    /\ n <= size
    /\ ZeroRun(bits, a, n, limit)
    /\ n > 0 => 0..(a - 1) \subseteq bits
    /\ n = 0 => a = 0 /\ (size = 0 \/ 0..(limit - 1) \subseteq bits)
    /\ (0 < n /\ n < size) => (a + n = limit \/ a + n \in bits)
=============================================================================
