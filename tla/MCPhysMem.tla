----------------------------- MODULE MCPhysMem ------------------------------
(* PhysMem on maps of some twenty pages of two units, with two bits to a   *)
(* byte so that the searched part of the bitmap holds several runs. A word *)
(* holds the numbers below 128.                                            *)
EXTENDS PhysMem

Region(b, l, t) == [base |-> b, hbase |-> 0, len |-> l, hlen |-> 0, type |-> t]
High(b, l, hl) == [base |-> b, hbase |-> 1, len |-> l, hlen |-> hl, type |-> Ram]

MCSmaps == {
    \* low memory, RAM that ends inside a page, a reserved region behind it
    << Region(0, 4, 1), Region(4, 43, 1), Region(47, 13, 2) >>,
    \* a hole between two RAM regions, the second one not page-aligned
    << Region(0, 4, 1), Region(4, 7, 1), Region(15, 27, 1), Region(60, 26, 2) >>,
    \* a reserved region in the middle of RAM, RAM from one word on
    << Region(0, 3, 1), Region(4, 8, 1), Region(12, 4, 2), Region(16, 45, 1), High(0, 2, 1) >>,
    \* so much RAM from one word on that the sum of the lengths wraps
    << Region(0, 4, 1), Region(4, 40, 1), High(0, 120, 0) >>,
    \* RAM above one word that is freed where a reserved region is
    << Region(0, 4, 1), Region(4, 12, 1), Region(16, 40, 2), High(30, 10, 0) >>,
    \* a length that wraps when it is rounded up, and RAM behind it
    << Region(0, 4, 1), Region(4, 127, 1), Region(10, 30, 1) >> }
=============================================================================
