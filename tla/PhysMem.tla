------------------------------ MODULE PhysMem -------------------------------
(***************************************************************************)
(* Physical pages: the bitmap init_heap builds from the firmware's memory  *)
(* map, and ppalloc and we_ppalloc, which hand pages out for good (nothing *)
(* in the kernel gives a physical page back). src/kernel/heap.c, with the  *)
(* sizes src/kernel/init.c computes.                                       *)
(*                                                                         *)
(* bmp_alloc takes heap_size, a number of bytes, for the number of bits to *)
(* search: only the first eighth of memory is ever handed out. When it     *)
(* finds nothing it returns 0xFFFFFFFF and ppalloc passes that on.         *)
(*                                                                         *)
(* The firmware reports base and length of a region in two words each; the *)
(* kernel reads the low words only and computes in 32 bits. A region above *)
(* 4 GiB is taken for one at its low word.                                 *)
(***************************************************************************)
EXTENDS Bitmap, Sequences, SequencesExt

CONSTANTS
    Smaps,          \* memory maps: sequences of regions of type smap
    Word,           \* 2^32: addresses and lengths are counted modulo it
    PageSize,       \* 4096: bytes per page
    BitsPerByte,    \* 8
    LowPages,       \* 0x100: the first megabyte
    kernel_sizepg,  \* pages of the kernel image and the bitmap behind it
    Requests        \* numbers of pages callers ask for

ASSUME PhysMemAssumption ==
    /\ Word \in Nat \ {0} /\ PageSize \in Nat \ {0}
    /\ BitsPerByte \in Nat \ {0}
    /\ LowPages \in Nat \ {0}
    /\ kernel_sizepg \in Nat
    /\ Requests \subseteq Nat \ {0}

VARIABLES
    smap,           \* the memory map of this machine
    used,           \* the one bits of heap_start
    owners,         \* history: how often each page was handed out
    lost            \* history: pages marked for nobody

vars == <<smap, used, owners, lost>>

Ram == 1            \* region type 1

(* struct smap: the low and the high words of base and length.             *)
smapRecord == [base : 0..(Word - 1), hbase : 0..(Word - 1),
               len : 0..(Word - 1), hlen : 0..(Word - 1), type : Nat]

(* traminbytes >> 12: the low words of the lengths, of every type.         *)
traminpages(m) == (FoldSeq(LAMBDA r, sum : (r.len + sum) % Word, 0, m)) \div PageSize
heap_size(m) == (traminpages(m) + BitsPerByte - 1) \div BitsPerByte
Bits(m) == BitsPerByte * heap_size(m)

ASSUME SmapAssumption == \A m \in Smaps :
    /\ traminpages(m) \in Nat
    /\ \A k \in DOMAIN m : m[k] \in smapRecord

(* Pages beyond the counted memory have no bit to mark.                    *)
Marked(m, first, pages) == {p \in Run(first, pages) : p < traminpages(m)}

(* The regions init_heap frees: from the page of the low word of the base  *)
(* on, as many pages as the low word of the length fills. Rounding it up   *)
(* may wrap.                                                               *)
Regions(m) == {m[k] : k \in DOMAIN m}
FreedBy(m, r) ==
    IF r.base >= LowPages * PageSize /\ r.type = Ram
    THEN Marked(m, r.base \div PageSize, ((r.len + PageSize - 1) % Word) \div PageSize)
    ELSE {}
Freed(m) == UNION {FreedBy(m, r) : r \in Regions(m)}
Reserved == 0..(LowPages + kernel_sizepg - 1)

(* Mutant of init_heap: the kernel's own pages are not marked.             *)
init_heapNoKernel(m) ==
    ((0..(Bits(m) - 1)) \ Freed(m)) \cup Marked(m, 0, LowPages)

(* memset to 0xFF, mark_free per region, then mark_used low memory and the *)
(* kernel.                                                                 *)
init_heap(m) ==
    ((0..(Bits(m) - 1)) \ Freed(m)) \cup Marked(m, 0, LowPages)
                                    \cup Marked(m, LowPages, kernel_sizepg)

Init ==
    /\ smap \in Smaps
    /\ used = init_heap(smap)
    /\ owners = [p \in 0..(Bits(smap) - 1) |-> 0]
    /\ lost = {}

(* Mutant of Take: the last page of the run is not marked.                 *)
TakeShort(a, n, asked) ==
    /\ used' = mark_true(used, a, n - 1)
    /\ owners' = [p \in DOMAIN owners |->
                    IF p \in Run(a, n) THEN owners[p] + 1 ELSE owners[p]]
    /\ UNCHANGED <<smap, lost>>

(* The search marks the n pages it found from a on; mark_used then marks   *)
(* as many as the caller asked for, as far as they have bits.              *)
Take(a, n, asked) ==
    /\ used' = mark_true(used, a, n) \cup Marked(smap, a, asked)
    /\ owners' = [p \in DOMAIN owners |->
                    IF p \in Run(a, n) THEN owners[p] + 1 ELSE owners[p]]
    /\ lost' = lost \cup (Marked(smap, a, asked) \ (used \cup Run(a, n)))
    /\ UNCHANGED smap

(* Without a run: mark_used(0xFFFFFFFF, n), whose range wraps, so that      *)
(* nothing is marked.                                                      *)
ppalloc(n) ==
    LET limit == heap_size(smap)
    IN  \/ HasZeroRun(used, n, limit) /\ Take(FirstFit(used, n, limit), n, n)
        \/ ~HasZeroRun(used, n, limit) /\ UNCHANGED vars

(* The pages found may be fewer than those asked for, but those asked for  *)
(* are marked: the ones behind the run found are lost. None found, and     *)
(* nothing is marked.                                                      *)
we_ppalloc(n) ==
    \E a \in 0..heap_size(smap), m \in 0..n :
        /\ IsWeakFit(used, n, heap_size(smap), a, m)
        /\ \/ m = 0 /\ UNCHANGED vars
           \/ m > 0 /\ Take(a, m, n)

Next == \E n \in Requests : ppalloc(n) \/ we_ppalloc(n)

Spec == Init /\ [][Next]_vars

-----------------------------------------------------------------------------
Owned == {p \in DOMAIN owners : owners[p] > 0}

(* The bitmap has no one bits behind its end, not even after a failure.    *)
TypeOK ==
    /\ smap \in Smaps
    /\ used \subseteq 0..(Bits(smap) - 1)
    /\ owners \in [0..(Bits(smap) - 1) -> Nat]
    /\ lost \subseteq 0..(Bits(smap) - 1)

(* No page is handed out twice, however the two allocators alternate.      *)
SingleOwner == \A p \in DOMAIN owners : owners[p] <= 1

(* The bitmap accounts for every page: it is one if init_heap left it so,  *)
(* if it was handed out, or if a short we_ppalloc marked it for nobody     *)
(* (then it stays lost), and for no other reason.                          *)
Accounted ==
    /\ used = init_heap(smap) \cup Owned \cup lost
    /\ lost \cap (init_heap(smap) \cup Owned) = {}

(* Where the firmware says a region is.                                    *)
Start(r) == Word * r.hbase + r.base
Length(r) == Word * r.hlen + r.len
Touches(p, r) == Start(r) < (p + 1) * PageSize /\ p * PageSize < Start(r) + Length(r)

(* RAM above 4 GiB that init_heap frees at the low word of its base, where *)
(* there need be no RAM.                                                   *)
Misplaced(m) == {r \in Regions(m) :
    r.type = Ram /\ r.hbase > 0 /\ r.base >= LowPages * PageSize}

(* A page handed out is neither low memory nor the kernel nor its bitmap;  *)
(* and when no region is misplaced, it touches a type 1 region.            *)
OwnedIsRam == \A p \in Owned :
    /\ p \notin Reserved
    /\ Misplaced(smap) = {} => \E r \in Regions(smap) : r.type = Ram /\ Touches(p, r)
=============================================================================
