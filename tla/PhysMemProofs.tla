---------------------------- MODULE PhysMemProofs ----------------------------
(***************************************************************************)
(* Proofs about PhysMem, for every memory map and every request.           *)
(***************************************************************************)
EXTENDS PhysMem, WellFoundedInduction, TLAPS

(* Integer division rounds down.                                           *)
LEMMA Division ==
  ASSUME NEW x \in Nat, NEW d \in Nat \ {0}
  PROVE  /\ x \div d \in Nat
         /\ d * (x \div d) <= x
         /\ x < d * (x \div d) + d
  OBVIOUS

(* The searched part of the bitmap lies within it.                         *)
LEMMA LimitInBits ==
  ASSUME NEW m \in Smaps
  PROVE  /\ heap_size(m) \in Nat
         /\ Bits(m) \in Nat
         /\ heap_size(m) <= Bits(m)
  <1>1. traminpages(m) + BitsPerByte - 1 \in Nat
    BY PhysMemAssumption, SmapAssumption
  <1>2. heap_size(m) \in Nat
    BY <1>1, Division, PhysMemAssumption DEF heap_size
  <1>3. \A h \in Nat, b \in Nat \ {0} : b * h \in Nat /\ h <= b * h
    OBVIOUS
  <1>4. QED
    BY <1>2, <1>3, PhysMemAssumption DEF Bits

(* A set of naturals that is not empty has a least element.                *)
LEMMA LeastElement ==
  ASSUME NEW T \in SUBSET Nat, T # {}
  PROVE  \E x \in T : \A y \in T : x <= y
  <1> DEFINE R == OpToRel(<, Nat)
  <1>1. IsWellFoundedOn(R, Nat)
    BY NatLessThanWellFounded
  <1>2. \A x, y \in Nat : y < x => <<y, x>> \in R
    BY DEF OpToRel
  <1> HIDE DEF R
  <1>3. PICK x \in T : \A y \in T : ~(<<y, x>> \in R)
    BY <1>1, WFMin
  <1>4. \A y \in T : ~(y < x)
    BY <1>2, <1>3
  <1>5. QED
    BY <1>4

(* What a search finds is a run of zeros, wholly searched.                 *)
LEMMA FirstFitFits ==
  ASSUME NEW S, NEW n \in Nat, NEW lim \in Nat, HasZeroRun(S, n, lim)
  PROVE  FirstFit(S, n, lim) \in 0..lim /\ ZeroRun(S, FirstFit(S, n, lim), n, lim)
  <1> DEFINE Fits == {a \in 0..lim : ZeroRun(S, a, n, lim)}
  <1>1. Fits \in SUBSET Nat /\ Fits # {}
    BY DEF HasZeroRun
  <1>2. PICK a \in Fits : \A b \in Fits : a <= b
    BY <1>1, LeastElement
  <1>3. IsFirstFit(S, n, lim, a)
    BY <1>2 DEF IsFirstFit
  <1>4. QED
    BY <1>2, <1>3 DEF FirstFit, IsFirstFit

-----------------------------------------------------------------------------
(* A page that has memory behind it has a bit.                             *)
LEMMA MarkedInBits ==
  ASSUME NEW m \in Smaps, NEW a \in Nat, NEW n \in Nat
  PROVE  Marked(m, a, n) \subseteq 0..(Bits(m) - 1)
  <1>1. traminpages(m) \in Nat /\ traminpages(m) <= Bits(m)
    <2>1. traminpages(m) + BitsPerByte - 1 \in Nat
      BY PhysMemAssumption, SmapAssumption
    <2>2. traminpages(m) + BitsPerByte - 1
            < BitsPerByte * ((traminpages(m) + BitsPerByte - 1) \div BitsPerByte) + BitsPerByte
      BY <2>1, Division, PhysMemAssumption
    <2>3. QED
      BY <2>2, LimitInBits, SmapAssumption, PhysMemAssumption DEF Bits, heap_size
  <1>2. QED
    BY <1>1, LimitInBits DEF Marked, Run

(* The bitmap of a memory map stays within its bits.                       *)
LEMMA InitHeapInBits == ASSUME NEW m \in Smaps
                        PROVE  init_heap(m) \subseteq 0..(Bits(m) - 1)
  BY MarkedInBits, PhysMemAssumption DEF init_heap

(* Pages handed out were free to begin with, and were searched.            *)
Fresh == /\ Owned \cap init_heap(smap) = {}
         /\ \A p \in Owned : p < heap_size(smap)

(* The facts that stand or fall together: the bitmap accounts for the      *)
(* pages handed out, so a search never meets one of them again.            *)
IInv == TypeOK /\ Accounted /\ SingleOwner /\ Fresh

LEMMA InitInv == Init => IInv
  <1> SUFFICES ASSUME Init PROVE IInv
    OBVIOUS
  <1>1. smap \in Smaps /\ Bits(smap) \in Nat
    BY LimitInBits DEF Init
  <1>2. Owned = {}
    BY DEF Init, Owned
  <1>3. TypeOK
    BY <1>1, InitHeapInBits DEF Init, TypeOK
  <1>4. Accounted /\ SingleOwner /\ Fresh
    BY <1>2 DEF Init, Accounted, SingleOwner, Fresh
  <1>5. QED
    BY <1>3, <1>4 DEF IInv

(* Taking a run of zeros that was searched keeps them.                     *)
LEMMA TakeInv ==
  ASSUME IInv, NEW a \in Nat, NEW n \in Nat, NEW k \in Nat,
         ZeroRun(used, a, n, heap_size(smap)), Take(a, n, k)
  PROVE  IInv'
  <1> USE DEF IInv, TypeOK
  <1> DEFINE more == Marked(smap, a, k) \ (used \cup Run(a, n))
  <1>1. heap_size(smap) \in Nat /\ Bits(smap) \in Nat /\ heap_size(smap) <= Bits(smap)
    BY LimitInBits
  <1>2. Run(a, n) \subseteq 0..(Bits(smap) - 1) /\ Run(a, n) \cap used = {}
    BY <1>1 DEF ZeroRun, Run
  <1>3. \A p \in Run(a, n) : owners[p] = 0
    BY <1>2 DEF Accounted, Owned
  <1>4. Marked(smap, a, k) \subseteq 0..(Bits(smap) - 1)
    BY MarkedInBits
  <1>5. /\ UNCHANGED smap
        /\ used' = used \cup Run(a, n) \cup more
        /\ lost' = lost \cup more
        /\ more \cap (used \cup Run(a, n)) = {}
    BY DEF Take, mark_true
  <1>6. /\ DOMAIN owners' = 0..(Bits(smap) - 1)
        /\ \A p \in 0..(Bits(smap) - 1) :
              owners'[p] = IF p \in Run(a, n) THEN owners[p] + 1 ELSE owners[p]
        /\ owners' \in [0..(Bits(smap) - 1) -> Nat]
    BY DEF Take
  <1>7. TypeOK'
    BY <1>2, <1>4, <1>5, <1>6
  <1>8. SingleOwner'
    BY <1>3, <1>6 DEF SingleOwner
  <1>9. Owned' = Owned \cup Run(a, n)
    BY <1>2, <1>3, <1>6 DEF Owned
  <1> HIDE DEF more
  <1>10. Accounted'
    BY <1>2, <1>5, <1>9 DEF Accounted
  <1>11. Fresh'
    <2>1. init_heap(smap) \cap Run(a, n) = {}
      BY <1>2 DEF Accounted
    <2>2. \A p \in Run(a, n) : p < heap_size(smap)
      BY <1>1 DEF ZeroRun, Run
    <2>3. QED
      BY <1>5, <1>9, <2>1, <2>2 DEF Fresh
  <1>12. QED
    BY <1>7, <1>8, <1>10, <1>11

(* A step hands out a run of zeros that was searched, or nothing.          *)
LEMMA StepTakes ==
  ASSUME IInv, [Next]_vars
  PROVE  \/ \E a \in Nat, n \in Nat, k \in Nat :
              ZeroRun(used, a, n, heap_size(smap)) /\ Take(a, n, k)
         \/ UNCHANGED vars
  <1> USE PhysMemAssumption
  <1>1. heap_size(smap) \in Nat
    BY LimitInBits DEF IInv, TypeOK
  <1>2. ASSUME NEW n \in Requests, ppalloc(n)
        PROVE  \/ \E a \in Nat : ZeroRun(used, a, n, heap_size(smap)) /\ Take(a, n, n)
               \/ UNCHANGED vars
    BY <1>1, <1>2, FirstFitFits DEF ppalloc
  <1>3. ASSUME NEW n \in Requests, we_ppalloc(n)
        PROVE  \/ \E a \in Nat, m \in Nat :
                    ZeroRun(used, a, m, heap_size(smap)) /\ Take(a, m, n)
               \/ UNCHANGED vars
    BY <1>1, <1>3 DEF we_ppalloc, IsWeakFit
  <1>4. QED
    BY <1>2, <1>3 DEF Next, vars

LEMMA StepInv == IInv /\ [Next]_vars => IInv'
  <1> SUFFICES ASSUME IInv, [Next]_vars PROVE IInv'
    OBVIOUS
  <1>1. CASE \E a \in Nat, n \in Nat, k \in Nat :
                 ZeroRun(used, a, n, heap_size(smap)) /\ Take(a, n, k)
    BY <1>1, TakeInv
  <1>2. CASE UNCHANGED vars
    BY <1>2 DEF vars, IInv, TypeOK, Accounted, SingleOwner, Fresh, Owned
  <1>3. QED
    BY <1>1, <1>2, StepTakes

(* A physical page belongs to one caller: no page is handed out twice.     *)
THEOREM PagesHaveOneOwner == Spec => []SingleOwner
  <1>1. IInv => SingleOwner
    BY DEF IInv
  <1>2. QED
    BY InitInv, StepInv, <1>1, PTL DEF Spec

(* A one in the bitmap is a page init_heap withheld, one handed out, or    *)
(* one that a short we_ppalloc marked for nobody.                          *)
THEOREM BitmapAccounts == Spec => []Accounted
  <1>1. IInv => Accounted
    BY DEF IInv
  <1>2. QED
    BY InitInv, StepInv, <1>1, PTL DEF Spec

-----------------------------------------------------------------------------
(* A page the memory map frees touches the region that frees it, unless    *)
(* that region is misplaced.                                               *)
LEMMA FreedTouches ==
  ASSUME NEW m \in Smaps, NEW r \in Regions(m), NEW p \in FreedBy(m, r)
  PROVE  /\ r.type = Ram /\ p \in Nat /\ p < traminpages(m)
         /\ r \in Misplaced(m) \/ Touches(p, r)
  <1> DEFINE q == r.base \div PageSize
             c == ((r.len + PageSize - 1) % Word) \div PageSize
  <1>1. /\ r.base \in Nat /\ r.len \in Nat /\ r.hbase \in Nat /\ r.hlen \in Nat
        /\ PageSize \in Nat \ {0} /\ Word \in Nat \ {0}
    BY SmapAssumption, PhysMemAssumption DEF Regions, smapRecord
  <1>2. /\ q \in Nat /\ PageSize * q <= r.base /\ r.base < PageSize * q + PageSize
        /\ c \in Nat /\ PageSize * c <= r.len + PageSize - 1
    <2>1. \A x \in Nat, d \in Nat \ {0} : x % d \in Nat /\ x % d <= x
      OBVIOUS
    <2>2. r.len + PageSize - 1 \in Nat
      BY <1>1
    <2> DEFINE x == (r.len + PageSize - 1) % Word
    <2>3. x \in Nat /\ x <= r.len + PageSize - 1
      BY <1>1, <2>1, <2>2
    <2> HIDE DEF x
    <2>4. x \div PageSize \in Nat /\ PageSize * (x \div PageSize) <= x
      BY <1>1, <2>3, Division
    <2>5. c = x \div PageSize
      BY DEF x
    <2> HIDE DEF c
    <2>6. c \in Nat /\ PageSize * c <= r.len + PageSize - 1
      BY <1>1, <2>2, <2>3, <2>4, <2>5
    <2>7. QED
      BY <1>1, <2>6, Division
  <1>3. r.type = Ram /\ p \in Run(q, c) /\ p < traminpages(m) /\ r.base >= LowPages * PageSize
    BY DEF FreedBy, Marked
  <1> HIDE DEF q, c
  <1>4. p \in Nat /\ q <= p /\ p + 1 <= q + c
    BY <1>2, <1>3 DEF Run
  <1>5. \A x, y \in Nat : x <= y => PageSize * x <= PageSize * y
    BY <1>1
  <1>6. PageSize * q <= PageSize * p /\ PageSize * (p + 1) <= PageSize * (q + c)
    BY <1>2, <1>4, <1>5
  <1>7. /\ PageSize * (p + 1) = PageSize * p + PageSize
        /\ PageSize * (q + c) = PageSize * q + PageSize * c
        /\ p * PageSize = PageSize * p /\ (p + 1) * PageSize = PageSize * (p + 1)
    BY <1>1, <1>2, <1>4
  <1>8. r.base < PageSize * (p + 1) /\ PageSize * p < r.base + r.len
    <2> DEFINE A == PageSize * p
               B == PageSize * q
               C == PageSize * c
    <2>1. A \in Nat /\ B \in Nat /\ C \in Nat
      BY <1>1, <1>2, <1>4
    <2>2. B <= A /\ A + PageSize <= B + C
      BY <1>6, <1>7
    <2> HIDE DEF A, B, C
    <2>3. /\ B <= r.base /\ r.base < B + PageSize /\ C <= r.len + PageSize - 1
      BY <1>2 DEF B, C
    <2>4. r.base < A + PageSize /\ A < r.base + r.len
      BY <1>1, <2>1, <2>2, <2>3
    <2>5. QED
      BY <1>7, <2>4 DEF A
  <1>9. r \in Misplaced(m) \/ r.hbase = 0
    BY <1>1, <1>3 DEF Misplaced
  <1>10. ASSUME r.hbase = 0 PROVE Touches(p, r)
    <2>1. Start(r) = r.base
      BY <1>1, <1>10 DEF Start
    <2>2. Length(r) \in Nat /\ r.len <= Length(r)
      <3>1. Word * r.hlen \in Nat
        BY <1>1
      <3>2. QED
        BY <1>1, <3>1 DEF Length
    <2> DEFINE A == PageSize * p
    <2>3. A \in Nat /\ p * PageSize = A /\ (p + 1) * PageSize = PageSize * (p + 1)
      BY <1>1, <1>4, <1>7
    <2>4. r.base < PageSize * (p + 1) /\ A < r.base + r.len
      BY <1>8
    <2> HIDE DEF A
    <2>5. A < r.base + Length(r)
      BY <1>1, <2>2, <2>3, <2>4
    <2>6. QED
      BY <2>1, <2>3, <2>4, <2>5 DEF Touches
  <1>11. QED
    BY <1>3, <1>4, <1>9, <1>10

(* What is handed out is not the low memory and not the kernel's, and it   *)
(* is memory the firmware reports as usable, as long as the firmware       *)
(* reports none that the kernel takes for memory at its low word.          *)
THEOREM OwnedPagesAreRam == Spec => []OwnedIsRam
  <1>1. IInv => OwnedIsRam
    <2> SUFFICES ASSUME IInv, NEW p \in Owned
                 PROVE  /\ p \notin Reserved
                        /\ Misplaced(smap) = {} =>
                              \E r \in Regions(smap) : r.type = Ram /\ Touches(p, r)
      BY DEF OwnedIsRam
    <2>1. smap \in Smaps /\ p \in 0..(Bits(smap) - 1) /\ p \notin init_heap(smap)
      BY DEF IInv, TypeOK, Fresh, Owned
    <2>2. p \in Freed(smap) /\ p \notin Marked(smap, 0, LowPages)
                           /\ p \notin Marked(smap, LowPages, kernel_sizepg)
      BY <2>1 DEF init_heap
    <2>3. PICK r \in Regions(smap) : p \in FreedBy(smap, r)
      BY <2>2 DEF Freed
    <2>4. /\ r.type = Ram /\ p \in Nat /\ p < traminpages(smap)
          /\ r \in Misplaced(smap) \/ Touches(p, r)
      BY <2>1, <2>3, FreedTouches
    <2>5. p \notin Run(0, LowPages) /\ p \notin Run(LowPages, kernel_sizepg)
      BY <2>2, <2>4 DEF Marked
    <2>6. p \notin Reserved
      BY <2>4, <2>5, PhysMemAssumption DEF Reserved, Run
    <2>7. QED
      BY <2>4, <2>6
  <1>2. QED
    BY InitInv, StepInv, <1>1, PTL DEF Spec
=============================================================================
